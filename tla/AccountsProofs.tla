--------------------------- MODULE AccountsProofs ---------------------------
(***************************************************************************)
(* For any number of handlers, names with any collation, passwords and     *)
(* accounts, with statements that may fail: answers about accounts are     *)
(* true, a session acts for the account it logged in to, and nobody        *)
(* becomes somebody else.                                                  *)
(***************************************************************************)
EXTENDS Accounts, SequenceTheorems, TLAPS

-----------------------------------------------------------------------------
(* The inductive invariant *)

Rows == [name : Names, hash : {MD5Encrypt(p) : p \in Passwords}]

\* The requests that are kept between two steps; what is malformed was refused at once.
Kept == [type : {"none", "REGISTER", "LOGIN", "UPDATE_USER", "QUERY_STATUS"},
         user : Names \cup {NoName}, password : Passwords \cup {NoName},
         newName : Names \cup {NoName}, newPassword : {NoName}]

\* The UNIQUE key: no two rows have names that the collation takes for one.
NamesUnique ==
    \A i, j \in DOMAIN users : Key[users[i].name] = Key[users[j].name] => i = j

\* What the place of handler h says of the request it serves and of the row it has found.
InPlace(h) ==
    LET r == request[h] IN
    /\ at[h] = "idle" => row[h] = 0
    /\ at[h] \in {"exists", "insert"} =>
        r.type = "REGISTER" /\ r.user \in Names /\ r.password \in Passwords /\ row[h] = 0
    /\ at[h] = "find" =>
        /\ r.type \in {"LOGIN", "UPDATE_USER", "QUERY_STATUS"} /\ row[h] = 0
        /\ r.type = "LOGIN" => r.user \in Names
    /\ at[h] \in {"kick", "bind"} =>
        r.type = "LOGIN" /\ r.user \in Names /\ row[h] \in DOMAIN users
    /\ at[h] \in {"newName", "rename", "newPassword"} =>
        r.type = "UPDATE_USER" /\ row[h] \in DOMAIN users
    /\ at[h] = "rename" => r.newName \in Names
    /\ at[h] = "status" => r.type = "QUERY_STATUS"

\* What handler h has seen by the time it is there, unless a statement failed.
Saw(h) ==
    ~failed[h] =>
        /\ at[h] # "idle" =>
            Facts(users, request[h], row[h]) \cap Relevant[request[h].type] \subseteq seen[h]
        /\ at[h] = "insert" => "free" \in seen[h]
        /\ at[h] \in {"kick", "bind", "newName", "rename", "newPassword"} => "right" \in seen[h]
        /\ at[h] = "rename" => "newFree" \in seen[h]
        /\ at[h] = "newPassword" /\ request[h].newName # NoName =>
            {"newFree", "renamed"} \subseteq seen[h]
        /\ at[h] = "status" => "taken" \in seen[h]

\* A connection that logs in has no name yet, or the one it logs in with.
LogsInAsItself(h) ==
    at[h] \in {"find", "kick", "bind"} /\ request[h].type = "LOGIN" =>
        session[h] \in {NoName, request[h].user}

IInv ==
    /\ TypeOK /\ NamesUnique /\ SessionActsForItsAccount /\ AnswersWereTrue
    /\ request \in [Handlers -> Kept]
    /\ \A h \in Handlers : InPlace(h) /\ Saw(h) /\ LogsInAsItself(h)

-----------------------------------------------------------------------------
(* Lemmas about names, facts and answers *)

(* No name or password is empty or malformed. *)
LEMMA WellFormed ==
    /\ NoName \notin Names /\ Bad \notin Names
    /\ NoName \notin Passwords /\ Bad \notin Passwords
    /\ NoName # Bad
BY AccountsAssumption DEF NoName, Bad

(* What the facts mean. *)
LEMMA FactsMean ==
    ASSUME NEW rows, NEW r, NEW i
    PROVE  /\ "free" \in Facts(rows, r, i) <=> SelectFrom(rows, r.user) = {} /\ i = 0
           /\ "taken" \in Facts(rows, r, i) <=> SelectFrom(rows, r.user) # {}
           /\ "right" \in Facts(rows, r, i) <=>
                \E j \in SelectFrom(rows, r.user) : rows[j].hash = MD5Encrypt(r.password)
           /\ "wrong" \in Facts(rows, r, i) <=>
                i = 0 /\ \E j \in SelectFrom(rows, r.user) : rows[j].hash # MD5Encrypt(r.password)
           /\ "newFree" \in Facts(rows, r, i) <=>
                r.newName \in Names /\ SelectFrom(rows, r.newName) = {}
           /\ "newTaken" \in Facts(rows, r, i) <=> SelectFrom(rows, r.newName) # {}
           /\ "renamed" \in Facts(rows, r, i) <=> i # 0 /\ rows[i].name = r.newName
           /\ "rehashed" \in Facts(rows, r, i) <=>
                i # 0 /\ rows[i].hash = MD5Encrypt(r.newPassword)
BY DEF Facts, ValidateUsername

(* What each answer should have seen. *)
LEMMA EvidenceIs ==
    ASSUME NEW r
    PROVE  /\ Evidence(r, 1001) = {} /\ Evidence(r, 2001) = {}
           /\ Evidence(r, 2003) = {"free"}
           /\ r.type = "REGISTER" =>
                /\ Evidence(r, 0) = {"free", "right"}
                /\ Evidence(r, 2002) = {"taken"}
                /\ Evidence(r, 5001) = {"free", "taken"}
           /\ r.type = "LOGIN" => Evidence(r, 0) = {"right"} /\ Evidence(r, 2004) = {"wrong"}
           /\ r.type = "UPDATE_USER" =>
                /\ Evidence(r, 0) =
                     {"right"} \cup {f \in {"newFree", "renamed"} : r.newName # NoName}
                               \cup {f \in {"rehashed"} : r.newPassword # NoName}
                /\ Evidence(r, 2006) = {"wrong"}
                /\ Evidence(r, 2002) = {"right", "newTaken"}
                /\ Evidence(r, 5001) = {"right", "newFree", "newTaken"}
           /\ r.type = "QUERY_STATUS" => Evidence(r, 0) = {"taken"}
BY DEF Evidence

(* What a name that is found has to do with the rows. *)
LEMMA Selected ==
    ASSUME NEW rows, NEW n, NEW i
    PROVE  i \in SelectFrom(rows, n) <=>
                i \in DOMAIN rows /\ n \in Names /\ Key[rows[i].name] = Key[n]
BY DEF SelectFrom

-----------------------------------------------------------------------------
(* The table *)

(* The rows are what they should be. *)
LEMMA RowsTyped ==
    ASSUME TypeOK
    PROVE  /\ users \in Seq(Rows) /\ Len(users) \in Nat /\ DOMAIN users = 1..Len(users)
           /\ \A i \in DOMAIN users : users[i] \in Rows /\ users[i].name \in Names
<1>1. users \in Seq(Rows)
  BY DEF TypeOK, Rows
<1>2. Len(users) \in Nat /\ DOMAIN users = 1..Len(users)
  BY <1>1, LenProperties
<1>3. \A i \in DOMAIN users : users[i] \in Rows
  BY <1>1, <1>2, ElementOfSeq
<1> QED
  BY <1>1, <1>2, <1>3 DEF Rows

(* A new row comes after the others, under a name that was free. *)
LEMMA RowInserted ==
    ASSUME TypeOK, NamesUnique, NEW n \in Names, NEW p \in Passwords, Select(n) = {},
           users' = Append(users, [name |-> n, hash |-> MD5Encrypt(p)])
    PROVE  /\ users' \in Seq(Rows) /\ Len(users') = Len(users) + 1
           /\ DOMAIN users' = DOMAIN users \cup {Len(users) + 1}
           /\ \A i \in DOMAIN users : users'[i] = users[i]
           /\ users'[Len(users) + 1] = [name |-> n, hash |-> MD5Encrypt(p)]
           /\ NamesUnique'
<1> DEFINE new == [name |-> n, hash |-> MD5Encrypt(p)]
<1>1. new \in Rows /\ new.name = n
  BY DEF Rows
<1>2. /\ users \in Seq(Rows) /\ Len(users) \in Nat /\ DOMAIN users = 1..Len(users)
  BY RowsTyped
<1>3. /\ users' \in Seq(Rows) /\ Len(users') = Len(users) + 1
      /\ \A i \in 1..Len(users) : users'[i] = users[i]
      /\ users'[Len(users) + 1] = new
  <2> HIDE DEF new
  <2> QED
    BY <1>1, <1>2, AppendProperties DEF new
<1>4. DOMAIN users' = 1..(Len(users) + 1)
  BY <1>3, LenProperties
<1>5. DOMAIN users' = DOMAIN users \cup {Len(users) + 1}
  BY <1>2, <1>4
<1>6. \A i \in DOMAIN users : Key[users[i].name] # Key[n]
  BY Selected DEF Select
<1>7. NamesUnique'
  BY <1>1, <1>2, <1>3, <1>5, <1>6 DEF NamesUnique
<1> QED
  BY <1>2, <1>3, <1>5, <1>7

(* A row that changes its name for one that was free leaves the others as they are. *)
LEMMA RowRenamed ==
    ASSUME TypeOK, NamesUnique, NEW n \in Names, NEW k \in DOMAIN users, Select(n) = {},
           users' = [users EXCEPT ![k].name = n]
    PROVE  /\ users' \in Seq(Rows) /\ Len(users') = Len(users)
           /\ DOMAIN users' = DOMAIN users
           /\ \A i \in DOMAIN users : i # k => users'[i] = users[i]
           /\ users'[k].name = n
           /\ NamesUnique'
<1> PICK new : new = [users[k] EXCEPT !.name = n]
  OBVIOUS
<1>1. users[k] \in Rows
  BY RowsTyped
<1>2. new \in Rows /\ new.name = n
  BY <1>1 DEF Rows
<1>3. users' = [users EXCEPT ![k] = new]
  OBVIOUS
<1>4. /\ users \in Seq(Rows) /\ Len(users) \in Nat /\ DOMAIN users = 1..Len(users)
  BY RowsTyped
<1>5. /\ users' \in Seq(Rows) /\ Len(users') = Len(users)
      /\ \A i \in 1..Len(users) : users'[i] = IF i = k THEN new ELSE users[i]
  BY <1>2, <1>3, <1>4, ExceptSeq
<1>6. DOMAIN users' = DOMAIN users
  BY <1>3
<1>7. \A i \in DOMAIN users : Key[users[i].name] # Key[n]
  BY Selected DEF Select
<1>8. NamesUnique'
  BY <1>2, <1>4, <1>5, <1>6, <1>7 DEF NamesUnique
<1> QED
  BY <1>2, <1>4, <1>5, <1>6, <1>8

(* A row that changes its password keeps its name. *)
LEMMA RowRehashed ==
    ASSUME TypeOK, NamesUnique, NEW p \in Passwords, NEW k \in DOMAIN users,
           users' = [users EXCEPT ![k].hash = MD5Encrypt(p)]
    PROVE  /\ users' \in Seq(Rows) /\ Len(users') = Len(users)
           /\ DOMAIN users' = DOMAIN users
           /\ \A i \in DOMAIN users : users'[i].name = users[i].name
           /\ users'[k].hash = MD5Encrypt(p)
           /\ NamesUnique'
<1> PICK new : new = [users[k] EXCEPT !.hash = MD5Encrypt(p)]
  OBVIOUS
<1>1. users[k] \in Rows
  BY RowsTyped
<1>2. new \in Rows /\ new.name = users[k].name /\ new.hash = MD5Encrypt(p)
  BY <1>1 DEF Rows
<1>3. users' = [users EXCEPT ![k] = new]
  OBVIOUS
<1>4. /\ users \in Seq(Rows) /\ Len(users) \in Nat /\ DOMAIN users = 1..Len(users)
  BY RowsTyped
<1>5. /\ users' \in Seq(Rows) /\ Len(users') = Len(users)
      /\ \A i \in 1..Len(users) : users'[i] = IF i = k THEN new ELSE users[i]
  BY <1>2, <1>3, <1>4, ExceptSeq
<1>6. DOMAIN users' = DOMAIN users
  BY <1>3
<1>7. \A i \in DOMAIN users : users'[i].name = users[i].name
  BY <1>2, <1>4, <1>5
<1>8. NamesUnique'
  BY <1>6, <1>7 DEF NamesUnique
<1> QED
  BY <1>2, <1>4, <1>5, <1>6, <1>7, <1>8

\* What a step of handler h may do to the table.
TableStep(h) ==
    \/ UNCHANGED users
    \/ /\ at[h] = "insert" /\ Select(request[h].user) = {} /\ Len(users) < MaxUsers
       /\ users' = Append(users, [name |-> request[h].user,
                                  hash |-> MD5Encrypt(request[h].password)])
    \/ /\ at[h] = "rename" /\ Select(request[h].newName) = {}
       /\ users' = [users EXCEPT ![row[h]].name = request[h].newName]
    \/ /\ at[h] = "newPassword"
       /\ \E p \in Passwords : users' = [users EXCEPT ![row[h]].hash = MD5Encrypt(p)]

(* It does nothing else. *)
LEMMA StepOfTable ==
    ASSUME NEW h \in Handlers, Step(h)
    PROVE  TableStep(h)
<1>1. CASE Begin(h) \/ Leave(h) \/ RegisterCheck(h) \/ GetUserByUsername(h) \/ HandleLogin(h)
           \/ NewUsername(h) \/ HandleQueryStatus(h)
  BY <1>1 DEF TableStep, Begin, Leave, RegisterCheck, GetUserByUsername, HandleLogin, Kick,
      SetUsername, NewUsername, HandleQueryStatus
<1>2. CASE InsertUser(h)
  BY <1>2 DEF TableStep, InsertUser
<1>3. CASE UpdateUsername(h)
  BY <1>3 DEF TableStep, UpdateUsername, Rename
<1>4. CASE UpdatePassword(h)
  BY <1>4 DEF TableStep, UpdatePassword, ValidatePassword
<1> QED
  BY <1>1, <1>2, <1>3, <1>4 DEF Step, HandleRegister, HandleUpdateUser

(* The table keeps its type and its unique names, and loses no row. *)
LEMMA TableKept ==
    ASSUME TypeOK, NamesUnique, NEW h \in Handlers, InPlace(h), TableStep(h)
    PROVE  /\ users' \in Seq(Rows) /\ Len(users') \in 0..MaxUsers
           /\ Len(users) <= Len(users')
           /\ DOMAIN users \subseteq DOMAIN users'
           /\ NamesUnique'
<1>1. /\ users \in Seq(Rows) /\ Len(users) \in 0..MaxUsers /\ MaxUsers \in Nat
  BY RowsTyped, AccountsAssumption DEF TypeOK
<1>2. CASE UNCHANGED users
  BY <1>1, <1>2 DEF NamesUnique
<1>3. CASE /\ at[h] = "insert" /\ Select(request[h].user) = {} /\ Len(users) < MaxUsers
           /\ users' = Append(users, [name |-> request[h].user,
                                      hash |-> MD5Encrypt(request[h].password)])
  <2>1. request[h].user \in Names /\ request[h].password \in Passwords
    BY <1>3 DEF InPlace
  <2>2. /\ users' \in Seq(Rows) /\ Len(users') = Len(users) + 1 /\ NamesUnique'
        /\ DOMAIN users' = DOMAIN users \cup {Len(users) + 1}
    BY <1>3, <2>1, RowInserted
  <2> QED
    BY <1>1, <1>3, <2>2
<1>4. CASE /\ at[h] = "rename" /\ Select(request[h].newName) = {}
           /\ users' = [users EXCEPT ![row[h]].name = request[h].newName]
  <2>1. request[h].newName \in Names /\ row[h] \in DOMAIN users
    BY <1>4 DEF InPlace
  <2>2. /\ users' \in Seq(Rows) /\ Len(users') = Len(users) /\ NamesUnique'
        /\ DOMAIN users' = DOMAIN users
    BY <1>4, <2>1, RowRenamed
  <2> QED
    BY <1>1, <2>2
<1>5. CASE /\ at[h] = "newPassword"
           /\ \E p \in Passwords : users' = [users EXCEPT ![row[h]].hash = MD5Encrypt(p)]
  <2>1. row[h] \in DOMAIN users
    BY <1>5 DEF InPlace
  <2>2. /\ users' \in Seq(Rows) /\ Len(users') = Len(users) /\ NamesUnique'
        /\ DOMAIN users' = DOMAIN users
    BY <1>5, <2>1, RowRehashed
  <2> QED
    BY <1>1, <2>2
<1> QED
  BY <1>2, <1>3, <1>4, <1>5 DEF TableStep

-----------------------------------------------------------------------------
(* The handlers *)

\* A step of handler h as the others see it: it keeps the types and nobody else moves.
Moved(h) ==
    /\ at' \in [Handlers -> Places] /\ request' \in [Handlers -> Kept]
    /\ failed' \in [Handlers -> BOOLEAN] /\ row' \in [Handlers -> 0..Len(users')]
    /\ \A g \in Handlers : g # h =>
        at'[g] = at[g] /\ request'[g] = request[g] /\ row'[g] = row[g] /\ failed'[g] = failed[g]

(* What the handlers are between two steps. *)
LEMMA HandlersTyped ==
    ASSUME IInv, NEW h \in Handlers
    PROVE  /\ at \in [Handlers -> Places] /\ request \in [Handlers -> Kept]
           /\ failed \in [Handlers -> BOOLEAN] /\ row \in [Handlers -> 0..Len(users)]
           /\ row \in [Handlers -> Nat] /\ request[h] \in Kept /\ row[h] \in Nat
           /\ session \in [Handlers -> Names \cup {NoName}]
           /\ \A k \in DOMAIN users : k # 0 /\ k \in Nat
<1>1. Len(users) \in Nat /\ DOMAIN users = 1..Len(users)
  BY RowsTyped DEF IInv
<1>2. row \in [Handlers -> 0..Len(users)]
  BY DEF IInv, TypeOK
<1>3. row \in [Handlers -> Nat]
  BY <1>1, <1>2
<1> QED
  BY <1>1, <1>2, <1>3 DEF IInv, TypeOK

(* Nothing of a request is left when it has been answered. *)
LEMMA DoneLeaves ==
    ASSUME IInv, NEW h \in Handlers, TableStep(h), NEW from, Done(h, from)
    PROVE  /\ Moved(h) /\ InPlace(h)' /\ LogsInAsItself(h)'
           /\ at'[h] = "idle"
<1>1. /\ at \in [Handlers -> Places] /\ request \in [Handlers -> Kept]
      /\ failed \in [Handlers -> BOOLEAN] /\ row \in [Handlers -> 0..Len(users)]
  BY HandlersTyped
<1>2. at'[h] = "idle" /\ row'[h] = 0 /\ request'[h] = NoRequest /\ failed'[h] = FALSE
  BY <1>1 DEF Done
<1>3. NoRequest \in Kept
  BY DEF NoRequest, Kept
<1>4. 0..Len(users) \subseteq 0..Len(users') /\ Len(users') \in Nat
  <2>1. Len(users) <= Len(users') /\ Len(users') \in 0..MaxUsers
    BY TableKept DEF IInv
  <2>2. Len(users) \in Nat /\ MaxUsers \in Nat
    BY RowsTyped, AccountsAssumption DEF IInv
  <2> QED
    BY <2>1, <2>2
<1>5. Moved(h)
  BY <1>1, <1>3, <1>4 DEF Done, Moved, Places
<1>6. InPlace(h)' /\ LogsInAsItself(h)'
  BY <1>2 DEF InPlace, LogsInAsItself
<1> QED
  BY <1>2, <1>5, <1>6

(* A handler that goes on keeps the request, the row and whether a statement failed, or
   replaces them by others of their kind. *)
LEMMA GotoLeaves ==
    ASSUME IInv, NEW h \in Handlers, TableStep(h), NEW from, NEW to \in Places, Goto(h, from, to),
           NEW r \in Kept, request' = [request EXCEPT ![h] = r],
           NEW i \in 0..Len(users), row' = [row EXCEPT ![h] = i],
           UNCHANGED failed \/ failed' = [failed EXCEPT ![h] = TRUE]
    PROVE  /\ Moved(h)
           /\ at[h] = from /\ at'[h] = to /\ request'[h] = r /\ row'[h] = i
           /\ failed'[h] = failed[h] \/ failed'[h] = TRUE
<1>1. /\ at \in [Handlers -> Places] /\ request \in [Handlers -> Kept]
      /\ failed \in [Handlers -> BOOLEAN] /\ row \in [Handlers -> 0..Len(users)]
  BY HandlersTyped
<1>2. 0..Len(users) \subseteq 0..Len(users')
  <2>1. Len(users) <= Len(users') /\ Len(users') \in 0..MaxUsers
    BY TableKept DEF IInv
  <2>2. Len(users) \in Nat /\ MaxUsers \in Nat
    BY RowsTyped, AccountsAssumption DEF IInv
  <2> QED
    BY <2>1, <2>2
<1>3. Moved(h)
  BY <1>1, <1>2 DEF Goto, Moved
<1> QED
  BY <1>1, <1>3 DEF Goto

(* What the history of a request in progress holds after a step. *)
LEMMA Observed ==
    ASSUME Observe, NEW h \in Handlers, at'[h] # "idle", ~failed'[h]
    PROVE  /\ seen[h] \subseteq seen'[h]
           /\ Facts(users', request'[h], row'[h]) \cap Relevant[request'[h].type] \subseteq seen'[h]
BY DEF Observe

(* The facts that matter to each type of request. *)
LEMMA RelevantIs ==
    /\ Relevant["REGISTER"] = {"free", "taken", "right"}
    /\ Relevant["LOGIN"] = {"free", "right", "wrong"}
    /\ Relevant["UPDATE_USER"] =
            {"free", "right", "wrong", "newFree", "newTaken", "renamed", "rehashed"}
    /\ Relevant["QUERY_STATUS"] = {"free", "taken"}
BY DEF Relevant

\* What a step of handler h has to keep for itself.
OwnKept(h) ==
    /\ Moved(h) /\ InPlace(h)' /\ Saw(h)' /\ LogsInAsItself(h)'
    /\ AnswersWereTrue'

(* A handler that answers keeps it when the answer has its evidence. *)
LEMMA AnswerKeeps ==
    ASSUME IInv, NEW h \in Handlers, TableStep(h), NEW from, Done(h, from), unfounded' = {}
    PROVE  OwnKept(h)
<1>1. Moved(h) /\ InPlace(h)' /\ LogsInAsItself(h)' /\ at'[h] = "idle"
  BY DoneLeaves
<1>2. Saw(h)'
  BY <1>1 DEF Saw
<1> QED
  BY <1>1, <1>2 DEF OwnKept, AnswersWereTrue

(* An answer has its evidence when a statement failed, or else in the history or in the
   tables. *)
LEMMA EvidenceFound ==
    ASSUME NEW h \in Handlers, NEW from, NEW r, NEW c, Answer(h, from, r, c),
           ~failed[h] => Evidence(r, c) \subseteq seen[h] \cup Facts(users', r, row[h])
    PROVE  Done(h, from) /\ unfounded' = {}
BY DEF Answer

(* A statement that fails excuses the answer. *)
LEMMA FailureKeeps ==
    ASSUME IInv, NEW h \in Handlers, TableStep(h), NEW from, NEW c, AnswerFailed(h, from, c)
    PROVE  OwnKept(h)
BY AnswerKeeps DEF AnswerFailed

(* The fields of a request that arrives. *)
LEMMA RequestsArrive ==
    ASSUME IInv, NEW h \in Handlers, NEW r \in Requests(h)
    PROVE  /\ r \in [type : {"REGISTER", "LOGIN", "UPDATE_USER", "QUERY_STATUS"},
                     user : Names \cup {NoName}, password : Passwords \cup {NoName, Bad},
                     newName : {NoName}, newPassword : {NoName}]
           /\ session[h] # NoName => r.user = session[h]
           /\ r.password = Bad => r.type = "REGISTER"
           /\ r.type = "REGISTER" => r.password # NoName
<1>1. session[h] \in Names \cup {NoName}
  BY HandlersTyped
<1>2. \A n \in Names \cup {NoName} :
        /\ Resolve(h, n) \in Names \cup {NoName}
        /\ session[h] # NoName => Resolve(h, n) = session[h]
  BY <1>1 DEF Resolve
<1>3. ASSUME NEW t, NEW n, NEW p, r = RequestOf(t, n, p)
      PROVE  /\ r = [type |-> t, user |-> n, password |-> p, newName |-> NoName,
                     newPassword |-> NoName]
             /\ r.type = t /\ r.user = n /\ r.password = p
  BY <1>3 DEF RequestOf, NoRequest
<1>4. CASE \E t \in {"REGISTER", "LOGIN", "UPDATE_USER"}, n \in Names \cup {NoName}, p \in Passwords :
            r = RequestOf(t, Resolve(h, n), p)
  <2> PICK t \in {"REGISTER", "LOGIN", "UPDATE_USER"}, n \in Names \cup {NoName}, p \in Passwords :
            r = RequestOf(t, Resolve(h, n), p)
    BY <1>4
  <2>1. p # NoName /\ p # Bad
    BY WellFormed
  <2> QED
    BY <1>2, <1>3, <2>1
<1>5. CASE \E n \in Names \cup {NoName} : r = RequestOf("REGISTER", Resolve(h, n), Bad)
  <2> PICK n \in Names \cup {NoName} : r = RequestOf("REGISTER", Resolve(h, n), Bad)
    BY <1>5
  <2>1. NoName # Bad
    BY WellFormed
  <2> QED
    BY <1>2, <1>3, <2>1
<1>6. CASE \E n \in Names \cup {NoName} : r = RequestOf("QUERY_STATUS", Resolve(h, n), NoName)
  <2> PICK n \in Names \cup {NoName} : r = RequestOf("QUERY_STATUS", Resolve(h, n), NoName)
    BY <1>6
  <2>1. NoName # Bad
    BY WellFormed
  <2> QED
    BY <1>2, <1>3, <2>1
<1>7. \/ \E t \in {"REGISTER", "LOGIN", "UPDATE_USER"}, n \in Names \cup {NoName}, p \in Passwords :
            r = RequestOf(t, Resolve(h, n), p)
      \/ \E n \in Names \cup {NoName} : r = RequestOf("REGISTER", Resolve(h, n), Bad)
      \/ \E n \in Names \cup {NoName} : r = RequestOf("QUERY_STATUS", Resolve(h, n), NoName)
  BY DEF Requests
<1> QED
  BY <1>4, <1>5, <1>6, <1>7

(* A request that is served begins in its place. *)
LEMMA BeginKeeps ==
    ASSUME IInv, NEW h \in Handlers, Begin(h), Observe
    PROVE  OwnKept(h)
<1>1. TableStep(h)
  BY DEF TableStep, Begin
<1>2. PICK r \in Requests(h) :
        \/ Malformed(r) /\ Answer(h, "idle", r, 2001)
        \/ /\ ~Malformed(r) /\ Serve(h, r) /\ UNCHANGED failed
           /\ Goto(h, "idle", IF r.type = "REGISTER" THEN "exists" ELSE "find")
  BY DEF Begin
<1>3. CASE Malformed(r) /\ Answer(h, "idle", r, 2001)
  BY <1>1, <1>3, EvidenceIs, EvidenceFound, AnswerKeeps
<1>4. CASE /\ ~Malformed(r) /\ Serve(h, r) /\ UNCHANGED failed
           /\ Goto(h, "idle", IF r.type = "REGISTER" THEN "exists" ELSE "find")
  <2>1. /\ r \in [type : {"REGISTER", "LOGIN", "UPDATE_USER", "QUERY_STATUS"},
                  user : Names \cup {NoName}, password : Passwords \cup {NoName, Bad},
                  newName : {NoName}, newPassword : {NoName}]
        /\ session[h] # NoName => r.user = session[h]
        /\ r.password = Bad => r.type = "REGISTER"
    BY RequestsArrive
  <2>2. /\ r.type \in {"REGISTER", "LOGIN"} => r.user \in Names
        /\ r.type = "REGISTER" => r.password \in Passwords
    BY <1>4 DEF Malformed, ValidateUsername, ValidatePassword
  <2>3. r \in Kept
    BY <2>1, <2>2, WellFormed DEF Kept
  <2>4. at[h] = "idle" /\ row[h] = 0
    BY <1>4 DEF Goto, IInv, InPlace
  <2>5. row' = [row EXCEPT ![h] = 0] /\ 0 \in 0..Len(users)
    BY <1>4, <2>4, HandlersTyped DEF Serve
  <2>6. /\ Moved(h) /\ request'[h] = r /\ row'[h] = 0
        /\ at'[h] = IF r.type = "REGISTER" THEN "exists" ELSE "find"
    <3> PICK to : to = IF r.type = "REGISTER" THEN "exists" ELSE "find"
      OBVIOUS
    <3>1. to \in Places /\ Goto(h, "idle", to)
      BY <1>4 DEF Places
    <3>2. request' = [request EXCEPT ![h] = r] /\ UNCHANGED failed
      BY <1>4 DEF Serve
    <3>3. Moved(h) /\ request'[h] = r /\ row'[h] = 0 /\ at'[h] = to
      BY <1>1, <2>3, <2>5, <3>1, <3>2, GotoLeaves
    <3> QED
      BY <3>3
  <2>7. InPlace(h)'
    BY <2>1, <2>2, <2>6 DEF InPlace
  <2>8. Saw(h)'
    BY <2>6, Observed DEF Saw
  <2>9. LogsInAsItself(h)'
    BY <1>4, <2>1, <2>6 DEF LogsInAsItself, Begin, sessionVars
  <2> QED
    BY <1>4, <2>6, <2>7, <2>8, <2>9 DEF OwnKept, Goto, IInv, AnswersWereTrue
<1> QED
  BY <1>2, <1>3, <1>4

(* A registration that finds the name free remembers that it was. *)
LEMMA RegisterCheckKeeps ==
    ASSUME IInv, NEW h \in Handlers, RegisterCheck(h), Observe
    PROVE  OwnKept(h)
<1> DEFINE r == request[h]
<1>1. /\ TableStep(h) /\ UNCHANGED <<users, session>>
      /\ CheckUsernameExists(h, r, r.user, "exists", "insert")
  BY DEF TableStep, RegisterCheck, sessionVars
<1>2. at[h] = "exists"
  BY <1>1 DEF CheckUsernameExists, Answer, Done, Goto, GotoFailed
<1>3. r.type = "REGISTER" /\ r.user \in Names /\ r.password \in Passwords /\ row[h] = 0
  BY <1>2 DEF IInv, InPlace
<1>4. CASE Select(r.user) # {} /\ Answer(h, "exists", r, 2002)
  <2>1. "taken" \in Facts(users', r, row[h])
    BY <1>1, <1>4, FactsMean DEF Select
  <2>2. Evidence(r, 2002) = {"taken"}
    BY <1>3, EvidenceIs
  <2>3. Done(h, "exists") /\ unfounded' = {}
    BY <1>4, <2>1, <2>2, EvidenceFound
  <2> QED
    BY <1>1, <2>3, AnswerKeeps
<1>5. CASE /\ Goto(h, "exists", "insert") /\ Serve(h, r)
           /\ \/ Select(r.user) = {} /\ UNCHANGED failed
              \/ failed' = [failed EXCEPT ![h] = TRUE]
  <2>1. /\ "insert" \in Places /\ r \in Kept /\ row[h] \in 0..Len(users)
        /\ request' = [request EXCEPT ![h] = r] /\ row' = [row EXCEPT ![h] = row[h]]
    BY <1>5, HandlersTyped DEF Serve, Places
  <2>2. /\ Moved(h) /\ at'[h] = "insert" /\ request'[h] = r /\ row'[h] = 0
    BY <1>1, <1>3, <1>5, <2>1, GotoLeaves
  <2>3. InPlace(h)'
    BY <1>3, <2>2 DEF InPlace
  <2>4. Saw(h)'
    <3> SUFFICES ASSUME ~failed'[h] PROVE Saw(h)'
      BY DEF Saw
    <3>1. Select(r.user) = {}
      BY <1>5, HandlersTyped
    <3>2. "free" \in Facts(users', request'[h], row'[h])
      BY <1>1, <2>2, <3>1, FactsMean DEF Select
    <3>3. "free" \in seen'[h]
      BY <1>3, <2>2, <3>2, Observed, RelevantIs
    <3> QED
      BY <2>2, <3>3, Observed DEF Saw
  <2>5. LogsInAsItself(h)' /\ AnswersWereTrue'
    BY <1>5, <2>2 DEF LogsInAsItself, Goto, IInv, AnswersWereTrue
  <2> QED
    BY <2>2, <2>3, <2>4, <2>5 DEF OwnKept
<1> QED
  BY <1>1, <1>4, <1>5 DEF CheckUsernameExists, GotoFailed

(* A registration is confirmed when its row is there, and fails only when another was
   faster. *)
LEMMA InsertKeeps ==
    ASSUME IInv, NEW h \in Handlers, InsertUser(h), Observe
    PROVE  OwnKept(h)
<1> DEFINE r == request[h]
<1>1. TableStep(h) /\ at[h] = "insert"
  BY DEF TableStep, InsertUser
<1>2. r.type = "REGISTER" /\ r.user \in Names /\ r.password \in Passwords
  BY <1>1 DEF IInv, InPlace
<1>3. ~failed[h] => "free" \in seen[h]
  BY <1>1 DEF IInv, Saw
<1>4. CASE /\ Select(r.user) = {}
           /\ users' = Append(users, [name |-> r.user, hash |-> MD5Encrypt(r.password)])
           /\ Answer(h, "insert", r, 0)
  <2> DEFINE new == [name |-> r.user, hash |-> MD5Encrypt(r.password)]
  <2>1. /\ DOMAIN users' = DOMAIN users \cup {Len(users) + 1}
        /\ users'[Len(users) + 1] = new
    BY <1>2, <1>4, RowInserted DEF IInv
  <2>2. new.name = r.user /\ new.hash = MD5Encrypt(r.password)
    OBVIOUS
  <2> HIDE DEF new
  <2>3. Len(users) + 1 \in SelectFrom(users', r.user)
    BY <1>2, <2>1, <2>2, Selected
  <2>4. "right" \in Facts(users', r, row[h])
    BY <2>1, <2>2, <2>3, FactsMean
  <2>5. Evidence(r, 0) = {"free", "right"}
    BY <1>2, EvidenceIs
  <2>6. Done(h, "insert") /\ unfounded' = {}
    BY <1>3, <1>4, <2>4, <2>5, EvidenceFound
  <2> QED
    BY <1>1, <2>6, AnswerKeeps
<1>5. CASE Select(r.user) # {} /\ UNCHANGED users /\ Answer(h, "insert", r, 5001)
  <2>1. "taken" \in Facts(users', r, row[h])
    BY <1>5, FactsMean DEF Select
  <2>2. Evidence(r, 5001) = {"free", "taken"}
    BY <1>2, EvidenceIs
  <2>3. Done(h, "insert") /\ unfounded' = {}
    BY <1>3, <1>5, <2>1, <2>2, EvidenceFound
  <2> QED
    BY <1>1, <2>3, AnswerKeeps
<1>6. CASE AnswerFailed(h, "insert", 5001)
  BY <1>1, <1>6, FailureKeeps
<1> QED
  BY <1>4, <1>5, <1>6 DEF InsertUser

(* What is left of a request once the account is found. *)
LEMMA VerifiedIs ==
    ASSUME NEW r \in Kept
    PROVE  /\ Verified(r) \in Kept /\ Verified(r).type = r.type
           /\ r.type = "LOGIN" => Verified(r).user = r.user
BY DEF Verified, Kept

(* A handler that finds the account was right about the password, or says so; the history
   holds what was true when the query began. *)
LEMMA FindKeeps ==
    ASSUME IInv, NEW h \in Handlers, GetUserByUsername(h), Observe
    PROVE  OwnKept(h)
<1> DEFINE r == request[h]
<1>1. TableStep(h) /\ at[h] = "find" /\ UNCHANGED <<users, session>>
  BY DEF TableStep, GetUserByUsername, sessionVars
<1>2. /\ r.type \in {"LOGIN", "UPDATE_USER", "QUERY_STATUS"} /\ row[h] = 0
      /\ r.type = "LOGIN" => r.user \in Names
  BY <1>1 DEF IInv, InPlace
<1>3. /\ r \in Kept /\ session[h] \in Names \cup {NoName}
      /\ \A i \in Select(r.user) : i \in DOMAIN users /\ i # 0
  BY HandlersTyped, Selected DEF Select
<1>4. CASE Select(r.user) = {} /\ Answer(h, "find", r, 2003)
  <2>1. "free" \in Facts(users', r, row[h])
    BY <1>1, <1>2, <1>4, FactsMean DEF Select
  <2>2. Evidence(r, 2003) = {"free"}
    BY EvidenceIs
  <2>3. Done(h, "find") /\ unfounded' = {}
    BY <1>4, <2>1, <2>2, EvidenceFound
  <2> QED
    BY <1>1, <2>3, AnswerKeeps
<1>5. CASE AnswerFailed(h, "find", 2003)
  BY <1>1, <1>5, FailureKeeps
<1>6. ASSUME NEW i \in Select(r.user),
             /\ r.type = "QUERY_STATUS" \/ users[i].hash = MD5Encrypt(r.password)
             /\ Goto(h, "find", AfterFind[r.type]) /\ UNCHANGED failed
             /\ row' = [row EXCEPT ![h] = i]
             /\ request' = [request EXCEPT ![h] = Verified(r)]
      PROVE  OwnKept(h)
  <2>1. PICK to : /\ to = AfterFind[r.type] /\ to \in Places
                  /\ r.type = "LOGIN" => to = "kick"
                  /\ r.type = "UPDATE_USER" => to = "newName"
                  /\ r.type = "QUERY_STATUS" => to = "status"
    BY <1>2 DEF AfterFind, Places
  <2>2. PICK v \in Kept : v = Verified(r) /\ v.type = r.type /\ (r.type = "LOGIN" => v.user = r.user)
    BY <1>3, VerifiedIs
  <2>3. i \in 0..Len(users) /\ i \in DOMAIN users
    BY <1>3, RowsTyped DEF IInv
  <2>4. Goto(h, "find", to) /\ request' = [request EXCEPT ![h] = v] /\ UNCHANGED failed
    BY <1>6, <2>1, <2>2
  <2>5. Moved(h) /\ at'[h] = to /\ request'[h] = v /\ row'[h] = i /\ failed'[h] = failed[h]
    <3>1. Moved(h) /\ at'[h] = to /\ request'[h] = v /\ row'[h] = i
      <4>1. row' = [row EXCEPT ![h] = i] /\ to \in Places /\ TableStep(h)
        BY <1>1, <1>6, <2>1
      <4> QED
        BY <2>3, <2>4, <4>1, GotoLeaves
    <3> QED
      BY <2>4, <3>1
  <2>6. InPlace(h)'
    BY <1>1, <1>2, <2>1, <2>2, <2>3, <2>5 DEF InPlace
  <2>7. LogsInAsItself(h)'
    BY <1>1, <1>2, <2>1, <2>2, <2>5 DEF IInv, LogsInAsItself
  <2>8. ASSUME ~failed'[h]
        PROVE  /\ r.type # "QUERY_STATUS" => "right" \in seen'[h]
               /\ r.type = "QUERY_STATUS" => "taken" \in seen'[h]
    <3>1. Facts(users, r, row[h]) \cap Relevant[r.type] \subseteq seen[h]
      BY <1>1, <2>5, <2>8 DEF IInv, Saw
    <3>2. seen[h] \subseteq seen'[h]
      BY <1>2, <2>1, <2>5, <2>8, Observed
    <3>3. r.type # "QUERY_STATUS" => "right" \in Facts(users, r, row[h])
      BY <1>6, FactsMean DEF Select
    <3>4. "taken" \in Facts(users, r, row[h])
      BY <1>6, FactsMean DEF Select
    <3> QED
      BY <1>2, <3>1, <3>2, <3>3, <3>4, RelevantIs
  <2>9. Saw(h)'
    BY <1>2, <2>1, <2>5, <2>8, Observed DEF Saw
  <2>10. AnswersWereTrue'
    BY <2>4 DEF Goto, IInv, AnswersWereTrue
  <2> QED
    BY <2>5, <2>6, <2>7, <2>9, <2>10 DEF OwnKept
<1>7. ASSUME NEW i \in Select(r.user),
             /\ r.type # "QUERY_STATUS" /\ users[i].hash # MD5Encrypt(r.password)
             /\ Answer(h, "find", r, WrongPassword[r.type])
      PROVE  OwnKept(h)
  <2>1. "wrong" \in Facts(users', r, row[h])
    BY <1>1, <1>2, <1>7, FactsMean DEF Select
  <2>2. PICK c : c = WrongPassword[r.type] /\ Evidence(r, c) = {"wrong"}
    BY <1>2, <1>7, EvidenceIs DEF WrongPassword
  <2>3. Done(h, "find") /\ unfounded' = {}
    BY <1>7, <2>1, <2>2, EvidenceFound
  <2> QED
    BY <1>1, <2>3, AnswerKeeps
<1> QED
  BY <1>4, <1>5, <1>6, <1>7 DEF GetUserByUsername

(* A login stays the login of the same user, whoever takes names from sessions. *)
LEMMA KickKeeps ==
    ASSUME IInv, NEW h \in Handlers, Kick(h), Observe
    PROVE  OwnKept(h)
<1>1. TableStep(h) /\ Goto(h, "kick", "bind") /\ UNCHANGED <<users, request, row, failed>>
  BY DEF TableStep, Kick
<1>2. /\ at[h] = "kick" /\ at \in [Handlers -> Places] /\ request[h] \in Kept
      /\ row[h] \in 0..Len(users) /\ "bind" \in Places
      /\ request' = [request EXCEPT ![h] = request[h]] /\ row' = [row EXCEPT ![h] = row[h]]
      /\ UNCHANGED failed
  BY <1>1, HandlersTyped DEF Goto, Places
<1>3. /\ Moved(h) /\ at'[h] = "bind"
  <2>1. Goto(h, "kick", "bind") /\ TableStep(h)
    BY <1>1
  <2> QED
    BY <1>2, <2>1, GotoLeaves
<1>4. InPlace(h)'
  BY <1>1, <1>2, <1>3 DEF IInv, InPlace
<1>5. Saw(h)'
  BY <1>1, <1>2, <1>3, Observed DEF IInv, Saw
<1>6. session'[h] \in {session[h], NoName}
  BY HandlersTyped DEF Kick, SetSession, sessionVars
<1>7. LogsInAsItself(h)'
  BY <1>1, <1>2, <1>6 DEF IInv, LogsInAsItself
<1> QED
  BY <1>1, <1>3, <1>4, <1>5, <1>7 DEF OwnKept, Goto, IInv, AnswersWereTrue

(* A login is confirmed after the password was right, a status after the name was taken. *)
LEMMA LastStepKeeps ==
    ASSUME IInv, NEW h \in Handlers, SetUsername(h) \/ HandleQueryStatus(h)
    PROVE  OwnKept(h)
<1>1. TableStep(h)
  BY DEF TableStep, SetUsername, HandleQueryStatus
<1>2. CASE SetUsername(h)
  <2>1. /\ at[h] = "bind" /\ request[h].type = "LOGIN" /\ Answer(h, "bind", request[h], 0)
        /\ ~failed[h] => "right" \in seen[h]
    BY <1>2 DEF SetUsername, IInv, InPlace, Saw
  <2>2. Done(h, "bind") /\ unfounded' = {}
    BY <2>1, EvidenceIs, EvidenceFound
  <2> QED
    BY <1>1, <2>2, AnswerKeeps
<1>3. CASE HandleQueryStatus(h)
  <2>1. /\ at[h] = "status" /\ request[h].type = "QUERY_STATUS"
        /\ ~failed[h] => "taken" \in seen[h]
    BY <1>3 DEF HandleQueryStatus, IInv, InPlace, Saw
  <2>2. CASE Answer(h, "status", request[h], 0)
    <3>1. Done(h, "status") /\ unfounded' = {}
      BY <2>1, <2>2, EvidenceIs, EvidenceFound
    <3> QED
      BY <1>1, <3>1, AnswerKeeps
  <2>3. CASE AnswerFailed(h, "status", 5002)
    BY <1>1, <2>3, FailureKeeps
  <2> QED
    BY <1>3, <2>2, <2>3 DEF HandleQueryStatus
<1> QED
  BY <1>2, <1>3

(* A connection that ends leaves its handler idle. *)
LEMMA LeaveKeeps ==
    ASSUME IInv, NEW h \in Handlers, Leave(h)
    PROVE  OwnKept(h)
<1>1. at[h] = "idle" /\ UNCHANGED <<users, at, request, row, failed, unfounded>>
  BY DEF Leave
<1>2. Moved(h)
  BY <1>1, HandlersTyped DEF Moved
<1>3. InPlace(h)' /\ Saw(h)' /\ LogsInAsItself(h)'
  BY <1>1 DEF IInv, InPlace, Saw, LogsInAsItself
<1> QED
  BY <1>1, <1>2, <1>3 DEF OwnKept, IInv, AnswersWereTrue

(* A request with another field filled in. *)
LEMMA FilledIn ==
    ASSUME NEW r \in Kept, NEW n
    PROVE  /\ [r EXCEPT !.newName = n].type = r.type /\ [r EXCEPT !.newName = n].newName = n
           /\ n \in Names \cup {NoName} => [r EXCEPT !.newName = n] \in Kept
           /\ [r EXCEPT !.newPassword = n].type = r.type
           /\ [r EXCEPT !.newPassword = n].newName = r.newName
           /\ [r EXCEPT !.newPassword = n].newPassword = n
BY DEF Kept

(* A new name was free when it was looked for, or is refused because it was not. *)
LEMMA NewNameKeeps ==
    ASSUME IInv, NEW h \in Handlers, NewUsername(h), Observe
    PROVE  OwnKept(h)
<1>1. TableStep(h) /\ at[h] = "newName" /\ UNCHANGED <<users, session>>
  BY DEF TableStep, NewUsername, sessionVars
<1>2. /\ request[h] \in Kept /\ request[h].type = "UPDATE_USER"
      /\ row[h] \in 0..Len(users) /\ row[h] \in DOMAIN users
      /\ ~failed[h] => "right" \in seen[h]
  BY <1>1, HandlersTyped DEF IInv, InPlace, Saw
<1>3. PICK n, r :
        /\ n \in Names \cup {NoName, Bad} /\ r = [request[h] EXCEPT !.newName = n]
        /\ \/ n = NoName /\ Goto(h, "newName", "newPassword") /\ Serve(h, r) /\ UNCHANGED failed
           \/ n # NoName /\ ~ValidateUsername(n) /\ Answer(h, "newName", r, 2001)
           \/ ValidateUsername(n) /\ CheckUsernameExists(h, r, n, "newName", "rename")
  BY DEF NewUsername
<1>4. r.type = "UPDATE_USER" /\ r.newName = n /\ (n \in Names \cup {NoName} => r \in Kept)
  BY <1>2, <1>3, FilledIn
<1>5. ASSUME NEW to \in {"newPassword", "rename"}, Goto(h, "newName", to), Serve(h, r),
             UNCHANGED failed \/ failed' = [failed EXCEPT ![h] = TRUE],
             n \in Names \cup {NoName},
             to = "newPassword" => n = NoName,
             to = "rename" => n \in Names /\ (~failed'[h] => Select(n) = {})
      PROVE  OwnKept(h)
  <2>1. /\ to \in Places /\ r \in Kept /\ TableStep(h)
        /\ request' = [request EXCEPT ![h] = r] /\ row' = [row EXCEPT ![h] = row[h]]
    BY <1>1, <1>4, <1>5, HandlersTyped DEF Serve, Places
  <2>2. /\ Moved(h) /\ at'[h] = to /\ request'[h] = r /\ row'[h] = row[h]
        /\ failed'[h] = failed[h] \/ failed'[h] = TRUE
    BY <1>2, <1>5, <2>1, GotoLeaves
  <2>3. InPlace(h)'
    BY <1>1, <1>2, <1>4, <1>5, <2>2 DEF InPlace
  <2>4. Saw(h)'
    <3> SUFFICES ASSUME ~failed'[h] PROVE Saw(h)'
      BY DEF Saw
    <3>1. "right" \in seen'[h]
      BY <1>2, <1>5, <2>2, Observed
    <3>2. to = "rename" => "newFree" \in Facts(users', request'[h], row'[h])
      BY <1>1, <1>4, <1>5, <2>2, FactsMean DEF Select
    <3>3. to = "rename" => "newFree" \in seen'[h]
      BY <1>4, <1>5, <2>2, <3>2, Observed, RelevantIs
    <3> QED
      BY <1>4, <1>5, <2>2, <3>1, <3>3, Observed DEF Saw
  <2>5. LogsInAsItself(h)' /\ AnswersWereTrue'
    BY <1>4, <1>5, <2>2 DEF LogsInAsItself, Goto, IInv, AnswersWereTrue
  <2> QED
    BY <2>2, <2>3, <2>4, <2>5 DEF OwnKept
<1>6. CASE n = NoName /\ Goto(h, "newName", "newPassword") /\ Serve(h, r) /\ UNCHANGED failed
  BY <1>5, <1>6
<1>7. CASE Answer(h, "newName", r, 2001)
  BY <1>1, <1>7, EvidenceIs, EvidenceFound, AnswerKeeps
<1>8. CASE n \in Names /\ CheckUsernameExists(h, r, n, "newName", "rename")
  <2>1. CASE Select(n) # {} /\ Answer(h, "newName", r, 2002)
    <3>1. "newTaken" \in Facts(users', r, row[h])
      BY <1>1, <1>4, <2>1, FactsMean DEF Select
    <3>2. Evidence(r, 2002) = {"right", "newTaken"}
      BY <1>4, EvidenceIs
    <3>3. Done(h, "newName") /\ unfounded' = {}
      BY <1>2, <2>1, <3>1, <3>2, EvidenceFound
    <3> QED
      BY <1>1, <3>3, AnswerKeeps
  <2>2. CASE /\ Goto(h, "newName", "rename") /\ Serve(h, r)
             /\ \/ Select(n) = {} /\ UNCHANGED failed
                \/ failed' = [failed EXCEPT ![h] = TRUE]
    <3>1. ~failed'[h] => Select(n) = {}
      BY <2>2, HandlersTyped
    <3> QED
      BY <1>5, <1>8, <2>2, <3>1
  <2> QED
    BY <1>8, <2>1, <2>2 DEF CheckUsernameExists, GotoFailed
<1> QED
  BY <1>3, <1>6, <1>7, <1>8 DEF ValidateUsername

(* A renaming is seen in the table, or another was faster. *)
LEMMA RenameKeeps ==
    ASSUME IInv, NEW h \in Handlers, UpdateUsername(h), Observe
    PROVE  OwnKept(h)
<1>1. TableStep(h) /\ at[h] = "rename" /\ UNCHANGED session
  BY DEF TableStep, UpdateUsername, Rename
<1>2. /\ request[h] \in Kept /\ request[h].type = "UPDATE_USER" /\ request[h].newName \in Names
      /\ row[h] \in 0..Len(users) /\ row[h] \in DOMAIN users /\ row[h] # 0
      /\ ~failed[h] => {"right", "newFree"} \subseteq seen[h]
  BY <1>1, HandlersTyped DEF IInv, InPlace, Saw
<1>3. CASE Select(request[h].newName) = {} /\ Rename(h)
  <2>1. Goto(h, "rename", "newPassword") /\ UNCHANGED <<request, row, failed>>
    BY <1>3 DEF Rename
  <2>2. /\ "newPassword" \in Places /\ UNCHANGED failed
        /\ request' = [request EXCEPT ![h] = request[h]] /\ row' = [row EXCEPT ![h] = row[h]]
    BY <2>1, HandlersTyped DEF Places
  <2>3. Goto(h, "rename", "newPassword") /\ TableStep(h)
    BY <1>1, <2>1
  <2>4. Moved(h) /\ at'[h] = "newPassword"
    BY <1>2, <2>2, <2>3, GotoLeaves
  <2>5. users'[row[h]].name = request[h].newName /\ DOMAIN users' = DOMAIN users
    BY <1>2, <1>3, RowRenamed DEF IInv, Rename
  <2>6. InPlace(h)'
    BY <1>2, <2>1, <2>4, <2>5 DEF InPlace
  <2>7. Saw(h)'
    <3> SUFFICES ASSUME ~failed'[h] PROVE Saw(h)'
      BY DEF Saw
    <3>1. "renamed" \in Facts(users', request'[h], row'[h])
      BY <1>2, <2>1, <2>5, FactsMean
    <3>2. {"right", "newFree", "renamed"} \subseteq seen'[h]
      BY <1>2, <2>1, <2>4, <3>1, Observed, RelevantIs
    <3> QED
      BY <2>4, <3>2, Observed DEF Saw
  <2>8. LogsInAsItself(h)' /\ AnswersWereTrue'
    BY <2>1, <2>4 DEF LogsInAsItself, Goto, IInv, AnswersWereTrue
  <2> QED
    BY <2>4, <2>6, <2>7, <2>8 DEF OwnKept
<1>4. CASE /\ Select(request[h].newName) # {} /\ UNCHANGED users
           /\ Answer(h, "rename", request[h], 5001)
  <2>1. "newTaken" \in Facts(users', request[h], row[h])
    BY <1>4, FactsMean DEF Select
  <2>2. Evidence(request[h], 5001) = {"right", "newFree", "newTaken"}
    BY <1>2, EvidenceIs
  <2>3. Done(h, "rename") /\ unfounded' = {}
    BY <1>2, <1>4, <2>1, <2>2, EvidenceFound
  <2> QED
    BY <1>1, <2>3, AnswerKeeps
<1>5. CASE AnswerFailed(h, "rename", 5001)
  BY <1>1, <1>5, FailureKeeps
<1> QED
  BY <1>3, <1>4, <1>5 DEF UpdateUsername

(* A change of account is confirmed when all that was asked for is in the table. *)
LEMMA PasswordKeeps ==
    ASSUME IInv, NEW h \in Handlers, UpdatePassword(h)
    PROVE  OwnKept(h)
<1>1. TableStep(h) /\ at[h] = "newPassword"
  BY DEF TableStep, UpdatePassword, ValidatePassword
<1>2. /\ request[h] \in Kept /\ request[h].type = "UPDATE_USER"
      /\ row[h] \in DOMAIN users /\ row[h] # 0
      /\ ~failed[h] => "right" \in seen[h]
      /\ ~failed[h] /\ request[h].newName # NoName => {"newFree", "renamed"} \subseteq seen[h]
  BY <1>1, HandlersTyped DEF IInv, InPlace, Saw
<1> DEFINE R(p) == [request[h] EXCEPT !.newPassword = p]
           Ends(p, r) ==
            \/ /\ p = NoName /\ UNCHANGED users
               /\ Answer(h, "newPassword", r, IF r.newName = NoName THEN 1001 ELSE 0)
            \/ /\ p # NoName /\ ~ValidatePassword(p) /\ UNCHANGED users
               /\ Answer(h, "newPassword", r, 2001)
            \/ /\ ValidatePassword(p)
               /\ users' = [users EXCEPT ![row[h]].hash = MD5Encrypt(p)]
               /\ Answer(h, "newPassword", r, 0)
            \/ /\ ValidatePassword(p)
               /\ AnswerFailed(h, "newPassword", 5001) /\ UNCHANGED users
<1>3. PICK p \in Passwords \cup {NoName, Bad} : Ends(p, R(p))
  BY DEF UpdatePassword
<1> PICK r : r = R(p)
  OBVIOUS
<1> HIDE DEF R, Ends
<1>r. Ends(p, r)
  BY <1>3
<1>4. r.type = "UPDATE_USER" /\ r.newName = request[h].newName /\ r.newPassword = p
  BY <1>2, FilledIn DEF R
<1>5. Evidence(r, 0) =
        {"right"} \cup {f \in {"newFree", "renamed"} : r.newName # NoName}
                  \cup {f \in {"rehashed"} : p # NoName}
  BY <1>4, EvidenceIs
<1>6. CASE p = NoName /\ Answer(h, "newPassword", r, IF r.newName = NoName THEN 1001 ELSE 0)
  <2>1. CASE r.newName = NoName
    BY <1>1, <1>6, <2>1, EvidenceIs, EvidenceFound, AnswerKeeps
  <2>2. CASE r.newName # NoName
    <3>1. ~failed[h] => Evidence(r, 0) \subseteq seen[h]
      BY <1>2, <1>4, <1>5, <1>6, <2>2
    <3>2. Done(h, "newPassword") /\ unfounded' = {}
      BY <1>6, <2>2, <3>1, EvidenceFound
    <3> QED
      BY <1>1, <3>2, AnswerKeeps
  <2> QED
    BY <2>1, <2>2
<1>7. CASE Answer(h, "newPassword", r, 2001)
  BY <1>1, <1>7, EvidenceIs, EvidenceFound, AnswerKeeps
<1>8. CASE /\ p \in Passwords
           /\ users' = [users EXCEPT ![row[h]].hash = MD5Encrypt(p)]
           /\ Answer(h, "newPassword", r, 0)
  <2>1. users'[row[h]].hash = MD5Encrypt(p)
    BY <1>2, <1>8, RowRehashed DEF IInv
  <2>2. "rehashed" \in Facts(users', r, row[h])
    BY <1>2, <1>4, <2>1, FactsMean
  <2>3. ~failed[h] => Evidence(r, 0) \subseteq seen[h] \cup Facts(users', r, row[h])
    BY <1>2, <1>4, <1>5, <2>2
  <2>4. Done(h, "newPassword") /\ unfounded' = {}
    BY <1>8, <2>3, EvidenceFound
  <2> QED
    BY <1>1, <2>4, AnswerKeeps
<1>9. CASE AnswerFailed(h, "newPassword", 5001)
  BY <1>1, <1>9, FailureKeeps
<1> QED
  BY <1>r, <1>6, <1>7, <1>8, <1>9 DEF Ends, ValidatePassword

(* So does every step. *)
LEMMA StepKeepsOwn ==
    ASSUME IInv, NEW h \in Handlers, Step(h), Observe
    PROVE  OwnKept(h)
<1>1. CASE Begin(h) \/ Leave(h)
  BY <1>1, BeginKeeps, LeaveKeeps
<1>2. CASE HandleRegister(h) \/ GetUserByUsername(h)
  BY <1>2, RegisterCheckKeeps, InsertKeeps, FindKeeps DEF HandleRegister
<1>3. CASE HandleLogin(h) \/ HandleQueryStatus(h)
  BY <1>3, KickKeeps, LastStepKeeps DEF HandleLogin
<1>4. CASE HandleUpdateUser(h)
  BY <1>4, NewNameKeeps, RenameKeeps, PasswordKeeps DEF HandleUpdateUser
<1> QED
  BY <1>1, <1>2, <1>3, <1>4 DEF Step

-----------------------------------------------------------------------------
(* The sessions *)

\* What a step of handler h may do to the sessions while the table stays as it is: one of
\* them loses its name, or handler h's own gets the name of the account it has found.
SessionStep(h) ==
    \/ UNCHANGED sessionVars
    \/ \E g \in Handlers : SetSession(g, NoName, 0)
    \/ at[h] = "bind" /\ SetSession(h, request[h].user, row[h])

(* A step changes the sessions or the table, not both; only a renaming tells the sessions
   of the account. *)
LEMMA StepOfSessions ==
    ASSUME NEW h \in Handlers, Step(h)
    PROVE  \/ UNCHANGED users /\ SessionStep(h)
           \/ UNCHANGED sessionVars /\ (at[h] = "rename" => UNCHANGED users)
           \/ UNCHANGED <<session, account>> /\ at[h] = "rename" /\ Rename(h)
                /\ Select(request[h].newName) = {}
<1>1. CASE Begin(h) \/ RegisterCheck(h) \/ InsertUser(h) \/ GetUserByUsername(h)
           \/ NewUsername(h) \/ UpdatePassword(h) \/ HandleQueryStatus(h)
  BY <1>1 DEF Begin, RegisterCheck, InsertUser, GetUserByUsername, NewUsername, UpdatePassword,
      HandleQueryStatus
<1>2. CASE Leave(h) \/ Kick(h) \/ SetUsername(h)
  BY <1>2 DEF Leave, Kick, SetUsername, SessionStep
<1>3. CASE UpdateUsername(h)
  BY <1>3 DEF UpdateUsername, sessionVars
<1> QED
  BY <1>1, <1>2, <1>3 DEF Step, HandleRegister, HandleLogin, HandleUpdateUser

(* The sessions keep their types. *)
LEMMA SessionsTyped ==
    ASSUME IInv, NEW h \in Handlers, Step(h)
    PROVE  /\ session' \in [Handlers -> Names \cup {NoName}]
           /\ account' \in [Handlers -> 0..Len(users')]
           /\ stale' \in [Handlers -> BOOLEAN]
<1>1. /\ session \in [Handlers -> Names \cup {NoName}] /\ account \in [Handlers -> 0..Len(users)]
      /\ stale \in [Handlers -> BOOLEAN] /\ row[h] \in 0..Len(users)
      /\ Len(users) \in Nat
  BY HandlersTyped, RowsTyped DEF IInv, TypeOK
<1>2. 0..Len(users) \subseteq 0..Len(users') /\ 0 \in 0..Len(users)
  <2>1. Len(users) <= Len(users') /\ Len(users') \in 0..MaxUsers
    BY StepOfTable, TableKept DEF IInv
  <2>2. MaxUsers \in Nat
    BY AccountsAssumption
  <2> QED
    BY <1>1, <2>1, <2>2
<1>3. CASE SessionStep(h)
  <2>1. CASE \E g \in Handlers : SetSession(g, NoName, 0)
    BY <1>1, <1>2, <2>1 DEF SetSession
  <2>2. CASE at[h] = "bind" /\ SetSession(h, request[h].user, row[h])
    <3>1. request[h].user \in Names
      BY <2>2 DEF IInv, InPlace
    <3> QED
      BY <1>1, <1>2, <2>2, <3>1 DEF SetSession
  <2> QED
    BY <1>1, <1>2, <1>3, <2>1, <2>2 DEF SessionStep, sessionVars
<1>4. CASE UNCHANGED sessionVars
  BY <1>1, <1>2, <1>4 DEF sessionVars
<1>5. CASE UNCHANGED <<session, account>> /\ Rename(h)
  BY <1>1, <1>2, <1>5 DEF Rename
<1> QED
  BY <1>3, <1>4, <1>5, StepOfSessions

(* A session that has a name keeps it or loses it; only the handler's own gets one. *)
LEMMA NamesStay ==
    ASSUME IInv, NEW h \in Handlers, Step(h), NEW g \in Handlers
    PROVE  /\ session[g] # NoName => session'[g] \in {session[g], NoName}
           /\ g # h => session'[g] \in {session[g], NoName}
<1>1. session \in [Handlers -> Names \cup {NoName}]
  BY HandlersTyped
<1>2. CASE SessionStep(h)
  <2>1. CASE at[h] = "bind" /\ SetSession(h, request[h].user, row[h])
    <3>1. session[h] \in {NoName, request[h].user}
      BY <2>1 DEF IInv, InPlace, LogsInAsItself
    <3> QED
      BY <1>1, <2>1, <3>1 DEF SetSession
  <2> QED
    BY <1>1, <1>2, <2>1 DEF SessionStep, SetSession, sessionVars
<1> QED
  BY <1>2, StepOfSessions DEF sessionVars

(* The other handlers find their places, their histories and their logins as they were. *)
LEMMA OthersKept ==
    ASSUME IInv, NEW h \in Handlers, Step(h), Observe, Moved(h), NEW g \in Handlers, g # h
    PROVE  InPlace(g)' /\ Saw(g)' /\ LogsInAsItself(g)'
<1>1. /\ at'[g] = at[g] /\ request'[g] = request[g] /\ row'[g] = row[g]
      /\ failed'[g] = failed[g]
  BY DEF Moved
<1>2. DOMAIN users \subseteq DOMAIN users'
  BY StepOfTable, TableKept DEF IInv
<1>3. InPlace(g)'
  BY <1>1, <1>2 DEF IInv, InPlace
<1>4. Saw(g)'
  <2> SUFFICES ASSUME ~failed'[g] PROVE Saw(g)'
    BY DEF Saw
  <2>1. CASE at[g] = "idle"
    BY <1>1, <2>1 DEF Saw
  <2>2. CASE at[g] # "idle"
    <3>1. /\ seen[g] \subseteq seen'[g]
          /\ Facts(users', request'[g], row'[g]) \cap Relevant[request'[g].type] \subseteq seen'[g]
      BY <1>1, <2>2, Observed
    <3> QED
      BY <1>1, <3>1 DEF IInv, Saw
  <2> QED
    BY <2>1, <2>2
<1>5. LogsInAsItself(g)'
  BY <1>1, NamesStay DEF IInv, LogsInAsItself
<1> QED
  BY <1>3, <1>4, <1>5

-----------------------------------------------------------------------------
(* Whom a session acts for *)

(* A login finds one row, since the table has unique names. *)
LEMMA SessionStepActs ==
    ASSUME IInv, NEW h \in Handlers, SessionStep(h), UNCHANGED users
    PROVE  SessionActsForItsAccount'
<1> SUFFICES ASSUME NEW k \in Handlers, session'[k] # NoName, ~stale'[k]
             PROVE  SelectFrom(users', session'[k]) = {account'[k]}
  BY DEF SessionActsForItsAccount, Select
<1>1. /\ session \in [Handlers -> Names \cup {NoName}] /\ account \in [Handlers -> 0..Len(users)]
      /\ stale \in [Handlers -> BOOLEAN]
  BY HandlersTyped DEF IInv, TypeOK
<1>2. CASE session'[k] = session[k] /\ account'[k] = account[k] /\ stale'[k] = stale[k]
  BY <1>2 DEF IInv, SessionActsForItsAccount, Select
<1>3. CASE UNCHANGED sessionVars
  BY <1>2, <1>3 DEF sessionVars
<1>4. ASSUME NEW g \in Handlers, NEW n, NEW i, SetSession(g, n, i),
             n # NoName => n \in Names /\ i \in DOMAIN users
      PROVE  SelectFrom(users', session'[k]) = {account'[k]}
  <2>1. CASE k # g
    BY <1>1, <1>2, <1>4, <2>1 DEF SetSession
  <2>2. CASE k = g
    <3>1. session'[k] = n /\ account'[k] = i /\ stale'[k] = (i # 0 /\ i \notin Select(n))
      BY <1>1, <1>4, <2>2 DEF SetSession
    <3>2. n \in Names /\ i \in DOMAIN users /\ i # 0
      BY <1>4, <3>1, HandlersTyped
    <3>3. i \in Select(n)
      BY <3>1, <3>2
    <3>4. \A j \in Select(n) : j = i
      BY <3>2, <3>3, Selected DEF Select, IInv, NamesUnique
    <3> QED
      BY <3>1, <3>3, <3>4 DEF Select
  <2> QED
    BY <2>1, <2>2
<1>5. CASE \E g \in Handlers : SetSession(g, NoName, 0)
  BY <1>4, <1>5
<1>6. CASE at[h] = "bind" /\ SetSession(h, request[h].user, row[h])
  <2>1. request[h].user \in Names /\ row[h] \in DOMAIN users
    BY <1>6 DEF IInv, InPlace
  <2> QED
    BY <1>4, <1>6, <2>1
<1> QED
  BY <1>3, <1>5, <1>6 DEF SessionStep

(* A new row, a new password and the new name of another account leave the row that a
   session's name selects as it is, and the only one. *)
LEMMA RowStaysSelected ==
    ASSUME IInv, NEW h \in Handlers, TableStep(h), NEW n, NEW a, Select(n) = {a},
           at[h] = "rename" => UNCHANGED users \/ a # row[h]
    PROVE  SelectFrom(users', n) = {a}
<1>1. n \in Names /\ a \in DOMAIN users /\ Key[users[a].name] = Key[n]
  BY Selected DEF Select
<1>2. \A i \in DOMAIN users : Key[users[i].name] = Key[n] => i = a
  BY <1>1, Selected DEF Select
<1>3. CASE UNCHANGED users
  BY <1>3 DEF Select
<1>4. CASE /\ at[h] = "insert" /\ Select(request[h].user) = {} /\ Len(users) < MaxUsers
           /\ users' = Append(users, [name |-> request[h].user,
                                      hash |-> MD5Encrypt(request[h].password)])
  <2>1. request[h].user \in Names /\ request[h].password \in Passwords
    BY <1>4 DEF IInv, InPlace
  <2> PICK new : new = [name |-> request[h].user, hash |-> MD5Encrypt(request[h].password)]
    OBVIOUS
  <2>2. /\ DOMAIN users' = DOMAIN users \cup {Len(users) + 1}
        /\ \A i \in DOMAIN users : users'[i] = users[i]
        /\ users'[Len(users) + 1] = new
    BY <1>4, <2>1, RowInserted DEF IInv
  <2>3. new.name = request[h].user
    OBVIOUS
  <2>4. Key[request[h].user] # Key[n]
    <3>1. a \notin SelectFrom(users, request[h].user)
      BY <1>4 DEF Select
    <3> QED
      BY <1>1, <2>1, <3>1, Selected
  <2>5. \A i : i \in SelectFrom(users', n) <=> i = a
    BY <1>1, <1>2, <2>2, <2>3, <2>4, Selected
  <2> QED
    BY <2>5
<1>5. CASE /\ at[h] = "rename" /\ Select(request[h].newName) = {} /\ a # row[h]
           /\ users' = [users EXCEPT ![row[h]].name = request[h].newName]
  <2>1. request[h].newName \in Names /\ row[h] \in DOMAIN users
    BY <1>5 DEF IInv, InPlace
  <2>2. /\ DOMAIN users' = DOMAIN users /\ users'[row[h]].name = request[h].newName
        /\ \A i \in DOMAIN users : i # row[h] => users'[i] = users[i]
    BY <1>5, <2>1, RowRenamed DEF IInv
  <2>3. Key[request[h].newName] # Key[n]
    <3>1. a \notin SelectFrom(users, request[h].newName)
      BY <1>5 DEF Select
    <3> QED
      BY <1>1, <2>1, <3>1, Selected
  <2>4. a # row[h]
    BY <1>5
  <2>5. ASSUME NEW i PROVE i \in SelectFrom(users', n) <=> i = a
    <3>1. CASE i = row[h]
      BY <2>2, <2>3, <2>4, <3>1, Selected
    <3>2. CASE i # row[h]
      BY <1>1, <1>2, <2>2, <2>4, <3>2, Selected
    <3> QED
      BY <3>1, <3>2
  <2> QED
    BY <2>5
<1>6. CASE /\ at[h] = "newPassword"
           /\ \E p \in Passwords : users' = [users EXCEPT ![row[h]].hash = MD5Encrypt(p)]
  <2>1. row[h] \in DOMAIN users
    BY <1>6 DEF IInv, InPlace
  <2>2. DOMAIN users' = DOMAIN users /\ \A i \in DOMAIN users : users'[i].name = users[i].name
    BY <1>6, <2>1, RowRehashed DEF IInv
  <2>3. \A i : i \in SelectFrom(users', n) <=> i = a
    BY <1>1, <1>2, <2>2, Selected
  <2> QED
    BY <2>3
<1> QED
  BY <1>3, <1>4, <1>5, <1>6 DEF TableStep

(* No step leads a session to another account. *)
LEMMA StepActs ==
    ASSUME IInv, NEW h \in Handlers, Step(h)
    PROVE  SessionActsForItsAccount'
<1>1. TableStep(h)
  BY StepOfTable
<1>2. /\ session \in [Handlers -> Names \cup {NoName}] /\ stale \in [Handlers -> BOOLEAN]
  BY HandlersTyped DEF IInv, TypeOK
<1>3. CASE UNCHANGED users /\ SessionStep(h)
  BY <1>3, SessionStepActs
<1>4. ASSUME UNCHANGED <<session, account>>,
             \A k \in Handlers : ~stale'[k] =>
                ~stale[k] /\ (at[h] = "rename" => UNCHANGED users \/ account[k] # row[h])
      PROVE  SessionActsForItsAccount'
  <2> SUFFICES ASSUME NEW k \in Handlers, session[k] # NoName, ~stale'[k]
               PROVE  SelectFrom(users', session[k]) = {account[k]}
    BY <1>4 DEF SessionActsForItsAccount, Select
  <2>1. Select(session[k]) = {account[k]}
    BY <1>4 DEF IInv, SessionActsForItsAccount
  <2> QED
    BY <1>1, <1>4, <2>1, RowStaysSelected
<1>5. CASE UNCHANGED sessionVars /\ (at[h] = "rename" => UNCHANGED users)
  BY <1>4, <1>5 DEF sessionVars
<1>6. CASE UNCHANGED <<session, account>> /\ Rename(h)
  BY <1>2, <1>4, <1>6 DEF Rename
<1> QED
  BY <1>3, <1>5, <1>6, StepOfSessions

-----------------------------------------------------------------------------
(* The theorems *)

(* The invariant holds before the first account. *)
LEMMA InitIInv == Init => IInv
<1> SUFFICES ASSUME Init PROVE IInv
  OBVIOUS
<1>1. users = << >> /\ users \in Seq(Rows) /\ Len(users) = 0 /\ DOMAIN users = {}
  BY EmptySeq DEF Init
<1>2. Len(users) \in 0..MaxUsers /\ 0 \in 0..Len(users)
  BY <1>1, AccountsAssumption
<1>3. TypeOK
  BY <1>1, <1>2 DEF Init, TypeOK, Rows, Places
<1>4. NamesUnique /\ SessionActsForItsAccount /\ AnswersWereTrue
  BY <1>1 DEF Init, NamesUnique, SessionActsForItsAccount, AnswersWereTrue
<1>5. request \in [Handlers -> Kept]
  BY DEF Init, NoRequest, Kept
<1>6. \A h \in Handlers : InPlace(h) /\ Saw(h) /\ LogsInAsItself(h)
  BY DEF Init, InPlace, Saw, LogsInAsItself
<1> QED
  BY <1>3, <1>4, <1>5, <1>6 DEF IInv

(* Every step keeps it: the moving handler for itself, the table for the others. *)
LEMMA NextIInv == IInv /\ [Next]_vars => IInv'
<1> SUFFICES ASSUME IInv, [Next]_vars PROVE IInv'
  OBVIOUS
<1>1. CASE UNCHANGED vars
  <2>1. TypeOK' /\ NamesUnique' /\ SessionActsForItsAccount' /\ AnswersWereTrue'
    BY <1>1 DEF IInv, vars, sessionVars, TypeOK, NamesUnique, SessionActsForItsAccount, Select,
        AnswersWereTrue
  <2>2. \A h \in Handlers : InPlace(h)' /\ Saw(h)' /\ LogsInAsItself(h)'
    BY <1>1 DEF IInv, vars, sessionVars, InPlace, Saw, LogsInAsItself
  <2> QED
    BY <1>1, <2>1, <2>2 DEF IInv, vars
<1>2. ASSUME NEW h \in Handlers, Step(h), Observe
      PROVE  IInv'
  <2>1. OwnKept(h) /\ Moved(h)
    BY <1>2, StepKeepsOwn DEF OwnKept
  <2>2. /\ users' \in Seq(Rows) /\ Len(users') \in 0..MaxUsers /\ NamesUnique'
    BY <1>2, StepOfTable, TableKept DEF IInv
  <2>3. TypeOK'
    BY <1>2, <2>1, <2>2, SessionsTyped DEF TypeOK, Moved, Rows
  <2>4. SessionActsForItsAccount'
    BY <1>2, StepActs
  <2>5. \A g \in Handlers : InPlace(g)' /\ Saw(g)' /\ LogsInAsItself(g)'
    BY <1>2, <2>1, OthersKept DEF OwnKept
  <2> QED
    BY <2>1, <2>2, <2>3, <2>4, <2>5 DEF IInv, OwnKept, Moved
<1> QED
  BY <1>1, <1>2 DEF Next

(* What the places of the handlers say of their requests and histories always holds. *)
THEOREM Invariance == Spec => []IInv
  BY InitIInv, NextIInv, PTL DEF Spec

(* Every variable has its type, and the table never holds a password
   (user_manager.cpp:66-68, 179-181). *)
THEOREM TypeCorrect == Spec => []TypeOK
<1>1. IInv => TypeOK
  BY DEF IInv
<1> QED
  BY <1>1, Invariance, PTL

(* Whatever other handlers do between the statements of a request, its answer was true at
   some moment while it was served, unless a statement failed (user_manager.cpp:58-71,
   91-105 and 150-212). *)
THEOREM TrueAnswers == Spec => []AnswersWereTrue
<1>1. IInv => AnswersWereTrue
  BY DEF IInv
<1> QED
  BY <1>1, Invariance, PTL

(* The name of a logged-in connection selects the account it logged in to, until that
   account is renamed (server.cpp:550-568, user_manager.cpp:129-134, init.sql:13). *)
THEOREM OneAccount == Spec => []SessionActsForItsAccount
<1>1. IInv => SessionActsForItsAccount
  BY DEF IInv
<1> QED
  BY <1>1, Invariance, PTL

(* A connection that is logged in never becomes another user's (server.cpp:559-568). *)
THEOREM FixedIdentity == Spec => IdentityIsFixed
<1> DEFINE Fixed == \A h \in Handlers : session[h] # NoName => session'[h] \in {session[h], NoName}
<1>1. IInv /\ [Next]_vars => [Fixed]_vars
  BY NamesStay DEF Next
<1> QED
  BY <1>1, Invariance, PTL DEF Spec, IdentityIsFixed

=============================================================================
