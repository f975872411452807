----------------------------- MODULE AccountsProofs -----------------------------
(***************************************************************************)
(* Proofs about Accounts, for any number of users and requests.            *)
(***************************************************************************)
EXTENDS Accounts, TLAPS

-------------------------------------------------------------------------------
(***************************************************************************)
(* What a request holds at each of its places.                             *)
(***************************************************************************)
LEMMA HoldsInsert ==
    ASSUME TypeOK, NEW r \in Requests, req[r].pc = "insert"
    PROVE  req[r].arg \in UserCreate
BY DEF TypeOK, Request

LEMMA HoldsUpdate ==
    ASSUME TypeOK, NEW r \in Requests, req[r].pc = "update"
    PROVE  req[r].arg \in UserUpdate /\ req[r].row \in User
BY DEF TypeOK, Request

\* A step that replaces the record of r by one of the right type, and keeps the
\* users' ids, keeps TypeOK.
LEMMA OneRecord ==
    ASSUME TypeOK, NEW r \in Requests, NEW q \in Request,
           req' = [req EXCEPT ![r] = q],
           users' \subseteq User, nextId' \in Nat,
           \A u, v \in users' : u.id = v.id => u = v,
           \A u \in users' : u.id < nextId',
           \A u \in users : \E v \in users' : v.id = u.id,
           q.row # Null => \E u \in users' : u.id = q.row.id
    PROVE  TypeOK'
<1>1. req' \in [Requests -> Request]
  BY DEF TypeOK
<1>2. ASSUME NEW x \in Requests, req'[x].row # Null
      PROVE  \E u \in users' : u.id = req'[x].row.id
  <2>1. CASE x = r
    BY <1>2, <2>1 DEF TypeOK
  <2>2. CASE x # r
    <3>1. req'[x] = req[x]
      BY <2>2 DEF TypeOK
    <3>2. PICK u \in users : u.id = req[x].row.id
      BY <1>2, <3>1 DEF TypeOK
    <3> QED  BY <3>1, <3>2
  <2> QED  BY <2>1, <2>2
<1> QED  BY <1>1, <1>2 DEF TypeOK

\* The same when the table stays.
LEMMA SameUsers ==
    ASSUME TypeOK, NEW r \in Requests, NEW q \in Request,
           req' = [req EXCEPT ![r] = q], UNCHANGED tables,
           q.row # Null => \E u \in users : u.id = q.row.id
    PROVE  TypeOK'
<1>1. /\ users' = users /\ nextId' = nextId
      /\ users \subseteq User /\ nextId \in Nat
      /\ \A u, v \in users : u.id = v.id => u = v
      /\ \A u \in users : u.id < nextId
  BY DEF TypeOK, tables
<1> QED  BY <1>1, OneRecord

LEMMA AnswerTyped ==
    ASSUME TypeOK, NEW r \in Requests, NEW code \in Codes, Answer(r, code),
           UNCHANGED tables
    PROVE  TypeOK'
<1> DEFINE q == [NoRequest EXCEPT !.status = code]
<1>1. q \in Request /\ q.row = Null
  BY DEF NoRequest, Request
<1> HIDE DEF q
<1>2. req' = [req EXCEPT ![r] = q]
  BY DEF Answer, Begin, q
<1> QED  BY <1>1, <1>2, SameUsers

\* A validated body is a body.
LEMMA ValidatedCreate ==
    ASSUME NEW body \in UserCreate
    PROVE  /\ Validated(body) \in UserCreate
           /\ EmailStr[Validated(body).email] = Validated(body).email
<1>1. body.email \in Spellings /\ body.email # Null
  BY ConstantsOK DEF UserCreate
<1>2. Validated(body) = [body EXCEPT !.email = EmailStr[body.email]]
  BY <1>1 DEF Validated
<1> QED  BY <1>1, <1>2, ConstantsOK DEF UserCreate

LEMMA ValidatedUpdate ==
    ASSUME NEW body \in UserUpdate
    PROVE  /\ Validated(body) \in UserUpdate
           /\ Validated(body).email # Null =>
                 EmailStr[Validated(body).email] = Validated(body).email
<1>1. body.email \in Spellings \cup {Null}
  BY DEF UserUpdate
<1>2. CASE body.email = Null
  BY <1>2 DEF Validated, UserUpdate
<1>3. CASE body.email \in Spellings
  <2>1. body.email # Null
    BY <1>3, ConstantsOK
  <2>2. Validated(body) = [body EXCEPT !.email = EmailStr[body.email]]
    BY <2>1 DEF Validated
  <2> QED  BY <1>3, <2>2, ConstantsOK DEF UserUpdate
<1> QED  BY <1>1, <1>2, <1>3

-------------------------------------------------------------------------------
(***************************************************************************)
(* Typing.                                                                 *)
(***************************************************************************)
LEMMA RegisterTyped ==
    ASSUME TypeOK, NEW r \in Requests, register(r)
    PROVE  TypeOK'
<1>1. UNCHANGED tables
  BY DEF register
<1>2. ASSUME NEW body \in UserCreate,
             Begin(r, [NoRequest EXCEPT !.pc = "insert", !.arg = Validated(body)])
      PROVE  TypeOK'
  <2> DEFINE q == [NoRequest EXCEPT !.pc = "insert", !.arg = Validated(body)]
  <2>1. Validated(body) \in UserCreate
    BY ValidatedCreate
  <2>2. q \in Request /\ q.row = Null
    BY <2>1 DEF NoRequest, Request
  <2>3. req' = [req EXCEPT ![r] = q]
    BY <1>2 DEF Begin
  <2> HIDE DEF q
  <2> QED  BY <1>1, <2>2, <2>3, SameUsers
<1>3. 409 \in Codes
  BY DEF Codes
<1> QED  BY <1>1, <1>2, <1>3, AnswerTyped DEF register

LEMMA InsertTyped ==
    ASSUME TypeOK, NEW r \in Requests, InsertUser(r)
    PROVE  TypeOK'
<1> DEFINE new == [id |-> nextId, email |-> req[r].arg.email,
                   full_name |-> req[r].arg.full_name,
                   hashed_password |-> req[r].arg.hashed_password]
<1>1. req[r].arg \in UserCreate
  BY HoldsInsert DEF InsertUser
<1>2. new \in User /\ new.id = nextId
  BY <1>1 DEF User, UserCreate, TypeOK
<1>3. \/ /\ users' = users \cup {new} /\ nextId' = nextId + 1
         /\ Reload(r, "created", new)
      \/ UNCHANGED tables /\ Answer(r, 500)
  BY DEF InsertUser
<1> HIDE DEF new
<1>4. CASE /\ users' = users \cup {new} /\ nextId' = nextId + 1
           /\ Reload(r, "created", new)
  <2> DEFINE q == [NoRequest EXCEPT !.pc = "created", !.row = new]
  <2>1. q \in Request /\ q.row = new
    BY <1>2 DEF NoRequest, Request
  <2>2. req' = [req EXCEPT ![r] = q]
    BY <1>4 DEF Reload, Begin
  <2>3. /\ nextId \in Nat /\ users \subseteq User
        /\ \A u, v \in users : u.id = v.id => u = v
        /\ \A u \in users : u.id < nextId /\ u.id \in Nat
    BY DEF TypeOK, User
  <2>4. users' \subseteq User /\ nextId' \in Nat
    BY <1>2, <1>4, <2>3
  <2>5. \A u, v \in users' : u.id = v.id => u = v
    BY <1>2, <1>4, <2>3
  <2>6. \A u \in users' : u.id < nextId'
    BY <1>2, <1>4, <2>3
  <2>7. \A u \in users : \E v \in users' : v.id = u.id
    BY <1>4
  <2>8. \E u \in users' : u.id = q.row.id
    BY <1>4, <2>1
  <2> HIDE DEF q
  <2> QED  BY <2>1, <2>2, <2>4, <2>5, <2>6, <2>7, <2>8, OneRecord
<1>5. 500 \in Codes
  BY DEF Codes
<1> QED  BY <1>3, <1>4, <1>5, AnswerTyped

LEMMA RefreshTyped ==
    ASSUME TypeOK, NEW r \in Requests, RefreshUser(r)
    PROVE  TypeOK'
<1>1. UNCHANGED tables /\ \E code \in {200, 201} : Answer(r, code)
  BY DEF RefreshUser
<1>2. {200, 201} \subseteq Codes
  BY DEF Codes
<1> QED  BY <1>1, <1>2, AnswerTyped

LEMMA LoadTyped ==
    ASSUME TypeOK, NEW r \in Requests, LoadCurrentUser(r)
    PROVE  TypeOK'
<1>1. PICK u \in users, body \in UserUpdate :
         Begin(r, [NoRequest EXCEPT !.pc = "update", !.arg = Validated(body),
                                    !.row = u])
  BY DEF LoadCurrentUser
<1> DEFINE q == [NoRequest EXCEPT !.pc = "update", !.arg = Validated(body),
                                  !.row = u]
<1>2. Validated(body) \in UserUpdate /\ u \in User
  BY ValidatedUpdate DEF TypeOK
<1>3. q \in Request /\ q.row = u
  BY <1>2 DEF NoRequest, Request
<1>4. req' = [req EXCEPT ![r] = q] /\ UNCHANGED tables
  BY <1>1 DEF Begin, LoadCurrentUser
<1> HIDE DEF q
<1> QED  BY <1>3, <1>4, SameUsers

\* The row after the UPDATE, and the attributes the session holds.
WrittenRow(u, row, body) ==
    [f \in DOMAIN u |-> IF f \in Dirty(row, body) THEN Given(row, body)[f]
                                                  ELSE u[f]]

LEMMA GivenTyped ==
    ASSUME NEW row \in User, NEW body \in UserUpdate
    PROVE  Given(row, body) \in User /\ Given(row, body).id = row.id
<1> DEFINE new == Given(row, body)
<1>1. /\ DOMAIN row = {"id", "email", "full_name", "hashed_password"}
      /\ DOMAIN body = {"email", "full_name", "hashed_password"}
  BY DEF User, UserUpdate
<1>2. new = [f \in {"id", "email", "full_name", "hashed_password"} |->
                IF f \in {"email", "full_name", "hashed_password"}
                   /\ body[f] # Null THEN body[f] ELSE row[f]]
  BY <1>1 DEF Given
<1>3. new.id = row.id
  BY <1>2
<1>4. /\ new.email \in Spellings /\ new.full_name \in Names
      /\ new.hashed_password \in Passwords
  BY <1>2 DEF User, UserUpdate
<1>5. new = [id |-> new.id, email |-> new.email, full_name |-> new.full_name,
             hashed_password |-> new.hashed_password]
  BY <1>2
<1> HIDE DEF new
<1>6. new \in User
  BY <1>3, <1>4, <1>5 DEF User
<1> QED  BY <1>3, <1>6 DEF new

LEMMA WrittenTyped ==
    ASSUME NEW u \in User, NEW row \in User, NEW body \in UserUpdate
    PROVE  /\ WrittenRow(u, row, body) \in User
           /\ WrittenRow(u, row, body).id = u.id
           /\ WrittenRow(u, row, body).email =
                 IF "email" \in Dirty(row, body) THEN Given(row, body).email
                                                 ELSE u.email
<1> DEFINE g == Given(row, body)
           d == Dirty(row, body)
           w == WrittenRow(u, row, body)
<1>1. g \in User
  BY GivenTyped
<1>2. "id" \notin d
  BY DEF Dirty, UserUpdate
<1>3. DOMAIN u = {"id", "email", "full_name", "hashed_password"}
  BY DEF User
<1>4. w = [f \in {"id", "email", "full_name", "hashed_password"} |->
              IF f \in d THEN g[f] ELSE u[f]]
  BY <1>3 DEF WrittenRow
<1> HIDE DEF g, d, w
<1>5. w.id = u.id /\ w.email = IF "email" \in d THEN g.email ELSE u.email
  BY <1>2, <1>4
<1>6. /\ w.email \in Spellings /\ w.full_name \in Names
      /\ w.hashed_password \in Passwords
  BY <1>1, <1>4 DEF User
<1>7. w = [id |-> w.id, email |-> w.email, full_name |-> w.full_name,
           hashed_password |-> w.hashed_password]
  BY <1>4
<1>8. w \in User
  BY <1>5, <1>6, <1>7 DEF User
<1> QED  BY <1>5, <1>8 DEF g, d, w

\* The two outcomes of the UPDATE.
LEMMA Update ==
    ASSUME TypeOK, NEW r \in Requests, update_me(r)
    PROVE  LET body == req[r].arg
               row == req[r].row
           IN  /\ req[r].pc = "update" /\ nextId' = nextId
               /\ \/ users' = users /\ Answer(r, 500)
                  \/ /\ "email" \notin Dirty(row, body)
                           \/ EmailKeyFree(Given(row, body))
                     /\ users' = {IF u.id = row.id THEN WrittenRow(u, row, body)
                                                   ELSE u : u \in users}
                     /\ Reload(r, "updated", Given(row, body))
BY DEF update_me, WrittenRow

LEMMA UpdateTyped ==
    ASSUME TypeOK, NEW r \in Requests, update_me(r)
    PROVE  TypeOK'
<1> DEFINE body == req[r].arg
           row == req[r].row
           given == Given(row, body)
           After(u) == IF u.id = row.id THEN WrittenRow(u, row, body) ELSE u
<1>1. req[r].pc = "update" /\ nextId' = nextId
  BY Update
<1>2. body \in UserUpdate /\ row \in User
  BY <1>1, HoldsUpdate
<1>3. \/ users' = users /\ Answer(r, 500)
      \/ users' = {After(u) : u \in users} /\ Reload(r, "updated", given)
  BY Update
<1>4. CASE users' = users /\ Answer(r, 500)
  <2>1. 500 \in Codes
    BY DEF Codes
  <2> QED  BY <1>1, <1>4, <2>1, AnswerTyped DEF tables
<1>5. CASE users' = {After(u) : u \in users} /\ Reload(r, "updated", given)
  <2> DEFINE q == [NoRequest EXCEPT !.pc = "updated", !.row = given]
  <2>1. given \in User /\ given.id = row.id
    BY <1>2, GivenTyped
  <2>2. \A u \in users : After(u) \in User /\ After(u).id = u.id
    BY <1>2, WrittenTyped DEF TypeOK
  <2> HIDE DEF given, After
  <2>3. q \in Request /\ q.row = given
    BY <2>1 DEF NoRequest, Request
  <2>4. req' = [req EXCEPT ![r] = q]
    BY <1>5 DEF Reload, Begin
  <2>5. row # Null => \E u \in users : u.id = row.id
    BY DEF TypeOK
  <2>6. \E u \in users : u.id = row.id
    <3>1. req[r] \in Request /\ req[r].pc = "update"
      BY <1>1 DEF TypeOK
    <3> QED  BY <2>5, <1>2, RowsOK
  <2>7. users' \subseteq User /\ nextId' \in Nat
    BY <1>1, <1>5, <2>2 DEF TypeOK
  <2>8. \A u, v \in users' : u.id = v.id => u = v
    BY <1>5, <2>2 DEF TypeOK
  <2>9. \A u \in users' : u.id < nextId'
    BY <1>1, <1>5, <2>2 DEF TypeOK
  <2>10. \A u \in users : \E v \in users' : v.id = u.id
    BY <1>5, <2>2
  <2>11. \E u \in users' : u.id = q.row.id
    BY <2>1, <2>3, <2>6, <2>10
  <2> HIDE DEF q
  <2> QED  BY <2>3, <2>4, <2>7, <2>8, <2>9, <2>10, <2>11, OneRecord
<1> QED  BY <1>3, <1>4, <1>5

LEMMA InitTyped == Init => TypeOK
<1> SUFFICES ASSUME Init PROVE TypeOK
  OBVIOUS
<1>1. NoRequest \in Request /\ NoRequest.row = Null
  BY DEF NoRequest, Request, Codes
<1> QED  BY <1>1 DEF Init, TypeOK

LEMMA CrashTyped == ASSUME TypeOK, Crash PROVE TypeOK'
<1>1. NoRequest \in Request /\ NoRequest.row = Null
  BY DEF NoRequest, Request, Codes
<1> QED  BY <1>1 DEF Crash, TypeOK, tables

LEMMA NextTyped == TypeOK /\ [Next]_vars => TypeOK'
<1> SUFFICES ASSUME TypeOK, [Next]_vars PROVE TypeOK'
  OBVIOUS
<1>1. CASE UNCHANGED vars
  BY <1>1 DEF TypeOK, vars, tables
<1>2. CASE Next
  BY <1>2, RegisterTyped, InsertTyped, RefreshTyped, LoadTyped, UpdateTyped,
     CrashTyped DEF Next
<1> QED  BY <1>1, <1>2

\* Every variable keeps its type, ids are given once, and a session holds a row
\* that is in the table.
THEOREM TypeCorrect == Spec => []TypeOK
BY InitTyped, NextTyped, PTL DEF Spec

-------------------------------------------------------------------------------
(***************************************************************************)
(* One account per e-mail.  The unique key compares spellings; it keeps    *)
(* addresses apart because only validated spellings reach it.              *)
(***************************************************************************)
Normal(email) == EmailStr[email] = email

EmailsInv ==
    /\ \A u \in users : Normal(u.email)
    /\ \A u, v \in users : u.email = v.email => u = v
    /\ \A r \in Requests :
          /\ req[r].pc = "insert" => Normal(req[r].arg.email)
          /\ req[r].pc = "update" /\ req[r].arg.email # Null =>
                Normal(req[r].arg.email)

LEMMA EmailsInit == Init => EmailsInv
BY DEF Init, EmailsInv, NoRequest

\* A step that changes one request and no user.
LEMMA RequestKeepsEmails ==
    ASSUME TypeOK, EmailsInv, NEW r \in Requests, NEW q,
           req' = [req EXCEPT ![r] = q], users' = users,
           q.pc = "insert" => Normal(q.arg.email),
           q.pc = "update" /\ q.arg.email # Null => Normal(q.arg.email)
    PROVE  EmailsInv'
<1>1. \A x \in Requests : req'[x] = IF x = r THEN q ELSE req[x]
  BY DEF TypeOK
<1> QED  BY <1>1 DEF EmailsInv, Normal

LEMMA AnswerKeepsEmails ==
    ASSUME TypeOK, EmailsInv, NEW r \in Requests, NEW code, Answer(r, code),
           users' = users
    PROVE  EmailsInv'
<1> DEFINE q == [NoRequest EXCEPT !.status = code]
<1>1. q.pc = "idle" /\ req' = [req EXCEPT ![r] = q]
  BY DEF NoRequest, Answer, Begin
<1> HIDE DEF q
<1> QED  BY <1>1, RequestKeepsEmails

LEMMA ReloadKeepsRequests ==
    ASSUME TypeOK, EmailsInv, NEW r \in Requests, NEW pc \in {"created", "updated"},
           NEW row, Reload(r, pc, row)
    PROVE  \A x \in Requests :
              /\ req'[x].pc = "insert" => Normal(req'[x].arg.email)
              /\ req'[x].pc = "update" /\ req'[x].arg.email # Null =>
                    Normal(req'[x].arg.email)
<1>1. \A x \in Requests : x # r => req'[x] = req[x]
  BY DEF Reload, Begin, TypeOK
<1>2. req'[r].pc = pc
  BY DEF Reload, Begin, TypeOK, NoRequest
<1> QED  BY <1>1, <1>2 DEF EmailsInv

LEMMA RegisterKeepsEmails ==
    ASSUME TypeOK, EmailsInv, NEW r \in Requests, register(r)
    PROVE  EmailsInv'
<1>1. users' = users
  BY DEF register, tables
<1>2. CASE Answer(r, 409)
  BY <1>1, <1>2, AnswerKeepsEmails
<1>3. ASSUME NEW body \in UserCreate,
             Begin(r, [NoRequest EXCEPT !.pc = "insert", !.arg = Validated(body)])
      PROVE  EmailsInv'
  <2> DEFINE q == [NoRequest EXCEPT !.pc = "insert", !.arg = Validated(body)]
  <2>1. q.pc = "insert" /\ q.arg = Validated(body)
        /\ req' = [req EXCEPT ![r] = q]
    BY <1>3 DEF NoRequest, Begin
  <2>2. Normal(Validated(body).email)
    BY ValidatedCreate DEF Normal
  <2> HIDE DEF q
  <2> QED  BY <1>1, <2>1, <2>2, RequestKeepsEmails
<1> QED  BY <1>2, <1>3 DEF register

LEMMA LoadKeepsEmails ==
    ASSUME TypeOK, EmailsInv, NEW r \in Requests, LoadCurrentUser(r)
    PROVE  EmailsInv'
<1>1. PICK u \in users, body \in UserUpdate :
         Begin(r, [NoRequest EXCEPT !.pc = "update", !.arg = Validated(body),
                                    !.row = u])
  BY DEF LoadCurrentUser
<1> DEFINE q == [NoRequest EXCEPT !.pc = "update", !.arg = Validated(body),
                                  !.row = u]
<1>2. q.pc = "update" /\ q.arg = Validated(body) /\ req' = [req EXCEPT ![r] = q]
  BY <1>1 DEF NoRequest, Begin
<1>3. Validated(body).email # Null => Normal(Validated(body).email)
  BY ValidatedUpdate DEF Normal
<1>4. users' = users
  BY DEF LoadCurrentUser, tables
<1> HIDE DEF q
<1> QED  BY <1>2, <1>3, <1>4, RequestKeepsEmails

LEMMA InsertKeepsEmails ==
    ASSUME TypeOK, EmailsInv, NEW r \in Requests, InsertUser(r)
    PROVE  EmailsInv'
<1> DEFINE new == [id |-> nextId, email |-> req[r].arg.email,
                   full_name |-> req[r].arg.full_name,
                   hashed_password |-> req[r].arg.hashed_password]
<1>1. \/ /\ EmailKeyFree(new) /\ users' = users \cup {new}
         /\ Reload(r, "created", new)
      \/ users' = users /\ Answer(r, 500)
  BY DEF InsertUser, tables
<1>2. Normal(new.email) /\ new.id = nextId
  BY DEF InsertUser, EmailsInv
<1> HIDE DEF new
<1>3. CASE /\ EmailKeyFree(new) /\ users' = users \cup {new}
           /\ Reload(r, "created", new)
  <2>1. \A u \in users : u.email # new.email
    <3>1. \A u \in users : u.id < nextId /\ u.id \in Nat /\ nextId \in Nat
      BY DEF TypeOK, User
    <3>2. \A u \in users : u.email = new.email => u.id = new.id
      BY <1>3 DEF EmailKeyFree, get_by_email
    <3> QED  BY <1>2, <3>1, <3>2
  <2>2. \A u \in users' : Normal(u.email)
    BY <1>2, <1>3 DEF EmailsInv
  <2>3. \A u, v \in users' : u.email = v.email => u = v
    BY <1>3, <2>1 DEF EmailsInv
  <2>4. \A x \in Requests :
           /\ req'[x].pc = "insert" => Normal(req'[x].arg.email)
           /\ req'[x].pc = "update" /\ req'[x].arg.email # Null =>
                 Normal(req'[x].arg.email)
    BY <1>3, ReloadKeepsRequests
  <2> QED  BY <2>2, <2>3, <2>4 DEF EmailsInv, Normal
<1> QED  BY <1>1, <1>3, AnswerKeepsEmails

LEMMA UpdateKeepsEmails ==
    ASSUME TypeOK, EmailsInv, NEW r \in Requests, update_me(r)
    PROVE  EmailsInv'
<1> DEFINE body == req[r].arg
           row == req[r].row
           given == Given(row, body)
           dirty == Dirty(row, body)
           After(u) == IF u.id = row.id THEN WrittenRow(u, row, body) ELSE u
<1>1. req[r].pc = "update"
  BY Update
<1>2. body \in UserUpdate /\ row \in User
  BY <1>1, HoldsUpdate
<1>3. \/ users' = users /\ Answer(r, 500)
      \/ /\ "email" \notin dirty \/ EmailKeyFree(given)
         /\ users' = {After(u) : u \in users}
         /\ Reload(r, "updated", given)
  BY Update
<1>4. CASE /\ "email" \notin dirty \/ EmailKeyFree(given)
           /\ users' = {After(u) : u \in users}
           /\ Reload(r, "updated", given)
  <2>1. given \in User /\ given.id = row.id
    BY <1>2, GivenTyped
  <2>2. "email" \in dirty => Normal(given.email)
    <3>1. /\ DOMAIN row = {"id", "email", "full_name", "hashed_password"}
          /\ DOMAIN body = {"email", "full_name", "hashed_password"}
      BY <1>2 DEF User, UserUpdate
    <3>2. "email" \in dirty => body.email # Null /\ given.email = body.email
      BY <3>1 DEF Dirty, Given
    <3> QED  BY <1>1, <3>2 DEF EmailsInv
  <2>3. \A u \in users :
           /\ u.id # row.id => After(u) = u
           /\ u.id = row.id => After(u).email = IF "email" \in dirty
                                                THEN given.email ELSE u.email
    BY <1>2, WrittenTyped DEF TypeOK
  <2>4. "email" \in dirty =>
           \A u \in users : u.email = given.email => u.id = row.id
    BY <1>4, <2>1 DEF EmailKeyFree, get_by_email
  <2>5. \A u, v \in users : u.id = v.id => u = v
    BY DEF TypeOK
  <2> HIDE DEF given, dirty, After
  <2>6. \A u \in users' : Normal(u.email)
    BY <1>4, <2>2, <2>3 DEF EmailsInv
  <2>7. ASSUME NEW u \in users, NEW v \in users, After(u).email = After(v).email
        PROVE  u = v
    <3>1. CASE u.id = row.id /\ v.id = row.id
      BY <2>5, <3>1
    <3>2. CASE u.id # row.id /\ v.id # row.id
      BY <2>3, <2>7, <3>2 DEF EmailsInv
    <3>3. CASE u.id = row.id /\ v.id # row.id
      BY <2>3, <2>4, <2>7, <3>3 DEF EmailsInv
    <3>4. CASE u.id # row.id /\ v.id = row.id
      BY <2>3, <2>4, <2>7, <3>4 DEF EmailsInv
    <3> QED  BY <3>1, <3>2, <3>3, <3>4
  <2>8. \A u, v \in users' : u.email = v.email => u = v
    BY <1>4, <2>7
  <2>9. \A x \in Requests :
           /\ req'[x].pc = "insert" => Normal(req'[x].arg.email)
           /\ req'[x].pc = "update" /\ req'[x].arg.email # Null =>
                 Normal(req'[x].arg.email)
    BY <1>4, ReloadKeepsRequests
  <2> QED  BY <2>6, <2>8, <2>9 DEF EmailsInv, Normal
<1> QED  BY <1>3, <1>4, AnswerKeepsEmails

LEMMA EmailsNext == TypeOK /\ EmailsInv /\ [Next]_vars => EmailsInv'
<1> SUFFICES ASSUME TypeOK, EmailsInv, [Next]_vars PROVE EmailsInv'
  OBVIOUS
<1>1. CASE UNCHANGED vars
  BY <1>1 DEF EmailsInv, Normal, vars, tables
<1>2. ASSUME NEW r \in Requests, RefreshUser(r) PROVE EmailsInv'
  <2>1. users' = users /\ \E code : Answer(r, code)
    BY <1>2 DEF RefreshUser, tables
  <2> QED  BY <2>1, AnswerKeepsEmails
<1>3. CASE Crash
  BY <1>3 DEF Crash, EmailsInv, Normal, NoRequest, tables
<1>4. CASE Next
  BY <1>2, <1>3, <1>4, RegisterKeepsEmails, InsertKeepsEmails, LoadKeepsEmails,
     UpdateKeepsEmails DEF Next
<1> QED  BY <1>1, <1>4

\* However registrations and profile changes interleave, two users never have
\* e-mails that the validator takes for the same.
THEOREM OneAccount == Spec => []OneAccountPerEmail
<1>1. EmailsInv => OneAccountPerEmail
  BY DEF EmailsInv, OneAccountPerEmail, Normal
<1> QED  BY <1>1, InitTyped, NextTyped, EmailsInit, EmailsNext, PTL DEF Spec

-------------------------------------------------------------------------------
(***************************************************************************)
(* A column changes only to what a PATCH /me of its user names.            *)
(***************************************************************************)
ColumnsStep ==
    \A u \in users :
        \E v \in users' :
           /\ v.id = u.id
           /\ \A f \in DOMAIN u : v[f] # u[f] =>
                \E r \in Requests :
                   /\ req[r].pc = "update" /\ req[r].row.id = u.id
                   /\ f \in DOMAIN req[r].arg /\ req[r].arg[f] = v[f]

LEMMA UsersStay == users \subseteq users' => ColumnsStep
BY DEF ColumnsStep

LEMMA UpdateNames ==
    ASSUME TypeOK, NEW r \in Requests, update_me(r)
    PROVE  ColumnsStep
<1> DEFINE body == req[r].arg
           row == req[r].row
           given == Given(row, body)
           After(u) == IF u.id = row.id THEN WrittenRow(u, row, body) ELSE u
<1>1. req[r].pc = "update"
  BY Update
<1>2. body \in UserUpdate /\ row \in User
  BY <1>1, HoldsUpdate
<1>3. users' = users \/ users' = {After(u) : u \in users}
  BY Update
<1>4. CASE users' = {After(u) : u \in users}
  <2>1. ASSUME NEW u \in users
        PROVE  /\ After(u).id = u.id
               /\ \A f \in DOMAIN u : After(u)[f] # u[f] =>
                    /\ u.id = row.id
                    /\ f \in DOMAIN body /\ body[f] = After(u)[f]
    <3>1. u \in User
      BY DEF TypeOK
    <3>2. CASE u.id = row.id
      <4>1. WrittenRow(u, row, body).id = u.id
        BY <1>2, <3>1, WrittenTyped
      <4>2. ASSUME NEW f \in DOMAIN u, WrittenRow(u, row, body)[f] # u[f]
            PROVE  f \in DOMAIN body /\ body[f] = WrittenRow(u, row, body)[f]
        <5>1. DOMAIN row = DOMAIN u
          BY <1>2, <3>1 DEF User
        <5>2. f \in Dirty(row, body) /\ WrittenRow(u, row, body)[f] = given[f]
          BY <4>2 DEF WrittenRow
        <5>3. f \in DOMAIN body /\ body[f] # Null
          BY <5>2 DEF Dirty
        <5>4. given[f] = body[f]
          BY <5>1, <5>3 DEF Given
        <5> QED  BY <5>2, <5>3, <5>4
      <4> QED  BY <3>2, <4>1, <4>2
    <3>3. CASE u.id # row.id
      BY <3>3
    <3> QED  BY <3>2, <3>3
  <2> HIDE DEF After
  <2> QED  BY <1>1, <1>4, <2>1 DEF ColumnsStep
<1> QED  BY <1>3, <1>4, UsersStay

\* What other requests of a user have committed since his row was loaded stays,
\* and so does every other user.
THEOREM ColumnsNamed == Spec => OnlyNamedColumns
<1>1. TypeOK /\ [Next]_vars => [ColumnsStep]_vars
  <2> SUFFICES ASSUME TypeOK, Next PROVE ColumnsStep
    OBVIOUS
  <2>1. ASSUME ~\E r \in Requests : update_me(r) PROVE users \subseteq users'
    BY <2>1 DEF Next, register, InsertUser, RefreshUser, LoadCurrentUser, Crash,
                tables
  <2> QED  BY <2>1, UsersStay, UpdateNames
<1> QED  BY <1>1, TypeCorrect, PTL DEF Spec, OnlyNamedColumns, ColumnsStep
===============================================================================
