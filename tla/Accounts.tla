-------------------------------- MODULE Accounts --------------------------------
(***************************************************************************)
(* Registration and profiles: register_user of                             *)
(* src/services/auth_service.py and update_me of src/api/v1/users.py.      *)
(*                                                                         *)
(* A request is a coroutine with a session of its own, cut at the          *)
(* statements it awaits; a flush and its commit are one step.  No route    *)
(* deletes a user or clears is_active.                                     *)
(***************************************************************************)
EXTENDS Naturals

CONSTANTS Spellings,  \* the ways to write e-mail addresses
          EmailStr,   \* EmailStr[s]: the spelling the validator turns s into
          Names, Passwords,
          Requests,   \* the requests in progress at one time
          MaxUsers,   \* bound: no registration starts after this many users
          Null        \* None, an omitted field, or no row

ASSUME ConstantsOK ==
    /\ EmailStr \in [Spellings -> Spellings]
    /\ \A s \in Spellings : EmailStr[EmailStr[s]] = EmailStr[s]
    /\ MaxUsers \in Nat
    /\ Null \notin Spellings \cup Names \cup Passwords

VARIABLES users,   \* the rows of users
          nextId,  \* the next fresh user id
          req      \* req[r]: the coroutine serving request r

tables == <<users, nextId>>
vars == <<tables, req>>

User == [id : Nat, email : Spellings, full_name : Names,
         hashed_password : Passwords]
ASSUME RowsOK == Null \notin User
UserCreate == [email : Spellings, full_name : Names,
               hashed_password : Passwords]
UserUpdate == [email : Spellings \cup {Null}, full_name : Names \cup {Null},
               hashed_password : Passwords \cup {Null}]

\* row is the user the session holds; status the last answer.
NoRequest == [pc |-> "idle", arg |-> Null, row |-> Null, status |-> 0]

Init ==
    /\ users = {}
    /\ nextId = 0
    /\ req = [r \in Requests |-> NoRequest]

-------------------------------------------------------------------------------
Begin(r, request) == req' = [req EXCEPT ![r] = request]

Answer(r, code) == Begin(r, [NoRequest EXCEPT !.status = code])

Reload(r, pc, row) ==
    Begin(r, [NoRequest EXCEPT !.pc = pc, !.row = row])

get_by_email(email) == {u \in users : u.email = email}

KeepsSpelling(body) == body

\* The e-mail of a request body, once the schema has validated it.
Validated(body) ==
    [body EXCEPT !.email = IF @ = Null THEN Null ELSE EmailStr[@]]

NoEmailKey(row) == TRUE

\* users.email is unique: the key of row is still free.
EmailKeyFree(row) == \A u \in get_by_email(row.email) : u.id = row.id

-------------------------------------------------------------------------------
(***************************************************************************)
(* register_user looks the e-mail up, inserts, and reads the row back.     *)
(***************************************************************************)
register(r) ==
    /\ req[r].pc = "idle"
    /\ nextId < MaxUsers
    /\ \E body \in UserCreate :
          LET user_in == Validated(body) IN
          IF get_by_email(user_in.email) # {}
          THEN Answer(r, 409)
          ELSE Begin(r, [NoRequest EXCEPT !.pc = "insert", !.arg = user_in])
    /\ UNCHANGED tables

InsertUser(r) ==
    /\ req[r].pc = "insert"
    /\ LET user_in == req[r].arg
           new == [id |-> nextId, email |-> user_in.email,
                   full_name |-> user_in.full_name,
                   hashed_password |-> user_in.hashed_password]
       IN  IF EmailKeyFree(new)
           THEN /\ users' = users \cup {new}
                /\ nextId' = nextId + 1
                /\ Reload(r, "created", new)
           ELSE UNCHANGED tables /\ Answer(r, 500)

\* db.refresh after either commit; no user is ever deleted.
RefreshUser(r) ==
    /\ req[r].pc \in {"created", "updated"}
    /\ Answer(r, IF req[r].pc = "created" THEN 201 ELSE 200)
    /\ UNCHANGED tables

-------------------------------------------------------------------------------
(***************************************************************************)
(* get_current_user has selected the caller's row before update_me begins. *)
(***************************************************************************)
LoadCurrentUser(r) ==
    /\ req[r].pc = "idle"
    /\ \E u \in users, body \in UserUpdate :
          Begin(r, [NoRequest EXCEPT !.pc = "update", !.arg = Validated(body),
                                     !.row = u])
    /\ UNCHANGED tables

EveryColumn(row, body) == DOMAIN row

\* The columns the UPDATE names: those that are given another value than the one
\* loaded; a password is hashed with a new salt and always differs.
Dirty(row, body) ==
    {f \in DOMAIN body :
        body[f] # Null /\ (body[f] # row[f] \/ f = "hashed_password")}

SetsNone(row, body) ==
    [f \in DOMAIN row |-> IF f \in DOMAIN body THEN body[f] ELSE row[f]]

\* The attributes of the user after the assignments of update_me.
Given(row, body) ==
    [f \in DOMAIN row |->
        IF f \in DOMAIN body /\ body[f] # Null THEN body[f] ELSE row[f]]

update_me(r) ==
    /\ req[r].pc = "update"
    /\ LET body == req[r].arg
           row == req[r].row
           dirty == Dirty(row, body)
           given == Given(row, body)
           Written(u) == [f \in DOMAIN u |->
                             IF f \in dirty THEN given[f] ELSE u[f]]
           after == {IF u.id = row.id THEN Written(u) ELSE u : u \in users}
       IN  IF "email" \notin dirty \/ EmailKeyFree(given)
           THEN users' = after /\ Reload(r, "updated", given)
           ELSE users' = users /\ Answer(r, 500)
    /\ UNCHANGED nextId

Crash ==
    /\ \E r \in Requests : req[r].pc # "idle"
    /\ req' = [r \in Requests |-> NoRequest]
    /\ UNCHANGED tables

Next ==
    \/ \E r \in Requests :
          \/ register(r)
          \/ InsertUser(r)
          \/ RefreshUser(r)
          \/ LoadCurrentUser(r)
          \/ update_me(r)
    \/ Crash

Spec == Init /\ [][Next]_vars

-------------------------------------------------------------------------------
(***************************************************************************)
(* Properties.                                                             *)
(***************************************************************************)
Codes == {0, 200, 201, 409, 500}
Request ==
    [pc : {"idle"}, arg : {Null}, row : {Null}, status : Codes]
    \cup [pc : {"insert"}, arg : UserCreate, row : {Null}, status : {0}]
    \cup [pc : {"update"}, arg : UserUpdate, row : User, status : {0}]
    \cup [pc : {"created", "updated"}, arg : {Null}, row : User, status : {0}]

\* Every variable keeps its type; ids are given once, and a session holds a row
\* that is in the table under its id.
TypeOK ==
    /\ users \subseteq User
    /\ nextId \in Nat
    /\ req \in [Requests -> Request]
    /\ \A u, v \in users : u.id = v.id => u = v
    /\ \A u \in users : u.id < nextId
    /\ \A r \in Requests :
          req[r].row # Null => \E u \in users : u.id = req[r].row.id

\* Two users never have e-mails that the validator takes for the same, however
\* registrations and profile changes interleave ("Email already registered").
OneAccountPerEmail ==
    \A u, v \in users : EmailStr[u.email] = EmailStr[v.email] => u = v

\* A column of a user changes only in a PATCH /me of that user that names the
\* column and the value: what other requests of the same user have committed
\* meanwhile stays, and so does every other user.
OnlyNamedColumns ==
    [][\A u \in users :
          \E v \in users' :
             /\ v.id = u.id
             /\ \A f \in DOMAIN u : v[f] # u[f] =>
                  \E r \in Requests :
                     /\ req[r].pc = "update" /\ req[r].row.id = u.id
                     /\ f \in DOMAIN req[r].arg /\ req[r].arg[f] = v[f]]_vars
===============================================================================
