------------------------------ MODULE Workspaces ------------------------------
(***************************************************************************)
(* The workspace routes of src/api/v1/workspaces.py, with the role         *)
(* dependency of src/api/deps.py and the tables they write.                *)
(*                                                                         *)
(* A request is a coroutine with a database session of its own.  It can be *)
(* interleaved with the others at every statement it awaits, so each       *)
(* handler is cut there: the dependency's SELECT, the handler's SELECTs,   *)
(* the flush with its commit, and the SELECT that reloads the row for the  *)
(* answer.  PostgreSQL runs at READ COMMITTED: a statement sees what was   *)
(* committed when it started, and the flush and the commit that follows it *)
(* take effect together.                                                   *)
(***************************************************************************)
EXTENDS Rbac

CONSTANTS Users,        \* the rows of the users table
          UserIds,      \* the user ids a request may name
          WorkspaceIds, \* the workspace ids a request may name
          Names,        \* contents of a workspace row
          LabelName,    \* label names, as they are written
          LowerCase,    \* LowerCase[n]: the name n without its case
          Requests,     \* the requests in progress at one time
          Ops,          \* the routes that receive requests
          MaxRows,      \* bound: no insert starts after this many rows
          Null          \* SQL NULL, None, or no row

lower(n) == LowerCase[n]

Routes == {"create_workspace", "update_workspace", "delete_workspace",
           "add_member", "update_role", "remove_member",
           "create_project", "create_label"}

ASSUME ConstantsOK ==
    /\ Users \subseteq UserIds
    /\ Ops \subseteq Routes
    /\ MaxRows \in Nat
    /\ Null \notin UserIds \cup WorkspaceIds \cup Names
    /\ Null \notin Routes \cup ResourceRole
    /\ DOMAIN LowerCase = LabelName

VARIABLES owner_id,  \* owner_id[w]: that column of workspace w, Null if no row
          name,      \* name[w]: the other columns of workspace w
          born,      \* the workspace ids uuid4 has already produced
          members,   \* the rows of workspace_members
          projects,  \* the rows of projects
          labels,    \* the rows of labels
          nextId,    \* the next fresh member or project id
          req        \* req[r]: the coroutine serving request r

tables == <<owner_id, name, born, members, projects, labels, nextId>>
vars == <<tables, req>>

Live(w) == owner_id[w] # Null

MemberRow == [id : Nat, workspace : WorkspaceIds, user : Users,
              role : ResourceRole]
ProjectRow == [id : Nat, workspace : WorkspaceIds]
LabelRow == [workspace : WorkspaceIds, name : LabelName]

\* What a route takes besides the path: the targeted user, and the payload.
MemberOps == {"add_member", "update_role", "remove_member"}
Target(op) == IF op \in MemberOps THEN UserIds ELSE {Null}
Payload(op) ==
    CASE op = "update_workspace" -> Names
      [] op \in {"add_member", "update_role"} -> ResourceRole
      [] op = "create_label" -> LabelName
      [] OTHER -> {Null}

\* me is the member row the role dependency loaded, row the one the handler
\* works on; status is the last answer given.
NoRequest == [pc |-> "idle", op |-> Null, me |-> Null, id |-> Null,
              target |-> Null, arg |-> Null, row |-> Null, status |-> 0]

Accepted(pc, op, me, id, target, arg) ==
    [pc |-> pc, op |-> op, me |-> me, id |-> id, target |-> target,
     arg |-> arg, row |-> Null, status |-> 0]

Init ==
    /\ owner_id = [w \in WorkspaceIds |-> Null]
    /\ name = [w \in WorkspaceIds |-> Null]
    /\ born = {}
    /\ members = {}
    /\ projects = {}
    /\ labels = {}
    /\ nextId = 0
    /\ req = [r \in Requests |-> NoRequest]

-------------------------------------------------------------------------------
(***************************************************************************)
(* Sessions and answers.                                                   *)
(***************************************************************************)
At(r, op, pc) == req[r].op = op /\ req[r].pc = pc

Answer(r, code) == req' = [req EXCEPT ![r] = [NoRequest EXCEPT !.status = code]]

\* The handler keeps row and goes on to its next await.
Continue(r, pc, row) == req' = [req EXCEPT ![r].pc = pc, ![r].row = row]

ReloadForgets(r, row) ==
    req' = [req EXCEPT ![r].pc = "reload", ![r].row = Null]

\* The transaction is committed and the handler reloads row for its answer.
Reload(r, row) == Continue(r, "reload", row)

\* A row that disappeared makes db.refresh raise and model_validate(None) fail.
AnswerReloaded(r, found, code) ==
    Answer(r, IF found THEN code ELSE 500)

get_member(w, u) == {m \in members : m.workspace = w /\ m.user = u}

\* The identity map: a row the session has loaded once keeps its attributes,
\* a later SELECT that returns the row does not refresh them.
Loaded(r, m) == IF m.id = req[r].me.id THEN req[r].me ELSE m

NothingCascades(rows, w) == rows

\* Deleting a workspace row deletes the rows that refer to it (the ORM cascade
\* and ON DELETE CASCADE together).
WithoutWorkspace(rows, w) == {x \in rows : x.workspace # w}

NoMemberKey(w, u) == TRUE

\* uq_workspace_user and uq_workspace_label_name: the key is still free.
MemberKeyFree(w, u) == get_member(w, u) = {}
LabelKeyFree(w, n) == [workspace |-> w, name |-> n] \notin labels

ChecksNoOwner(m) == FALSE

\* The role check a handler makes on the member row it was asked to change.
OwnerProtected(m) == m.role = "OWNER"

-------------------------------------------------------------------------------
(***************************************************************************)
(* require_workspace_role.  Its parameter is called workspace_id while the *)
(* routes call their path parameter id, so FastAPI takes it from the query *)
(* string: ws and id are two inputs, and a request without ws is answered  *)
(* 422.                                                                    *)
(***************************************************************************)
require_workspace_role(r, op, required_role, first) ==
    /\ op \in Ops
    /\ op \in {"add_member", "create_project"} => nextId < MaxRows
    /\ req[r].pc = "idle"
    /\ \/ Answer(r, 422)
       \/ /\ \E ws \in WorkspaceIds, u \in Users :
                \A m \in get_member(ws, u) :
                    ~has_role_permission(m.role, required_role)
          /\ Answer(r, 403)
       \/ \E ws \in WorkspaceIds, u \in Users :
             \E m \in get_member(ws, u), id \in WorkspaceIds,
                target \in Target(op), arg \in Payload(op) :
                /\ has_role_permission(m.role, required_role)
                /\ req' = [req EXCEPT ![r] =
                              Accepted(first, op, m, id, target, arg)]
    /\ UNCHANGED tables

\* workspace_repo.get_by_id, the first statement of two handlers.
LoadWorkspace(r, op) ==
    /\ At(r, op, "load")
    /\ IF Live(req[r].id) THEN Continue(r, "write", name[req[r].id])
                          ELSE Answer(r, 404)
    /\ UNCHANGED tables

-------------------------------------------------------------------------------
(***************************************************************************)
(* create_workspace: both rows are inserted in one transaction.            *)
(***************************************************************************)
InsertWorkspace(r) ==
    /\ "create_workspace" \in Ops
    /\ req[r].pc = "idle"
    /\ nextId < MaxRows
    /\ \E u \in Users, w \in WorkspaceIds \ born, n \in Names :
          /\ owner_id' = [owner_id EXCEPT ![w] = u]
          /\ name' = [name EXCEPT ![w] = n]
          /\ born' = born \cup {w}
          /\ members' = members \cup {[id |-> nextId, workspace |-> w,
                                       user |-> u, role |-> "OWNER"]}
          /\ nextId' = nextId + 1
          /\ req' = [req EXCEPT ![r] =
                Accepted("reload", "create_workspace", Null, w, Null, Null)]
    /\ UNCHANGED <<projects, labels>>

RefreshWorkspace(r, op, code) ==
    /\ At(r, op, "reload")
    /\ AnswerReloaded(r, Live(req[r].id), code)
    /\ UNCHANGED tables

create_workspace(r) ==
    InsertWorkspace(r) \/ RefreshWorkspace(r, "create_workspace", 201)

(***************************************************************************)
(* update_workspace: an UPDATE is issued only for columns that differ from *)
(* what was loaded; it raises when its row is gone, and so does the        *)
(* refresh that follows when there was nothing to update.                  *)
(***************************************************************************)
UpdateWorkspaceRow(r) ==
    /\ At(r, "update_workspace", "write")
    /\ LET w == req[r].id
           dirty == req[r].arg # req[r].row
       IN  IF dirty /\ Live(w)
           THEN /\ name' = [name EXCEPT ![w] = req[r].arg]
                /\ Reload(r, req[r].arg)
           ELSE /\ name' = name
                /\ IF dirty THEN Answer(r, 500)
                            ELSE Reload(r, req[r].row)
    /\ UNCHANGED <<owner_id, born, members, projects, labels, nextId>>

update_workspace(r) ==
    \/ require_workspace_role(r, "update_workspace", "ADMIN", "load")
    \/ LoadWorkspace(r, "update_workspace")
    \/ UpdateWorkspaceRow(r)
    \/ RefreshWorkspace(r, "update_workspace", 200)

(***************************************************************************)
(* delete_workspace: a DELETE that matches no row only logs a warning.     *)
(***************************************************************************)
DeleteWorkspaceRow(r) ==
    /\ At(r, "delete_workspace", "write")
    /\ LET w == req[r].id IN
          /\ owner_id' = [owner_id EXCEPT ![w] = Null]
          /\ name' = [name EXCEPT ![w] = Null]
          /\ members' = WithoutWorkspace(members, w)
          /\ projects' = WithoutWorkspace(projects, w)
          /\ labels' = WithoutWorkspace(labels, w)
          /\ Answer(r, 200)
    /\ UNCHANGED <<born, nextId>>

delete_workspace(r) ==
    \/ require_workspace_role(r, "delete_workspace", "OWNER", "load")
    \/ LoadWorkspace(r, "delete_workspace")
    \/ DeleteWorkspaceRow(r)

-------------------------------------------------------------------------------
(***************************************************************************)
(* add_workspace_member.                                                   *)
(***************************************************************************)
CheckNewMember(r) ==
    /\ At(r, "add_member", "load")
    /\ IF req[r].target \notin Users THEN Answer(r, 404)
       ELSE IF get_member(req[r].id, req[r].target) # {}
       THEN Answer(r, 409)
       ELSE Continue(r, "write", Null)
    /\ UNCHANGED tables

\* The foreign keys and the unique constraint are checked by the INSERT.
InsertMember(r) ==
    /\ At(r, "add_member", "write")
    /\ LET q == req[r]
           new == [id |-> nextId, workspace |-> q.id, user |-> q.target,
                   role |-> q.arg]
           accepted == /\ Live(q.id) /\ q.target \in Users
                       /\ MemberKeyFree(q.id, q.target)
       IN  IF accepted
           THEN /\ members' = members \cup {new}
                /\ nextId' = nextId + 1
                /\ Reload(r, new)
           ELSE /\ UNCHANGED <<members, nextId>>
                /\ Answer(r, 500)
    /\ UNCHANGED <<owner_id, name, born, projects, labels>>

ReloadMember(r, op, code) ==
    /\ At(r, op, "reload")
    /\ AnswerReloaded(r, \E m \in members : m.id = req[r].row.id, code)
    /\ UNCHANGED tables

add_workspace_member(r) ==
    \/ require_workspace_role(r, "add_member", "ADMIN", "load")
    \/ CheckNewMember(r)
    \/ InsertMember(r)
    \/ ReloadMember(r, "add_member", 201)

(***************************************************************************)
(* The load and the checks update_workspace_member_role and                *)
(* remove_workspace_member begin with.                                     *)
(***************************************************************************)
LoadMember(r, op) ==
    /\ At(r, op, "load")
    /\ \/ /\ get_member(req[r].id, req[r].target) = {}
          /\ Answer(r, 404)
       \/ \E m \in get_member(req[r].id, req[r].target) :
             IF OwnerProtected(Loaded(r, m))
             THEN Answer(r, 403)
             ELSE Continue(r, "write", Loaded(r, m))
    /\ UNCHANGED tables

(***************************************************************************)
(* update_workspace_member_role: the UPDATE names the row by its id and is *)
(* issued only if the role differs from the one that was loaded.           *)
(***************************************************************************)
UpdateMemberRow(r) ==
    /\ At(r, "update_role", "write")
    /\ LET q == req[r]
           hit == {m \in members : m.id = q.row.id}
           new == [q.row EXCEPT !.role = q.arg]
       IN  IF q.arg = q.row.role
           THEN members' = members /\ Reload(r, q.row)
           ELSE IF hit = {}
           THEN members' = members /\ Answer(r, 500)
           ELSE members' = (members \ hit) \cup {new} /\ Reload(r, new)
    /\ UNCHANGED <<owner_id, name, born, projects, labels, nextId>>

\* The answer needs the member's user.  The session holds only the caller's
\* row, and a lazy load cannot be awaited while the answer is being built.
update_workspace_member_role(r) ==
    \/ require_workspace_role(r, "update_role", "ADMIN", "load")
    \/ LoadMember(r, "update_role")
    \/ UpdateMemberRow(r)
    \/ /\ req[r].me # Null
       /\ ReloadMember(r, "update_role",
                       IF req[r].target = req[r].me.user THEN 200 ELSE 500)

(***************************************************************************)
(* remove_workspace_member.                                                *)
(***************************************************************************)
DeleteMemberRow(r) ==
    /\ At(r, "remove_member", "write")
    /\ LET hit == {m \in members : m.id = req[r].row.id} IN
          /\ members' = members \ hit
          /\ Answer(r, 200)
    /\ UNCHANGED <<owner_id, name, born, projects, labels, nextId>>

remove_workspace_member(r) ==
    \/ require_workspace_role(r, "remove_member", "ADMIN", "load")
    \/ LoadMember(r, "remove_member")
    \/ DeleteMemberRow(r)

-------------------------------------------------------------------------------
(***************************************************************************)
(* create_workspace_project: nothing but the foreign key looks whether the *)
(* workspace exists.                                                       *)
(***************************************************************************)
InsertProject(r) ==
    /\ At(r, "create_project", "write")
    /\ LET new == [id |-> nextId, workspace |-> req[r].id] IN
          IF Live(req[r].id)
          THEN /\ projects' = projects \cup {new}
               /\ nextId' = nextId + 1
               /\ Reload(r, new)
          ELSE /\ UNCHANGED <<projects, nextId>>
               /\ Answer(r, 500)
    /\ UNCHANGED <<owner_id, name, born, members, labels>>

RefreshProject(r) ==
    /\ At(r, "create_project", "reload")
    /\ AnswerReloaded(r, req[r].row \in projects, 201)
    /\ UNCHANGED tables

create_workspace_project(r) ==
    \/ require_workspace_role(r, "create_project", "EDITOR", "write")
    \/ InsertProject(r)
    \/ RefreshProject(r)

(***************************************************************************)
(* create_workspace_label: the handler compares names without their case,  *)
(* the unique constraint compares them as they are.                        *)
(***************************************************************************)
TakenAsWritten(w, n) == [workspace |-> w, name |-> n] \in labels

LabelNameTaken(w, n) ==
    \E l \in labels : l.workspace = w /\ lower(l.name) = lower(n)

CheckLabel(r) ==
    /\ At(r, "create_label", "load")
    /\ IF LabelNameTaken(req[r].id, req[r].arg)
       THEN Answer(r, 409)
       ELSE Continue(r, "write", Null)
    /\ UNCHANGED tables

InsertLabel(r) ==
    /\ At(r, "create_label", "write")
    /\ LET new == [workspace |-> req[r].id, name |-> req[r].arg] IN
          IF Live(req[r].id) /\ LabelKeyFree(req[r].id, req[r].arg)
          THEN labels' = labels \cup {new} /\ Reload(r, new)
          ELSE labels' = labels /\ Answer(r, 500)
    /\ UNCHANGED <<owner_id, name, born, members, projects, nextId>>

RefreshLabel(r) ==
    /\ At(r, "create_label", "reload")
    /\ AnswerReloaded(r, req[r].row \in labels, 201)
    /\ UNCHANGED tables

create_workspace_label(r) ==
    \/ require_workspace_role(r, "create_label", "EDITOR", "load")
    \/ CheckLabel(r)
    \/ InsertLabel(r)
    \/ RefreshLabel(r)

-------------------------------------------------------------------------------
Serve(r) ==
    \/ create_workspace(r)
    \/ update_workspace(r)
    \/ delete_workspace(r)
    \/ add_workspace_member(r)
    \/ update_workspace_member_role(r)
    \/ remove_workspace_member(r)
    \/ create_workspace_project(r)
    \/ create_workspace_label(r)

Next == \E r \in Requests : Serve(r)

Spec == Init /\ [][Next]_vars

-------------------------------------------------------------------------------
(***************************************************************************)
(* Properties.                                                             *)
(***************************************************************************)
Answers == {0, 200, 201, 403, 404, 409, 422, 500}

\* The row a handler holds once it is past its checks.
RowTypes(op, pc) ==
    CASE op = "update_workspace" /\ pc \in {"write", "reload"} -> Names
      [] op = "delete_workspace" /\ pc = "write" -> Names
      [] op = "update_role" /\ pc \in {"write", "reload"} -> MemberRow
      [] op = "remove_member" /\ pc = "write" -> MemberRow
      [] op = "add_member" /\ pc = "reload" -> MemberRow
      [] op = "create_project" /\ pc = "reload" -> ProjectRow
      [] op = "create_label" /\ pc = "reload" -> LabelRow
      [] OTHER -> {Null}

AnyRow == Names \cup MemberRow \cup ProjectRow \cup LabelRow \cup {Null}
AnyPayload == Names \cup ResourceRole \cup LabelName \cup {Null}

Request == [pc : {"idle", "load", "write", "reload"}, op : Ops \cup {Null},
            me : MemberRow \cup {Null}, id : WorkspaceIds \cup {Null},
            target : UserIds \cup {Null},
            arg : AnyPayload, row : AnyRow, status : Answers]

\* What a request in progress holds, by its route and its place in it.
InProgressOK(q) ==
    /\ q.op \in Ops
    /\ q.op # "create_workspace" => q.me \in MemberRow
    /\ q.id \in WorkspaceIds
    /\ q.target \in Target(q.op)
    /\ q.arg \in Payload(q.op)
    /\ q.row \in RowTypes(q.op, q.pc)

\* Every variable has its type, and a handler past its checks holds a row of
\* the table it works on.
TypeOK ==
    /\ owner_id \in [WorkspaceIds -> Users \cup {Null}]
    /\ name \in [WorkspaceIds -> Names \cup {Null}]
    /\ \A w \in WorkspaceIds : Live(w) => name[w] \in Names
    /\ born \subseteq WorkspaceIds
    /\ members \subseteq MemberRow
    /\ projects \subseteq ProjectRow
    /\ labels \subseteq LabelRow
    /\ nextId \in Nat
    /\ req \in [Requests -> Request]
    /\ \A r \in Requests : req[r].pc # "idle" => InProgressOK(req[r])

\* However the member routes and the deletion of a workspace interleave, the
\* user in workspaces.owner_id keeps a member row with the role OWNER: the
\* check in update_workspace_member_role and remove_workspace_member is made
\* on a row read earlier, and the row it protects must not have changed hands.
OwnerStaysOwner ==
    \A w \in WorkspaceIds :
        Live(w) => \E m \in members : /\ m.workspace = w
                                      /\ m.user = owner_id[w]
                                      /\ m.role = "OWNER"

\* A user has at most one role in a workspace, although add_workspace_member
\* looks for an existing row in one statement and inserts in another.
OneRolePerMember ==
    \A m, n \in members :
        m.workspace = n.workspace /\ m.user = n.user => m = n

\* No row refers to a workspace that was deleted, although create_project,
\* create_label and add_member insert long after their checks.
NoOrphanRows ==
    \A x \in members \cup projects \cup labels : Live(x.workspace)

\* What makes them inductive.  A row id is given once, so a member row that a
\* request read earlier is recognised by its id, and a row read with a role
\* other than OWNER is not the row of an owner, however late it is used.
RowIdsGivenOnce ==
    /\ \A m \in members : m.id < nextId
    /\ \A m, n \in members : m.id = n.id => m = n

Snapshot(s) ==
    /\ s.id < nextId
    /\ \A m \in members :
          m.id = s.id => /\ m.workspace = s.workspace
                         /\ m.user = s.user
                         /\ s.role # "OWNER" => m.user # owner_id[m.workspace]

HoldsSnapshots(q) ==
    /\ q.pc # "idle" /\ q.op # "create_workspace" => Snapshot(q.me)
    /\ q.pc = "write" /\ q.op \in {"update_role", "remove_member"}
       => Snapshot(q.row) /\ q.row.role # "OWNER"

SnapshotsHold == \A r \in Requests : HoldsSnapshots(req[r])

LiveWasBorn == \A w \in WorkspaceIds : Live(w) => w \in born

\* The inductive invariant behind OwnerStaysOwner.
OwnershipInv ==
    /\ LiveWasBorn
    /\ NoOrphanRows
    /\ RowIdsGivenOnce
    /\ OneRolePerMember
    /\ OwnerStaysOwner
    /\ SnapshotsHold

\* No two labels of a workspace differ only in case: what the comparison at
\* the head of create_workspace_label is for.
LabelNamesUnique ==
    \A l, k \in labels :
        l.workspace = k.workspace /\ lower(l.name) = lower(k.name) => l = k

\* No OWNER row is removed or loses its role while its workspace exists:
\* "Cannot modify workspace owner role", "Cannot remove workspace owner".
OwnerRoleKept ==
    [][\A m \in members :
          m.role = "OWNER" /\ owner_id'[m.workspace] # Null => m \in members']_vars

\* The answer given to request r by a step, if the step answers it.
AnsweredWith(r, codes) ==
    req[r].pc # "idle" /\ req'[r].pc = "idle" => req'[r].status \in codes

\* A role change that was committed, of a row that is still there, is answered
\* with that row.
RoleUpdateAnswered ==
    [][\A r \in Requests :
          /\ req[r].op = "update_role" /\ req[r].pc = "reload"
          /\ \E m \in members : m.id = req[r].row.id
          => AnsweredWith(r, {200})]_vars

\* The role of a caller is checked in the workspace his request changes: a
\* step that writes was let through by a member row of the path's workspace.
RoleCheckedInTarget ==
    [][\A r \in Requests :
          req'[r] # req[r] /\ tables' # tables /\ req[r].me # Null
          => req[r].me.workspace = req[r].id]_vars
===============================================================================
