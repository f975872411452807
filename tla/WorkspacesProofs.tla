--------------------------- MODULE WorkspacesProofs ---------------------------
(***************************************************************************)
(* Proofs about Workspaces, for every number of users, workspaces and      *)
(* requests in progress.                                                   *)
(***************************************************************************)
EXTENDS Workspaces, TLAPS

-------------------------------------------------------------------------------
(***************************************************************************)
(* Typing.  A step changes the record of one request only, so TypeOK is    *)
(* kept when the new record is well-formed and the tables are.             *)
(***************************************************************************)
RecordOK(q) == q \in Request /\ (q.pc # "idle" => InProgressOK(q))

TablesOK ==
    /\ owner_id \in [WorkspaceIds -> Users \cup {Null}]
    /\ name \in [WorkspaceIds -> Names \cup {Null}]
    /\ \A w \in WorkspaceIds : Live(w) => name[w] \in Names
    /\ born \subseteq WorkspaceIds
    /\ members \subseteq MemberRow
    /\ projects \subseteq ProjectRow
    /\ labels \subseteq LabelRow
    /\ nextId \in Nat

LEMMA TypeOKSplit ==
    TypeOK <=> /\ TablesOK
               /\ req \in [Requests -> Request]
               /\ \A r \in Requests : RecordOK(req[r])
BY DEF TypeOK, TablesOK, RecordOK

\* Replacing the record of r by a well-formed one.
LEMMA OneRecord ==
    ASSUME TypeOK, TablesOK', NEW r \in Requests, NEW q, RecordOK(q),
           req' = [req EXCEPT ![r] = q]
    PROVE  TypeOK'
<1>1. \A x \in Requests : req'[x] = IF x = r THEN q ELSE req[x]
  BY DEF TypeOK
<1>2. req' \in [Requests -> Request]
  BY DEF TypeOK, RecordOK
<1>3. \A x \in Requests : req'[x].pc # "idle" => InProgressOK(req'[x])
  BY <1>1 DEF TypeOK, RecordOK
<1> QED  BY <1>2, <1>3 DEF TypeOK, TablesOK

LEMMA AnswerOK ==
    ASSUME TypeOK, TablesOK', NEW r \in Requests, NEW code \in Answers,
           Answer(r, code)
    PROVE  TypeOK'
<1>1. RecordOK([NoRequest EXCEPT !.status = code])
  BY DEF RecordOK, NoRequest, Request, AnyRow, AnyPayload
<1> QED  BY <1>1, OneRecord DEF Answer

LEMMA RequestGoesOn ==
    ASSUME NEW q \in Request, NEW row \in AnyRow,
           NEW pc \in {"idle", "load", "write", "reload"}
    PROVE  [q EXCEPT !.pc = pc, !.row = row] \in Request
BY DEF Request

\* The request goes on, past its place pc, holding a row of the right type.
LEMMA ContinueOK ==
    ASSUME TypeOK, TablesOK', NEW r \in Requests, req[r].pc # "idle",
           NEW pc \in {"load", "write", "reload"},
           NEW row \in RowTypes(req[r].op, pc), Continue(r, pc, row)
    PROVE  TypeOK'
<1> DEFINE q == [req[r] EXCEPT !.pc = pc, !.row = row]
<1>1. req' = [req EXCEPT ![r] = q]
  BY DEF Continue, TypeOK
<1>2. req[r] \in Request /\ InProgressOK(req[r])
  BY DEF TypeOK
<1>3. row \in AnyRow
  BY DEF RowTypes, AnyRow
<1>4. q \in Request
  BY <1>2, <1>3, RequestGoesOn
<1>5. InProgressOK(q)
  BY <1>2 DEF InProgressOK, Request
<1> QED  BY <1>1, <1>4, <1>5, OneRecord DEF RecordOK
LEMMA UnchangedTablesOK == ASSUME TypeOK, UNCHANGED tables PROVE TablesOK'
BY DEF TypeOK, TablesOK, tables, Live

\* The codes the routes answer.
LEMMA AnswerCodes ==
    {200, 201, 403, 404, 409, 422, 500} \subseteq Answers
BY DEF Answers

LEMMA DependencyTyped ==
    ASSUME TypeOK, NEW r \in Requests, NEW op \in Routes, NEW role,
           op # "create_workspace",
           NEW first, \/ first = "load"
                      \/ first = "write" /\ op = "create_project",
           require_workspace_role(r, op, role, first)
    PROVE  TypeOK'
<1>1. TablesOK'
  BY UnchangedTablesOK DEF require_workspace_role
<1>2. op \in Ops
  BY DEF require_workspace_role
<1>3. CASE \E code \in {403, 422} : Answer(r, code)
  BY <1>1, <1>3, AnswerOK, AnswerCodes
<1>4. ASSUME NEW ws \in WorkspaceIds, NEW u \in Users,
             NEW m \in get_member(ws, u), NEW id \in WorkspaceIds,
             NEW target \in Target(op), NEW arg \in Payload(op),
             req' = [req EXCEPT ![r] = Accepted(first, op, m, id, target, arg)]
      PROVE  TypeOK'
  <2> DEFINE q == Accepted(first, op, m, id, target, arg)
  <2>1. first \in {"idle", "load", "write", "reload"}
    OBVIOUS
  <2>2. m \in MemberRow
    BY DEF TypeOK, get_member
  <2>3. arg \in AnyPayload /\ target \in UserIds \cup {Null}
    BY DEF AnyPayload, Payload, Target
  <2>4. Null \in RowTypes(op, first)
    BY DEF RowTypes
  <2>5. q \in Request
    BY <1>2, <2>1, <2>2, <2>3 DEF Request, AnyRow, Answers, Accepted
  <2>6. InProgressOK(q)
    BY <1>2, <2>2, <2>4 DEF InProgressOK, Accepted
  <2> QED  BY <1>1, <1>4, <2>5, <2>6, OneRecord DEF RecordOK
<1> QED  BY <1>3, <1>4 DEF require_workspace_role

LEMMA LoadWorkspaceTyped ==
    ASSUME TypeOK, NEW r \in Requests,
           NEW op \in {"update_workspace", "delete_workspace"},
           LoadWorkspace(r, op)
    PROVE  TypeOK'
<1>1. TablesOK'
  BY UnchangedTablesOK DEF LoadWorkspace
<1>2. req[r].pc # "idle" /\ req[r].op = op
  BY DEF LoadWorkspace, At
<1>3. ASSUME Live(req[r].id), Continue(r, "write", name[req[r].id])
      PROVE  TypeOK'
  <2>1. name[req[r].id] \in Names
    BY <1>2, <1>3 DEF TypeOK, InProgressOK
  <2>2. name[req[r].id] \in RowTypes(req[r].op, "write")
    BY <1>2, <2>1 DEF RowTypes
  <2> QED  BY <1>1, <1>2, <1>3, <2>2, ContinueOK
<1> QED  BY <1>1, <1>3, AnswerOK, AnswerCodes DEF LoadWorkspace
(***************************************************************************)
(* The statements that write keep the tables well-typed and hand the       *)
(* handler a row of the right table.                                       *)
(***************************************************************************)
LEMMA CreateWorkspaceTyped ==
    ASSUME TypeOK, NEW r \in Requests, InsertWorkspace(r)
    PROVE  TypeOK'
<1> PICK u \in Users, w \in WorkspaceIds \ born, n \in Names :
      /\ owner_id' = [owner_id EXCEPT ![w] = u]
      /\ name' = [name EXCEPT ![w] = n]
      /\ born' = born \cup {w}
      /\ members' = members \cup {[id |-> nextId, workspace |-> w,
                                   user |-> u, role |-> "OWNER"]}
      /\ nextId' = nextId + 1
      /\ req' = [req EXCEPT ![r] =
            Accepted("reload", "create_workspace", Null, w, Null, Null)]
  BY DEF InsertWorkspace
<1>1. "OWNER" \in ResourceRole
  BY DEF ResourceRole
<1>2. TablesOK'
  BY <1>1 DEF TypeOK, TablesOK, MemberRow, Live, InsertWorkspace
<1> DEFINE q == Accepted("reload", "create_workspace", Null, w, Null, Null)
<1>3. q \in Request
  BY DEF Accepted, Request, AnyRow, AnyPayload, Answers, InsertWorkspace
<1>4. InProgressOK(q)
  BY DEF Accepted, InProgressOK, Target, MemberOps, Payload, RowTypes,
         InsertWorkspace
<1> QED  BY <1>2, <1>3, <1>4, OneRecord DEF RecordOK

LEMMA UpdateWorkspaceTyped ==
    ASSUME TypeOK, NEW r \in Requests, UpdateWorkspaceRow(r)
    PROVE  TypeOK'
<1>1. req[r].pc = "write" /\ req[r].op = "update_workspace"
  BY DEF UpdateWorkspaceRow, At
<1>2. /\ req[r].id \in WorkspaceIds
      /\ req[r].arg \in Names
      /\ req[r].row \in Names
  BY <1>1 DEF TypeOK, InProgressOK, Payload, RowTypes
<1>3. TablesOK'
  BY <1>2 DEF TypeOK, TablesOK, UpdateWorkspaceRow, Live
<1>4. Names = RowTypes(req[r].op, "reload")
  BY <1>1 DEF RowTypes
<1>5. ASSUME NEW row \in Names, Reload(r, row)
      PROVE  TypeOK'
  BY <1>1, <1>3, <1>4, <1>5, ContinueOK DEF Reload
<1>6. ASSUME Answer(r, 500)
      PROVE  TypeOK'
  BY <1>3, <1>6, AnswerOK, AnswerCodes
<1> QED  BY <1>2, <1>5, <1>6 DEF UpdateWorkspaceRow

LEMMA DeleteWorkspaceTyped ==
    ASSUME TypeOK, NEW r \in Requests, DeleteWorkspaceRow(r)
    PROVE  TypeOK'
<1>1. TablesOK'
  BY DEF TypeOK, TablesOK, DeleteWorkspaceRow, Live, WithoutWorkspace
<1> QED  BY <1>1, AnswerOK, AnswerCodes DEF DeleteWorkspaceRow

LEMMA InsertMemberTyped ==
    ASSUME TypeOK, NEW r \in Requests, CheckNewMember(r) \/ InsertMember(r)
    PROVE  TypeOK'
<1>1. req[r].op = "add_member" /\ req[r].pc # "idle"
  BY DEF CheckNewMember, InsertMember, At
<1>2. /\ req[r].id \in WorkspaceIds
      /\ req[r].arg \in ResourceRole
  BY <1>1 DEF TypeOK, InProgressOK, Payload
<1>3. CASE CheckNewMember(r)
  <2>1. TablesOK'
    BY <1>3, UnchangedTablesOK DEF CheckNewMember
  <2>2. Null \in RowTypes(req[r].op, "write")
    BY <1>1 DEF RowTypes
  <2> QED  BY <1>1, <1>3, <2>1, <2>2, ContinueOK, AnswerOK, AnswerCodes
           DEF CheckNewMember
<1>4. CASE InsertMember(r)
  <2> DEFINE new == [id |-> nextId, workspace |-> req[r].id,
                     user |-> req[r].target, role |-> req[r].arg]
             accepted == /\ Live(req[r].id) /\ req[r].target \in Users
                         /\ MemberKeyFree(req[r].id, req[r].target)
  <2>1. CASE accepted
    <3>1. new \in MemberRow
      BY <1>2, <2>1 DEF MemberRow, TypeOK
    <3>2. TablesOK'
      BY <1>4, <2>1, <3>1 DEF TypeOK, TablesOK, InsertMember, Live
    <3>3. Reload(r, new) /\ new \in RowTypes(req[r].op, "reload")
      BY <1>1, <1>4, <2>1, <3>1 DEF InsertMember, RowTypes
    <3> QED  BY <1>1, <3>2, <3>3, ContinueOK DEF Reload
  <2>2. CASE ~accepted
    <3>1. UNCHANGED tables
      BY <1>4, <2>2 DEF InsertMember, tables
    <3> QED  BY <1>4, <2>2, <3>1, UnchangedTablesOK, AnswerOK, AnswerCodes
             DEF InsertMember
  <2> QED  BY <2>1, <2>2
<1> QED  BY <1>3, <1>4
\* A handler that has just loaded a member row continues with that row as the
\* session holds it, which is a member row again.
LEMMA LoadMemberTyped ==
    ASSUME TypeOK, NEW r \in Requests,
           NEW op \in {"update_role", "remove_member"}, LoadMember(r, op)
    PROVE  TypeOK'
<1>1. TablesOK'
  BY UnchangedTablesOK DEF LoadMember
<1>2. req[r].pc # "idle" /\ req[r].op = op
  BY DEF LoadMember, At
<1>3. ASSUME NEW m \in get_member(req[r].id, req[r].target),
             Continue(r, "write", Loaded(r, m))
      PROVE  TypeOK'
  <2>1. Loaded(r, m) \in MemberRow
    BY <1>2 DEF TypeOK, InProgressOK, Loaded, get_member
  <2>2. Loaded(r, m) \in RowTypes(req[r].op, "write")
    BY <1>2, <2>1 DEF RowTypes
  <2> QED  BY <1>1, <1>2, <1>3, <2>2, ContinueOK
<1> QED  BY <1>1, <1>3, AnswerOK, AnswerCodes DEF LoadMember

LEMMA UpdateMemberTyped ==
    ASSUME TypeOK, NEW r \in Requests, UpdateMemberRow(r)
    PROVE  TypeOK'
<1>1. req[r].op = "update_role" /\ req[r].pc = "write"
  BY DEF UpdateMemberRow, At
<1>2. req[r].row \in MemberRow /\ req[r].arg \in ResourceRole
  BY <1>1 DEF TypeOK, InProgressOK, Payload, RowTypes
<1> DEFINE new == [req[r].row EXCEPT !.role = req[r].arg]
<1>3. new \in MemberRow
  BY <1>2 DEF MemberRow
<1>4. TablesOK'
  BY <1>3 DEF TypeOK, TablesOK, UpdateMemberRow, Live
<1>5. ASSUME NEW row \in MemberRow, Reload(r, row)
      PROVE  TypeOK'
  BY <1>1, <1>4, <1>5, ContinueOK DEF Reload, RowTypes
<1> QED  BY <1>2, <1>3, <1>4, <1>5, AnswerOK, AnswerCodes DEF UpdateMemberRow

LEMMA DeleteMemberTyped ==
    ASSUME TypeOK, NEW r \in Requests, DeleteMemberRow(r)
    PROVE  TypeOK'
<1>1. TablesOK'
  BY DEF TypeOK, TablesOK, DeleteMemberRow, Live
<1> QED  BY <1>1, AnswerOK, AnswerCodes DEF DeleteMemberRow

LEMMA InsertProjectTyped ==
    ASSUME TypeOK, NEW r \in Requests, InsertProject(r)
    PROVE  TypeOK'
<1>1. req[r].op = "create_project" /\ req[r].pc = "write"
  BY DEF InsertProject, At
<1>2. [id |-> nextId, workspace |-> req[r].id] \in ProjectRow
  BY <1>1 DEF TypeOK, InProgressOK, ProjectRow
<1>3. TablesOK'
  BY <1>2 DEF TypeOK, TablesOK, InsertProject, Live
<1>4. ASSUME Reload(r, [id |-> nextId, workspace |-> req[r].id])
      PROVE  TypeOK'
  BY <1>1, <1>2, <1>3, <1>4, ContinueOK DEF Reload, RowTypes
<1> QED  BY <1>3, <1>4, AnswerOK, AnswerCodes DEF InsertProject

LEMMA InsertLabelTyped ==
    ASSUME TypeOK, NEW r \in Requests, CheckLabel(r) \/ InsertLabel(r)
    PROVE  TypeOK'
<1>1. req[r].op = "create_label" /\ req[r].pc # "idle"
  BY DEF CheckLabel, InsertLabel, At
<1>2. [workspace |-> req[r].id, name |-> req[r].arg] \in LabelRow
  BY <1>1 DEF TypeOK, InProgressOK, LabelRow, Payload
<1>3. TablesOK'
  BY <1>2, UnchangedTablesOK
     DEF TypeOK, TablesOK, CheckLabel, InsertLabel, Live
<1>4. ASSUME Reload(r, [workspace |-> req[r].id, name |-> req[r].arg])
      PROVE  TypeOK'
  BY <1>1, <1>2, <1>3, <1>4, ContinueOK DEF Reload, RowTypes
<1>5. ASSUME Continue(r, "write", Null)
      PROVE  TypeOK'
  <2>1. Null \in RowTypes(req[r].op, "write")
    BY <1>1 DEF RowTypes
  <2> QED  BY <1>1, <1>3, <1>5, <2>1, ContinueOK
<1> QED  BY <1>3, <1>4, <1>5, AnswerOK, AnswerCodes DEF CheckLabel, InsertLabel

\* The answers that follow a reload.
LEMMA ReloadedTyped ==
    ASSUME TypeOK, NEW r \in Requests,
           NEW op, NEW code \in {200, 201, 500},
           \/ RefreshWorkspace(r, op, code)
           \/ ReloadMember(r, op, code)
           \/ RefreshProject(r)
           \/ RefreshLabel(r)
    PROVE  TypeOK'
<1>1. TablesOK'
  BY UnchangedTablesOK
     DEF RefreshWorkspace, ReloadMember, RefreshProject, RefreshLabel
<1>2. \E c \in {code, 201, 500} : Answer(r, c)
  BY DEF RefreshWorkspace, ReloadMember, RefreshProject, RefreshLabel,
         AnswerReloaded
<1> QED  BY <1>1, <1>2, AnswerOK, AnswerCodes

LEMMA NextTyped == ASSUME TypeOK, NEW r \in Requests, Serve(r) PROVE TypeOK'
<1>1. CASE create_workspace(r)
  BY <1>1, CreateWorkspaceTyped, ReloadedTyped DEF create_workspace
<1>2. CASE update_workspace(r)
  BY <1>2, DependencyTyped, LoadWorkspaceTyped, UpdateWorkspaceTyped,
     ReloadedTyped DEF update_workspace, Routes
<1>3. CASE delete_workspace(r)
  BY <1>3, DependencyTyped, LoadWorkspaceTyped, DeleteWorkspaceTyped
     DEF delete_workspace, Routes
<1>4. CASE add_workspace_member(r)
  BY <1>4, DependencyTyped, InsertMemberTyped, ReloadedTyped
     DEF add_workspace_member, Routes
<1>5. CASE update_workspace_member_role(r)
  BY <1>5, DependencyTyped, LoadMemberTyped, UpdateMemberTyped, ReloadedTyped
     DEF update_workspace_member_role, Routes
<1>6. CASE remove_workspace_member(r)
  BY <1>6, DependencyTyped, LoadMemberTyped, DeleteMemberTyped
     DEF remove_workspace_member, Routes
<1>7. CASE create_workspace_project(r)
  BY <1>7, DependencyTyped, InsertProjectTyped, ReloadedTyped
     DEF create_workspace_project, Routes
<1>8. CASE create_workspace_label(r)
  BY <1>8, DependencyTyped, InsertLabelTyped, ReloadedTyped
     DEF create_workspace_label, Routes
<1> QED  BY <1>1, <1>2, <1>3, <1>4, <1>5, <1>6, <1>7, <1>8 DEF Serve

\* Every variable keeps its type whatever the routes do, and a handler past its
\* checks holds a row of the table it is about to write.
THEOREM TypeCorrect == Spec => []TypeOK
<1>1. Init => TypeOK
  <2> SUFFICES ASSUME Init PROVE TypeOK
    OBVIOUS
  <2>1. NoRequest \in Request
    BY DEF NoRequest, Request, AnyRow, AnyPayload, Answers
  <2>2. \A r \in Requests : req[r] = NoRequest
    BY DEF Init
  <2>3. NoRequest.pc = "idle"
    BY DEF NoRequest
  <2> QED  BY <2>1, <2>2, <2>3, ConstantsOK DEF Init, TypeOK, Live
<1>2. TypeOK /\ [Next]_vars => TypeOK'
  <2> SUFFICES ASSUME TypeOK, [Next]_vars PROVE TypeOK'
    OBVIOUS
  <2>1. CASE Next
    BY <2>1, NextTyped DEF Next
  <2>2. CASE UNCHANGED vars
    BY <2>2 DEF vars, tables, TypeOK, Live
  <2> QED  BY <2>1, <2>2
<1> QED  BY <1>1, <1>2, PTL DEF Spec
-------------------------------------------------------------------------------
(***************************************************************************)
(* Ownership.  What a step does to the rows has to keep every snapshot any *)
(* request may hold, and what it does to its own record has to hold        *)
(* snapshots again.                                                        *)
(***************************************************************************)
Owned == LiveWasBorn /\ NoOrphanRows /\ RowIdsGivenOnce /\ OneRolePerMember
         /\ OwnerStaysOwner

KeepsSnapshots == \A s \in MemberRow : Snapshot(s) => Snapshot(s)'

\* A row that has just been read is a snapshot.
LEMMA FreshSnapshot ==
    ASSUME TypeOK, Owned, NEW m \in members PROVE Snapshot(m)
BY DEF Owned, Snapshot, RowIdsGivenOnce, NoOrphanRows, OneRolePerMember,
       OwnerStaysOwner, TypeOK, MemberRow

LEMMA OneHolder ==
    ASSUME TypeOK, TypeOK', SnapshotsHold, KeepsSnapshots, NEW r \in Requests,
           NEW q, HoldsSnapshots(q), req' = [req EXCEPT ![r] = q]
    PROVE  SnapshotsHold'
<1> SUFFICES ASSUME NEW x \in Requests
             PROVE  HoldsSnapshots(req[x])'
  BY DEF SnapshotsHold
<1>1. PICK v : v = req'[x]
  OBVIOUS
<1>2. HoldsSnapshots(v)
  BY <1>1 DEF SnapshotsHold, TypeOK
<1>3. /\ v.pc # "idle" /\ v.op # "create_workspace" => v.me \in MemberRow
      /\ v.pc = "write" /\ v.op \in {"update_role", "remove_member"}
         => v.row \in MemberRow
  BY <1>1 DEF TypeOK, InProgressOK, RowTypes
<1>4. HoldsSnapshots(v)'
  BY <1>2, <1>3 DEF KeepsSnapshots, HoldsSnapshots
<1> QED  BY <1>1, <1>4 DEF HoldsSnapshots, Snapshot

LEMMA AnswerHolds ==
    ASSUME TypeOK, TypeOK', SnapshotsHold, KeepsSnapshots, NEW r \in Requests,
           NEW code, Answer(r, code)
    PROVE  SnapshotsHold'
<1>1. HoldsSnapshots([NoRequest EXCEPT !.status = code])
  BY DEF HoldsSnapshots, NoRequest
<1> QED  BY <1>1, OneHolder DEF Answer

\* A request that goes on keeps the row its dependency loaded, and may hold a
\* row it is going to write.
LEMMA ContinueHolds ==
    ASSUME TypeOK, TypeOK', SnapshotsHold, KeepsSnapshots, NEW r \in Requests,
           req[r].pc # "idle", NEW pc, NEW row, Continue(r, pc, row),
           \/ pc = "reload"
           \/ req[r].op \notin {"update_role", "remove_member"}
           \/ Snapshot(row) /\ row.role # "OWNER"
    PROVE  SnapshotsHold'
<1> DEFINE q == [req[r] EXCEPT !.pc = pc, !.row = row]
<1>1. req' = [req EXCEPT ![r] = q]
  BY DEF Continue, TypeOK
<1>2. req[r] \in Request /\ HoldsSnapshots(req[r])
  BY DEF TypeOK, SnapshotsHold
<1>3. q.pc = pc /\ q.row = row /\ q.op = req[r].op /\ q.me = req[r].me
  BY <1>2 DEF Request
<1>4. HoldsSnapshots(q)
  BY <1>2, <1>3 DEF HoldsSnapshots
<1> QED  BY <1>1, <1>4, OneHolder

\* A step that leaves the tables alone.
LEMMA ReadOnly ==
    ASSUME TypeOK, Owned, UNCHANGED tables
    PROVE  Owned' /\ KeepsSnapshots
BY DEF Owned, KeepsSnapshots, tables, LiveWasBorn, NoOrphanRows,
       RowIdsGivenOnce, OneRolePerMember, OwnerStaysOwner, Snapshot, Live
\* What the owner_id column and the member rows do, for the steps that add to
\* the other tables only.
LEMMA OtherTables ==
    ASSUME TypeOK, TypeOK', Owned, UNCHANGED <<owner_id, born, members>>,
           nextId' >= nextId, NoOrphanRows'
    PROVE  Owned' /\ KeepsSnapshots
<1>1. RowIdsGivenOnce' /\ KeepsSnapshots
  BY DEF Owned, RowIdsGivenOnce, KeepsSnapshots, Snapshot, TypeOK, MemberRow
<1> QED  BY <1>1 DEF Owned, LiveWasBorn, OneRolePerMember, OwnerStaysOwner, Live

LEMMA CreateWorkspaceOwned ==
    ASSUME TypeOK, TypeOK', Owned, NEW r \in Requests, InsertWorkspace(r)
    PROVE  Owned' /\ KeepsSnapshots
<1> PICK u \in Users, w \in WorkspaceIds \ born :
      /\ owner_id' = [owner_id EXCEPT ![w] = u]
      /\ born' = born \cup {w}
      /\ members' = members \cup {[id |-> nextId, workspace |-> w,
                                   user |-> u, role |-> "OWNER"]}
      /\ nextId' = nextId + 1
      /\ UNCHANGED <<projects, labels>>
  BY DEF InsertWorkspace
<1> DEFINE new == [id |-> nextId, workspace |-> w, user |-> u, role |-> "OWNER"]
<1>1. ~Live(w) /\ owner_id'[w] = u /\ u # Null
  BY ConstantsOK DEF Owned, LiveWasBorn, TypeOK
<1>2. \A v \in WorkspaceIds : v # w => owner_id'[v] = owner_id[v]
  BY DEF TypeOK
<1>3. \A m \in members : m.workspace # w /\ m.id < nextId /\ m \in MemberRow
  BY <1>1 DEF Owned, NoOrphanRows, RowIdsGivenOnce, TypeOK
<1>4. LiveWasBorn'
  BY <1>2 DEF Owned, LiveWasBorn, Live, TypeOK
<1>5. NoOrphanRows'
  BY <1>1, <1>2 DEF Owned, NoOrphanRows, Live, TypeOK, MemberRow,
                    ProjectRow, LabelRow
<1>6. RowIdsGivenOnce'
  BY <1>3 DEF Owned, RowIdsGivenOnce, TypeOK, MemberRow
<1>7. OneRolePerMember'
  BY <1>3 DEF Owned, OneRolePerMember
<1>8. OwnerStaysOwner'
  <2> SUFFICES ASSUME NEW v \in WorkspaceIds, Live(v)'
               PROVE  \E m \in members' : /\ m.workspace = v
                                          /\ m.user = owner_id'[v]
                                          /\ m.role = "OWNER"
    BY DEF OwnerStaysOwner
  <2>1. CASE v = w
    <3>1. new \in members' /\ new.workspace = v /\ new.role = "OWNER"
      BY <2>1
    <3>2. new.user = owner_id'[v]
      BY <1>1, <2>1
    <3> QED  BY <3>1, <3>2
  <2>2. CASE v # w
    <3>1. Live(v) /\ owner_id'[v] = owner_id[v]
      BY <1>2, <2>2 DEF Live
    <3>2. PICK m \in members : /\ m.workspace = v /\ m.user = owner_id[v]
                              /\ m.role = "OWNER"
      BY <3>1 DEF Owned, OwnerStaysOwner
    <3> QED  BY <3>1, <3>2
  <2> QED  BY <2>1, <2>2
<1>9. KeepsSnapshots
  BY <1>2, <1>3 DEF KeepsSnapshots, Snapshot, TypeOK, MemberRow
<1> QED  BY <1>4, <1>5, <1>6, <1>7, <1>8, <1>9 DEF Owned

LEMMA DeleteWorkspaceOwned ==
    ASSUME TypeOK, TypeOK', Owned, NEW r \in Requests, DeleteWorkspaceRow(r)
    PROVE  Owned' /\ KeepsSnapshots
<1>1. req[r].id \in WorkspaceIds
  BY DEF DeleteWorkspaceRow, At, TypeOK, InProgressOK
<1> DEFINE w == req[r].id
<1>2. \A v \in WorkspaceIds : v # w => owner_id'[v] = owner_id[v]
  BY DEF DeleteWorkspaceRow, TypeOK
<1>3. owner_id'[w] = Null
  BY <1>1 DEF DeleteWorkspaceRow, TypeOK
<1>4. members' = {m \in members : m.workspace # w}
  BY DEF DeleteWorkspaceRow, WithoutWorkspace
<1>5. LiveWasBorn' /\ RowIdsGivenOnce' /\ OneRolePerMember'
  BY <1>2, <1>3, <1>4 DEF Owned, LiveWasBorn, RowIdsGivenOnce,
     OneRolePerMember, DeleteWorkspaceRow, Live
<1>6. NoOrphanRows'
  BY <1>2, <1>4 DEF Owned, NoOrphanRows, DeleteWorkspaceRow,
     WithoutWorkspace, Live, TypeOK, MemberRow, ProjectRow, LabelRow
<1>7. OwnerStaysOwner'
  BY <1>2, <1>3, <1>4 DEF Owned, OwnerStaysOwner, Live
<1>8. KeepsSnapshots
  BY <1>2, <1>4 DEF KeepsSnapshots, Snapshot, TypeOK, MemberRow,
                    DeleteWorkspaceRow
<1> QED  BY <1>5, <1>6, <1>7, <1>8 DEF Owned

LEMMA InsertMemberOwned ==
    ASSUME TypeOK, TypeOK', Owned, NEW r \in Requests, InsertMember(r)
    PROVE  Owned' /\ KeepsSnapshots
<1> DEFINE new == [id |-> nextId, workspace |-> req[r].id,
                   user |-> req[r].target, role |-> req[r].arg]
           accepted == /\ Live(req[r].id) /\ req[r].target \in Users
                       /\ MemberKeyFree(req[r].id, req[r].target)
<1>1. CASE ~accepted
  <2>1. UNCHANGED tables
    BY <1>1 DEF InsertMember, tables
  <2> QED  BY <2>1, ReadOnly
<1>2. CASE accepted
  <2>1. /\ members' = members \cup {new}
        /\ nextId' = nextId + 1
        /\ UNCHANGED <<owner_id, born, projects, labels>>
    BY <1>2 DEF InsertMember
  <2>2. \A m \in members : /\ m.id < nextId
                           /\ m.workspace = new.workspace => m.user # new.user
    BY <1>2 DEF Owned, RowIdsGivenOnce, MemberKeyFree, get_member
  <2>3. RowIdsGivenOnce'
    BY <2>1, <2>2, new.id = nextId DEF Owned, RowIdsGivenOnce, TypeOK, MemberRow
  <2>4. OneRolePerMember'
    BY <2>1, <2>2 DEF Owned, OneRolePerMember
  <2>5. NoOrphanRows'
    BY <1>2, <2>1 DEF Owned, NoOrphanRows, Live
  <2>6. OwnerStaysOwner' /\ LiveWasBorn'
    BY <2>1 DEF Owned, OwnerStaysOwner, LiveWasBorn, Live
  <2>7. KeepsSnapshots
    BY <2>1, new.id = nextId DEF KeepsSnapshots, Snapshot, TypeOK, MemberRow
  <2> QED  BY <2>3, <2>4, <2>5, <2>6, <2>7 DEF Owned
<1> QED  BY <1>1, <1>2
\* The row that update_role and remove_member write is the row of somebody
\* other than the owner, if it is still there at all.
LEMMA WrittenRow ==
    ASSUME TypeOK, Owned, SnapshotsHold, NEW r \in Requests,
           req[r].pc = "write", req[r].op \in {"update_role", "remove_member"}
    PROVE  /\ req[r].row \in MemberRow
           /\ \A m \in members : m.id = req[r].row.id =>
                /\ m.workspace = req[r].row.workspace
                /\ m.user = req[r].row.user
                /\ m.user # owner_id[m.workspace]
<1>1. HoldsSnapshots(req[r])
  BY DEF SnapshotsHold
<1> QED  BY <1>1 DEF HoldsSnapshots, Snapshot, TypeOK, InProgressOK, RowTypes

LEMMA UpdateMemberOwned ==
    ASSUME TypeOK, TypeOK', Owned, SnapshotsHold, NEW r \in Requests,
           UpdateMemberRow(r)
    PROVE  Owned' /\ KeepsSnapshots
<1> DEFINE old == req[r].row
           hit == {m \in members : m.id = old.id}
           new == [old EXCEPT !.role = req[r].arg]
<1>1. /\ old \in MemberRow
      /\ \A m \in hit : /\ m.workspace = old.workspace /\ m.user = old.user
                       /\ m.user # owner_id[m.workspace]
  BY WrittenRow DEF UpdateMemberRow, At
<1>2. CASE UNCHANGED members
  <2>1. UNCHANGED tables
    BY <1>2 DEF UpdateMemberRow, tables
  <2> QED  BY <2>1, ReadOnly
<1>3. CASE hit # {} /\ members' = (members \ hit) \cup {new}
  <2>1. PICK h \in members : h.id = old.id
    BY <1>3
  <2>2. /\ new.id = h.id /\ new.workspace = h.workspace /\ new.user = h.user
        /\ h.user # owner_id[h.workspace]
    BY <1>1, <2>1 DEF MemberRow
  <2>3. hit = {h}
    BY <2>1 DEF Owned, RowIdsGivenOnce
  <2>4. UNCHANGED <<owner_id, born, projects, labels, nextId>>
    BY DEF UpdateMemberRow
  <2> HIDE DEF new, hit
  <2>5. members' = (members \ {h}) \cup {new}
    BY <1>3, <2>3
  <2>6. RowIdsGivenOnce'
    BY <2>2, <2>4, <2>5 DEF Owned, RowIdsGivenOnce
  <2>7. OneRolePerMember'
    BY <2>2, <2>5 DEF Owned, OneRolePerMember
  <2>8. NoOrphanRows' /\ LiveWasBorn'
    BY <2>2, <2>4, <2>5 DEF Owned, NoOrphanRows, LiveWasBorn, Live
  <2>9. OwnerStaysOwner'
    BY <2>2, <2>4, <2>5 DEF Owned, OwnerStaysOwner, Live
  <2>10. KeepsSnapshots
    BY <2>2, <2>4, <2>5 DEF KeepsSnapshots, Snapshot
  <2> QED  BY <2>6, <2>7, <2>8, <2>9, <2>10 DEF Owned
<1> QED  BY <1>2, <1>3 DEF UpdateMemberRow

LEMMA DeleteMemberOwned ==
    ASSUME TypeOK, TypeOK', Owned, SnapshotsHold, NEW r \in Requests,
           DeleteMemberRow(r)
    PROVE  Owned' /\ KeepsSnapshots
<1>1. \A m \in members \ members' : m.user # owner_id[m.workspace]
  BY WrittenRow DEF DeleteMemberRow, At
<1>2. /\ members' \subseteq members
      /\ UNCHANGED <<owner_id, born, projects, labels, nextId>>
  BY DEF DeleteMemberRow
<1>3. RowIdsGivenOnce' /\ OneRolePerMember' /\ KeepsSnapshots
  BY <1>2 DEF Owned, RowIdsGivenOnce, OneRolePerMember, KeepsSnapshots, Snapshot
<1>4. NoOrphanRows' /\ LiveWasBorn'
  BY <1>2 DEF Owned, NoOrphanRows, LiveWasBorn, Live
<1>5. OwnerStaysOwner'
  BY <1>1, <1>2 DEF Owned, OwnerStaysOwner, Live
<1> QED  BY <1>3, <1>4, <1>5 DEF Owned
-------------------------------------------------------------------------------
(***************************************************************************)
(* The requests.                                                           *)
(***************************************************************************)
LEMMA DependencyHolds ==
    ASSUME TypeOK, TypeOK', Owned, SnapshotsHold, NEW r \in Requests,
           NEW op \in Routes, NEW role, NEW first,
           first = "write" => op = "create_project",
           require_workspace_role(r, op, role, first)
    PROVE  Owned' /\ SnapshotsHold'
<1>1. Owned' /\ KeepsSnapshots
  BY ReadOnly DEF require_workspace_role
<1>2. CASE \E code \in {403, 422} : Answer(r, code)
  BY <1>1, <1>2, AnswerHolds
<1>3. ASSUME NEW ws \in WorkspaceIds, NEW u \in Users,
             NEW m \in get_member(ws, u), NEW id, NEW target, NEW arg,
             req' = [req EXCEPT ![r] = Accepted(first, op, m, id, target, arg)]
      PROVE  SnapshotsHold'
  <2>1. Snapshot(m)
    BY FreshSnapshot DEF get_member
  <2>2. HoldsSnapshots(Accepted(first, op, m, id, target, arg))
    BY <2>1 DEF HoldsSnapshots, Accepted
  <2> QED  BY <1>1, <1>3, <2>2, OneHolder
<1> QED  BY <1>1, <1>2, <1>3 DEF require_workspace_role

\* The row a member handler continues with is not an owner's: it is the row
\* just read or an older snapshot of the same row.
LEMMA LoadMemberHolds ==
    ASSUME TypeOK, TypeOK', Owned, SnapshotsHold, NEW r \in Requests,
           NEW op \in {"update_role", "remove_member"}, LoadMember(r, op)
    PROVE  Owned' /\ SnapshotsHold'
<1>1. Owned' /\ KeepsSnapshots
  BY ReadOnly DEF LoadMember
<1>2. req[r].pc # "idle" /\ req[r].op = op
  BY DEF LoadMember, At
<1>3. ASSUME NEW m \in get_member(req[r].id, req[r].target),
             ~OwnerProtected(Loaded(r, m)),
             Continue(r, "write", Loaded(r, m))
      PROVE  SnapshotsHold'
  <2>1. Snapshot(m) /\ Snapshot(req[r].me)
    BY <1>2, FreshSnapshot DEF get_member, SnapshotsHold, HoldsSnapshots
  <2>2. Snapshot(Loaded(r, m)) /\ Loaded(r, m).role # "OWNER"
    BY <1>3, <2>1 DEF Loaded, OwnerProtected
  <2> QED  BY <1>1, <1>2, <1>3, <2>2, ContinueHolds
<1> QED  BY <1>1, <1>3, AnswerHolds DEF LoadMember

\* Every other step that moves the request of r on or answers it.
LEMMA OtherHolds ==
    ASSUME TypeOK, TypeOK', SnapshotsHold, KeepsSnapshots, NEW r \in Requests,
           req[r].pc # "idle",
           \/ \E code : Answer(r, code)
           \/ \E row : Reload(r, row)
           \/ /\ req[r].op \notin {"update_role", "remove_member"}
              /\ \E row : Continue(r, "write", row)
    PROVE  SnapshotsHold'
BY AnswerHolds, ContinueHolds DEF Reload

LEMMA ReaderHolds ==
    ASSUME TypeOK, TypeOK', Owned, SnapshotsHold, NEW r \in Requests,
           NEW op, NEW code,
           \/ /\ op \notin {"update_role", "remove_member"}
              /\ LoadWorkspace(r, op)
           \/ CheckNewMember(r)
           \/ CheckLabel(r)
           \/ RefreshWorkspace(r, op, code)
           \/ ReloadMember(r, op, code)
           \/ RefreshProject(r)
           \/ RefreshLabel(r)
    PROVE  Owned' /\ SnapshotsHold'
<1>1. Owned' /\ KeepsSnapshots
  BY ReadOnly DEF LoadWorkspace, CheckNewMember, CheckLabel, RefreshWorkspace,
                  ReloadMember, RefreshProject, RefreshLabel
<1>2. req[r].pc # "idle"
  BY DEF LoadWorkspace, CheckNewMember, CheckLabel, RefreshWorkspace,
         ReloadMember, RefreshProject, RefreshLabel, At
<1>3. \/ \E c : Answer(r, c)
      \/ /\ req[r].op \notin {"update_role", "remove_member"}
         /\ \E row : Continue(r, "write", row)
  BY DEF LoadWorkspace, CheckNewMember, CheckLabel, RefreshWorkspace,
         ReloadMember, RefreshProject, RefreshLabel, At, AnswerReloaded
<1> QED  BY <1>1, <1>2, <1>3, OtherHolds

LEMMA WriterHolds ==
    ASSUME TypeOK, TypeOK', Owned, SnapshotsHold, NEW r \in Requests,
           \/ UpdateWorkspaceRow(r)
           \/ DeleteWorkspaceRow(r)
           \/ InsertMember(r)
           \/ UpdateMemberRow(r)
           \/ DeleteMemberRow(r)
           \/ InsertProject(r)
           \/ InsertLabel(r)
    PROVE  Owned' /\ SnapshotsHold'
<1>1. Owned' /\ KeepsSnapshots
  <2>1. CASE UpdateWorkspaceRow(r)
    <3>1. NoOrphanRows' /\ nextId' >= nextId
      BY <2>1 DEF UpdateWorkspaceRow, Owned, NoOrphanRows, Live, TypeOK
    <3> QED  BY <2>1, <3>1, OtherTables DEF UpdateWorkspaceRow
  <2>2. CASE InsertProject(r)
    <3>1. NoOrphanRows' /\ nextId' >= nextId
      BY <2>2 DEF InsertProject, Owned, NoOrphanRows, Live, TypeOK
    <3> QED  BY <2>2, <3>1, OtherTables DEF InsertProject
  <2>3. CASE InsertLabel(r)
    <3>1. NoOrphanRows' /\ nextId' >= nextId
      BY <2>3 DEF InsertLabel, Owned, NoOrphanRows, Live, TypeOK
    <3> QED  BY <2>3, <3>1, OtherTables DEF InsertLabel
  <2> QED  BY <2>1, <2>2, <2>3, DeleteWorkspaceOwned, InsertMemberOwned,
              UpdateMemberOwned, DeleteMemberOwned
<1>2. req[r].pc # "idle"
  BY DEF UpdateWorkspaceRow, DeleteWorkspaceRow, InsertMember, UpdateMemberRow,
         DeleteMemberRow, InsertProject, InsertLabel, At
<1>3. (\E c : Answer(r, c)) \/ (\E row : Reload(r, row))
  BY DEF UpdateWorkspaceRow, DeleteWorkspaceRow, InsertMember, UpdateMemberRow,
         DeleteMemberRow, InsertProject, InsertLabel
<1> QED  BY <1>1, <1>2, <1>3, OtherHolds

LEMMA InsertWorkspaceHolds ==
    ASSUME TypeOK, TypeOK', Owned, SnapshotsHold, NEW r \in Requests,
           InsertWorkspace(r)
    PROVE  Owned' /\ SnapshotsHold'
<1>1. Owned' /\ KeepsSnapshots
  BY CreateWorkspaceOwned
<1>2. PICK w \in WorkspaceIds :
         req' = [req EXCEPT ![r] =
            Accepted("reload", "create_workspace", Null, w, Null, Null)]
  BY DEF InsertWorkspace
<1>3. HoldsSnapshots(
         Accepted("reload", "create_workspace", Null, w, Null, Null))
  BY DEF HoldsSnapshots, Accepted
<1> QED  BY <1>1, <1>2, <1>3, OneHolder

LEMMA ServeOwned ==
    ASSUME TypeOK, TypeOK', Owned, SnapshotsHold, NEW r \in Requests, Serve(r)
    PROVE  Owned' /\ SnapshotsHold'
<1>1. CASE create_workspace(r)
  BY <1>1, InsertWorkspaceHolds, ReaderHolds DEF create_workspace
<1>2. CASE update_workspace(r)
  BY <1>2, DependencyHolds, ReaderHolds, WriterHolds
     DEF update_workspace, Routes
<1>3. CASE delete_workspace(r)
  BY <1>3, DependencyHolds, ReaderHolds, WriterHolds
     DEF delete_workspace, Routes
<1>4. CASE add_workspace_member(r)
  BY <1>4, DependencyHolds, ReaderHolds, WriterHolds
     DEF add_workspace_member, Routes
<1>5. CASE update_workspace_member_role(r)
  BY <1>5, DependencyHolds, LoadMemberHolds, ReaderHolds, WriterHolds
     DEF update_workspace_member_role, Routes
<1>6. CASE remove_workspace_member(r)
  BY <1>6, DependencyHolds, LoadMemberHolds, WriterHolds
     DEF remove_workspace_member, Routes
<1>7. CASE create_workspace_project(r)
  BY <1>7, DependencyHolds, ReaderHolds, WriterHolds
     DEF create_workspace_project, Routes
<1>8. CASE create_workspace_label(r)
  BY <1>8, DependencyHolds, ReaderHolds, WriterHolds
     DEF create_workspace_label, Routes
<1> QED  BY <1>1, <1>2, <1>3, <1>4, <1>5, <1>6, <1>7, <1>8 DEF Serve

\* OwnershipInv, the inductive invariant, holds in every reachable state.
THEOREM Ownership == Spec => []OwnershipInv
<1>1. Init => OwnershipInv
  BY DEF Init, OwnershipInv, LiveWasBorn, NoOrphanRows, RowIdsGivenOnce,
         OneRolePerMember, OwnerStaysOwner, SnapshotsHold, HoldsSnapshots,
         Live, NoRequest
<1>2. TypeOK /\ TypeOK' /\ OwnershipInv /\ [Next]_vars => OwnershipInv'
  <2> SUFFICES ASSUME TypeOK, TypeOK', Owned, SnapshotsHold, [Next]_vars
               PROVE  Owned' /\ SnapshotsHold'
    BY DEF OwnershipInv, Owned
  <2>1. CASE Next
    BY <2>1, ServeOwned DEF Next
  <2>2. CASE UNCHANGED vars
    <3>1. Owned' /\ KeepsSnapshots
      BY <2>2, ReadOnly DEF vars
    <3>2. SnapshotsHold'
      BY <2>2 DEF vars, tables, SnapshotsHold, HoldsSnapshots, Snapshot
    <3> QED  BY <3>1, <3>2
  <2> QED  BY <2>1, <2>2
<1> QED  BY <1>1, <1>2, TypeCorrect, PTL DEF Spec

\* The owner of a workspace keeps the role OWNER in it, whatever number of
\* requests interleave.
THEOREM OwnerKeepsRole == Spec => []OwnerStaysOwner
<1>1. OwnershipInv => OwnerStaysOwner
  BY DEF OwnershipInv
<1> QED  BY <1>1, Ownership, PTL

\* A user has at most one role in a workspace.
THEOREM OneRole == Spec => []OneRolePerMember
<1>1. OwnershipInv => OneRolePerMember
  BY DEF OwnershipInv
<1> QED  BY <1>1, Ownership, PTL

\* No member, project or label outlives its workspace.
THEOREM NoOrphans == Spec => []NoOrphanRows
<1>1. OwnershipInv => NoOrphanRows
  BY DEF OwnershipInv
<1> QED  BY <1>1, Ownership, PTL
-------------------------------------------------------------------------------
(***************************************************************************)
(* What holds only while certain requests stay out of each other's way.    *)
(* LabelNamesUnique and OwnerRoleKept are broken by two requests that both *)
(* passed their checks; the theorems say which two, and that nothing else  *)
(* breaks them.                                                            *)
(***************************************************************************)
RoleOps == {"update_role", "remove_member"}

Busy(r, ops) == req[r].pc # "idle" /\ req[r].op \in ops

\* No two requests at a time create labels of one workspace whose names differ
\* at most in case.
LabellersApart ==
    \A r, x \in Requests :
        /\ Busy(r, {"create_label"}) /\ Busy(x, {"create_label"})
        /\ req[r].id = req[x].id /\ lower(req[r].arg) = lower(req[x].arg)
        => r = x

\* While a role is being changed no other request changes a role or removes a
\* member; removals may overlap.
RoleChangesAlone ==
    \A r, x \in Requests :
        Busy(r, {"update_role"}) /\ Busy(x, RoleOps) => r = x

\* The comparison at the head of create_workspace_label still holds when the
\* label is inserted.
NameStillFree(q) ==
    q.pc = "write" /\ q.op = "create_label" => ~LabelNameTaken(q.id, q.arg)

LabelsInv == LabelNamesUnique /\ \A r \in Requests : NameStillFree(req[r])

\* The row s is not out of date.
UpToDate(s) == \A m \in members : m.id = s.id => m = s

\* The row a member route decides on, and then writes, is not out of date.
RowsUpToDate(q) ==
    q.op \in RoleOps => /\ q.pc = "load" => UpToDate(q.me)
                        /\ q.pc = "write" => UpToDate(q.row)

RolesInv == \A r \in Requests : RowsUpToDate(req[r])

\* What the role dependency starts a handler with.
Begins(q) ==
    \E op \in Ops, m \in members, first \in {"load", "write"} : \E w, t, a :
        /\ first = "write" => op = "create_project"
        /\ q = Accepted(first, op, m, w, t, a)

\* The steps that only read.
Looks(r) ==
    \/ \E op \in Ops, role \in ResourceRole, first \in {"load", "write"} :
          /\ first = "write" => op = "create_project"
          /\ require_workspace_role(r, op, role, first)
    \/ \E op \in {"update_workspace", "delete_workspace"} : LoadWorkspace(r, op)
    \/ CheckNewMember(r)
    \/ \E op \in RoleOps : LoadMember(r, op)
    \/ CheckLabel(r)
    \/ \E code : RefreshWorkspace(r, "create_workspace", code)
    \/ \E code : RefreshWorkspace(r, "update_workspace", code)
    \/ \E code : ReloadMember(r, "add_member", code)
    \/ \E code : ReloadMember(r, "update_role", code)
    \/ RefreshProject(r)
    \/ RefreshLabel(r)

\* The steps that write a table.
Commits(r) ==
    \/ InsertWorkspace(r)
    \/ UpdateWorkspaceRow(r)
    \/ DeleteWorkspaceRow(r)
    \/ InsertMember(r)
    \/ UpdateMemberRow(r)
    \/ DeleteMemberRow(r)
    \/ InsertProject(r)
    \/ InsertLabel(r)

LEMMA LooksOrCommits ==
    ASSUME NEW r \in Requests, Serve(r) PROVE Looks(r) \/ Commits(r)
<1>1. \A op, role, first : require_workspace_role(r, op, role, first)
         => op \in Ops
  BY DEF require_workspace_role
<1>2. {"VIEWER", "EDITOR", "ADMIN", "OWNER"} \subseteq ResourceRole
  BY DEF ResourceRole
<1>3. CASE create_workspace(r) \/ update_workspace(r) \/ delete_workspace(r)
  BY <1>1, <1>2, <1>3 DEF create_workspace, update_workspace,
     delete_workspace, Looks, Commits
<1>4. CASE add_workspace_member(r) \/ update_workspace_member_role(r)
           \/ remove_workspace_member(r)
  BY <1>1, <1>2, <1>4 DEF add_workspace_member, remove_workspace_member,
     update_workspace_member_role, Looks, Commits, RoleOps
<1>5. CASE create_workspace_project(r) \/ create_workspace_label(r)
  BY <1>1, <1>2, <1>5 DEF create_workspace_project, create_workspace_label,
     Looks, Commits
<1> QED  BY <1>3, <1>4, <1>5 DEF Serve

\* What a writing step leaves of its own request: an answer, or the reload.
LEMMA CommitsEnd ==
    ASSUME TypeOK, NEW r \in Requests, Commits(r)
    PROVE  /\ req'[r].pc \in {"idle", "reload"}
           /\ \A x \in Requests : x # r => req'[x] = req[x]
<1>1. req \in [Requests -> Request]
  BY DEF TypeOK
<1>2. \/ \E c : Answer(r, c)
      \/ \E row : Reload(r, row)
      \/ \E w : req' = [req EXCEPT ![r] =
                   Accepted("reload", "create_workspace", Null, w, Null, Null)]
  BY DEF Commits, InsertWorkspace, UpdateWorkspaceRow, DeleteWorkspaceRow,
         InsertMember, UpdateMemberRow, DeleteMemberRow, InsertProject,
         InsertLabel
<1> QED  BY <1>1, <1>2 DEF Answer, Reload, Continue, Accepted, NoRequest, Request

\* What a reading step leaves.
LEMMA LooksGoesOn ==
    ASSUME TypeOK, NEW r \in Requests, Looks(r)
    PROVE  /\ UNCHANGED tables
           /\ \A x \in Requests : x # r => req'[x] = req[x]
           /\ \/ req'[r].pc = "idle"
              \/ Begins(req'[r])
              \/ /\ req'[r].op = req[r].op
                 /\ \/ req[r].op \notin RoleOps \cup {"create_label"}
                    \/ CheckLabel(r)
                    \/ \E op \in RoleOps : LoadMember(r, op)
<1>1. req \in [Requests -> Request]
  BY DEF TypeOK
<1>2. UNCHANGED tables
  BY DEF Looks, require_workspace_role, LoadWorkspace, CheckNewMember,
         LoadMember, CheckLabel, RefreshWorkspace, ReloadMember,
         RefreshProject, RefreshLabel
<1>3. CASE \E c : Answer(r, c)
  BY <1>1, <1>2, <1>3 DEF Answer, NoRequest
<1>4. CASE \E q : Begins(q) /\ req' = [req EXCEPT ![r] = q]
  BY <1>1, <1>2, <1>4
<1>5. CASE \E row : /\ Continue(r, "write", row)
                    /\ \/ req[r].op \notin RoleOps \cup {"create_label"}
                       \/ CheckLabel(r)
                       \/ \E op \in RoleOps : LoadMember(r, op)
  BY <1>1, <1>2, <1>5 DEF Continue, Request
<1>6. CASE \E op \in Ops, role \in ResourceRole, first \in {"load", "write"} :
              /\ first = "write" => op = "create_project"
              /\ require_workspace_role(r, op, role, first)
  <2>1. PICK op \in Ops, role \in ResourceRole, first \in {"load", "write"} :
              /\ first = "write" => op = "create_project"
              /\ require_workspace_role(r, op, role, first)
    BY <1>6
  <2>2. \/ \E c : Answer(r, c)
        \/ \E m \in members : \E w, t, a :
              req' = [req EXCEPT ![r] = Accepted(first, op, m, w, t, a)]
    BY <2>1 DEF require_workspace_role, get_member
  <2>3. \A m \in members : \A w, t, a : Begins(Accepted(first, op, m, w, t, a))
    BY <2>1 DEF Begins
  <2> QED  BY <1>3, <1>4, <2>2, <2>3
<1>7. CASE \/ \E op \in {"update_workspace", "delete_workspace"} :
                 LoadWorkspace(r, op)
           \/ CheckNewMember(r)
           \/ CheckLabel(r)
           \/ \E op \in RoleOps : LoadMember(r, op)
  BY <1>3, <1>5, <1>7 DEF LoadWorkspace, CheckNewMember, CheckLabel,
     LoadMember, At, RoleOps
<1> QED  BY <1>3, <1>6, <1>7 DEF Looks, RefreshWorkspace, ReloadMember,
            RefreshProject, RefreshLabel, AnswerReloaded
-------------------------------------------------------------------------------
(***************************************************************************)
(* Label names.                                                            *)
(***************************************************************************)
\* Labels are only taken away, and the request of r is not about to insert one
\* whose name is taken.
LEMMA FewerLabels ==
    ASSUME LabelsInv, NEW r \in Requests, labels' \subseteq labels,
           \A x \in Requests : x # r => req'[x] = req[x],
           NameStillFree(req'[r])
    PROVE  LabelsInv'
<1>1. LabelNamesUnique'
  BY DEF LabelsInv, LabelNamesUnique
<1>2. ASSUME NEW x \in Requests PROVE NameStillFree(req[x])'
  <2>1. NameStillFree(req'[x])
    BY DEF LabelsInv
  <2> QED  BY <2>1 DEF NameStillFree, LabelNameTaken
<1> QED  BY <1>1, <1>2 DEF LabelsInv

LEMMA LooksKeepsLabels ==
    ASSUME TypeOK, LabelsInv, NEW r \in Requests, Looks(r)
    PROVE  LabelsInv'
<1>1. NameStillFree(req'[r])
  <2>1. CASE Begins(req'[r])
    BY <2>1 DEF Begins, Accepted, NameStillFree
  <2>2. CASE CheckLabel(r)
    <3>1. CASE LabelNameTaken(req[r].id, req[r].arg)
      BY <2>2, <3>1 DEF CheckLabel, Answer, NoRequest, NameStillFree, TypeOK
    <3>2. CASE ~LabelNameTaken(req[r].id, req[r].arg)
      <4>1. req[r] \in Request /\ Continue(r, "write", Null)
        BY <2>2, <3>2 DEF CheckLabel, TypeOK
      <4>2. req'[r].id = req[r].id /\ req'[r].arg = req[r].arg
        BY <4>1 DEF Continue, Request, TypeOK
      <4> QED  BY <3>2, <4>2 DEF NameStillFree
    <3> QED  BY <3>1, <3>2
  <2>3. CASE req'[r].op = req[r].op /\ req[r].op # "create_label"
    BY <2>3 DEF NameStillFree
  <2>4. CASE req'[r].pc = "idle"
    BY <2>4 DEF NameStillFree
  <2>5. \A op \in RoleOps : LoadMember(r, op) => req[r].op # "create_label"
    BY DEF LoadMember, At, RoleOps
  <2> QED  BY <2>1, <2>2, <2>3, <2>4, <2>5, LooksGoesOn
<1> QED  BY <1>1, LooksGoesOn, FewerLabels DEF tables

\* The one step that adds a label: the other requests that are about to add one
\* have other names in hand, or another workspace.
LEMMA InsertLabelKeepsLabels ==
    ASSUME TypeOK, LabellersApart, LabelsInv, NEW r \in Requests,
           InsertLabel(r)
    PROVE  LabelsInv'
<1> DEFINE new == [workspace |-> req[r].id, name |-> req[r].arg]
<1>1. /\ req'[r].pc \in {"idle", "reload"}
      /\ \A x \in Requests : x # r => req'[x] = req[x]
  BY CommitsEnd DEF Commits
<1>2. labels' \subseteq labels \cup {new}
  BY DEF InsertLabel
<1>3. Busy(r, {"create_label"})
  BY DEF InsertLabel, At, Busy
<1>4. ~LabelNameTaken(req[r].id, req[r].arg)
  BY DEF InsertLabel, At, LabelsInv, NameStillFree
<1>5. LabelNamesUnique'
  <2>1. \A l \in labels : ~(/\ l.workspace = new.workspace
                            /\ lower(l.name) = lower(new.name))
    BY <1>4 DEF LabelNameTaken
  <2> HIDE DEF new
  <2> QED  BY <1>2, <2>1 DEF LabelsInv, LabelNamesUnique
<1>6. ASSUME NEW x \in Requests PROVE NameStillFree(req[x])'
  <2>1. CASE x = r
    BY <1>1, <2>1 DEF NameStillFree
  <2>2. CASE x # r /\ Busy(x, {"create_label"})
    <3>1. ~(/\ req[r].id = req[x].id
            /\ lower(req[r].arg) = lower(req[x].arg))
      BY <1>3, <2>2 DEF LabellersApart
    <3>2. NameStillFree(req[x])
      BY DEF LabelsInv
    <3> QED  BY <1>1, <1>2, <2>2, <3>1, <3>2 DEF NameStillFree, LabelNameTaken
  <2>3. CASE x # r /\ ~Busy(x, {"create_label"})
    BY <1>1, <2>3 DEF NameStillFree, Busy
  <2> QED  BY <2>1, <2>2, <2>3
<1> QED  BY <1>5, <1>6 DEF LabelsInv

LEMMA ServeKeepsLabels ==
    ASSUME TypeOK, LabellersApart, LabelsInv, NEW r \in Requests, Serve(r)
    PROVE  LabelsInv'
<1>1. CASE Looks(r)
  BY <1>1, LooksKeepsLabels
<1>2. CASE InsertLabel(r)
  BY <1>2, InsertLabelKeepsLabels
<1>3. CASE Commits(r) /\ ~InsertLabel(r)
  <2>1. labels' \subseteq labels
    BY <1>3 DEF Commits, InsertWorkspace, UpdateWorkspaceRow, InsertMember,
       DeleteWorkspaceRow, UpdateMemberRow, DeleteMemberRow, InsertProject,
       WithoutWorkspace
  <2>2. NameStillFree(req'[r])
    BY <1>3, CommitsEnd DEF NameStillFree
  <2> QED  BY <1>3, <2>1, <2>2, CommitsEnd, FewerLabels
<1> QED  BY <1>1, <1>2, <1>3, LooksOrCommits

\* As long as no two requests at a time create labels of one workspace whose
\* names differ at most in case, no two labels of a workspace do: the check at
\* the head of create_workspace_label is enough then, whatever number of other
\* requests interleave with it.
THEOREM LabelsUniqueUnlessRaced ==
    Spec /\ []LabellersApart => []LabelNamesUnique
<1>1. Init => LabelsInv
  BY DEF Init, LabelsInv, LabelNamesUnique, NameStillFree, NoRequest
<1>2. TypeOK /\ LabellersApart /\ LabelsInv /\ [Next]_vars => LabelsInv'
  <2> SUFFICES ASSUME TypeOK, LabellersApart, LabelsInv, [Next]_vars
               PROVE  LabelsInv'
    OBVIOUS
  <2>1. CASE Next
    BY <2>1, ServeKeepsLabels DEF Next
  <2>2. CASE UNCHANGED vars
    BY <2>2 DEF vars, tables, LabelsInv, LabelNamesUnique, NameStillFree,
                LabelNameTaken
  <2> QED  BY <2>1, <2>2
<1>3. LabelsInv => LabelNamesUnique
  BY DEF LabelsInv
<1> QED  BY <1>1, <1>2, <1>3, TypeCorrect, PTL DEF Spec
-------------------------------------------------------------------------------
(***************************************************************************)
(* The rows of the owners.                                                 *)
(***************************************************************************)
\* What a member route has in hand names a row id that was given already.
LEMMA HeldRows ==
    ASSUME TypeOK, SnapshotsHold, NEW x \in Requests, req[x].op \in RoleOps
    PROVE  /\ req[x].pc = "load" => req[x].me.id < nextId
           /\ req[x].pc = "write" => req[x].row.id < nextId
BY DEF SnapshotsHold, HoldsSnapshots, Snapshot, RoleOps

\* Rows may go, and rows with new ids may come, but none changes; and what the
\* request of r has in hand is up to date.
LEMMA RowsStay ==
    ASSUME TypeOK, SnapshotsHold, RolesInv, NEW r \in Requests,
           \A x \in Requests : x # r => req'[x] = req[x],
           \A m \in members' : m \in members \/ m.id = nextId,
           RowsUpToDate(req[r])'
    PROVE  RolesInv'
<1> SUFFICES ASSUME NEW x \in Requests, x # r PROVE RowsUpToDate(req[x])'
  BY DEF RolesInv
<1>1. req'[x] = req[x] /\ RowsUpToDate(req[x])
  BY DEF RolesInv
<1>2. nextId \in Nat /\ req[x] \in Request
  BY DEF TypeOK
<1>3. ASSUME req[x].op \in RoleOps, req[x].pc = "load"
      PROVE  UpToDate(req[x].me)'
  <2>1. req[x].me.id < nextId /\ UpToDate(req[x].me)
    BY <1>1, <1>3, HeldRows DEF RowsUpToDate
  <2>2. req[x].me.id # nextId
    BY <1>2, <1>3, <2>1 DEF TypeOK, InProgressOK, RoleOps, MemberRow
  <2> QED  BY <1>1, <2>1, <2>2 DEF UpToDate
<1>4. ASSUME req[x].op \in RoleOps, req[x].pc = "write"
      PROVE  UpToDate(req[x].row)'
  <2>1. req[x].row.id < nextId /\ UpToDate(req[x].row)
    BY <1>1, <1>4, HeldRows DEF RowsUpToDate
  <2>2. req[x].row.id # nextId
    BY <1>2, <1>4, <2>1 DEF TypeOK, InProgressOK, RowTypes, RoleOps, MemberRow
  <2> QED  BY <1>1, <2>1, <2>2 DEF UpToDate
<1> QED  BY <1>1, <1>3, <1>4 DEF RowsUpToDate

\* A row that was just read is up to date, and so is the copy the session has
\* of it.
LEMMA LooksKeepsRoles ==
    ASSUME TypeOK, Owned, SnapshotsHold, RolesInv, NEW r \in Requests, Looks(r)
    PROVE  RolesInv'
<1>1. \A m \in members : UpToDate(m)
  BY DEF Owned, RowIdsGivenOnce, UpToDate
<1>2. UNCHANGED tables
  BY LooksGoesOn
<1>3. RowsUpToDate(req'[r])
  <2>1. CASE Begins(req'[r])
    BY <1>1, <2>1 DEF Begins, Accepted, RowsUpToDate, RoleOps
  <2>2. CASE \E op \in RoleOps : LoadMember(r, op)
    <3>1. req[r].pc = "load" /\ req[r].op \in RoleOps
      BY <2>2 DEF LoadMember, At, RoleOps
    <3>2. UpToDate(req[r].me)
      BY <3>1 DEF RolesInv, RowsUpToDate
    <3>3. CASE \E c : Answer(r, c)
      BY <3>3 DEF Answer, NoRequest, RowsUpToDate, TypeOK, RoleOps
    <3>4. CASE \E m \in members : Continue(r, "write", Loaded(r, m))
      <4>1. PICK m \in members : Continue(r, "write", Loaded(r, m))
        BY <3>4
      <4>2. UpToDate(Loaded(r, m))
        BY <1>1, <3>2 DEF Loaded
      <4>3. req'[r].pc = "write" /\ req'[r].row = Loaded(r, m)
        BY <4>1 DEF Continue, TypeOK, Request
      <4> QED  BY <4>2, <4>3 DEF RowsUpToDate
    <3> QED  BY <2>2, <3>3, <3>4 DEF LoadMember, get_member
  <2>3. CASE req'[r].op = req[r].op /\ req[r].op \notin RoleOps
    BY <2>3 DEF RowsUpToDate
  <2>4. CASE req'[r].pc = "idle"
    BY <2>4 DEF RowsUpToDate
  <2>5. CheckLabel(r) => req[r].op \notin RoleOps
    BY DEF CheckLabel, At, RoleOps
  <2> QED  BY <2>1, <2>2, <2>3, <2>4, <2>5, LooksGoesOn
<1>4. RowsUpToDate(req[r])'
  BY <1>2, <1>3 DEF RowsUpToDate, UpToDate, tables
<1> QED  BY <1>2, <1>4, RowsStay, LooksGoesOn DEF tables

\* The step that rewrites a row: no other request has one in hand.
LEMMA UpdateKeepsRoles ==
    ASSUME TypeOK, RoleChangesAlone, NEW r \in Requests, UpdateMemberRow(r)
    PROVE  RolesInv'
<1>1. /\ req'[r].pc \in {"idle", "reload"}
      /\ \A x \in Requests : x # r => req'[x] = req[x]
  BY CommitsEnd DEF Commits
<1>2. Busy(r, {"update_role"})
  BY DEF UpdateMemberRow, At, Busy
<1>3. ASSUME NEW x \in Requests, x # r, req'[x].pc # "idle"
      PROVE  req'[x].op \notin RoleOps
  BY <1>1, <1>2, <1>3 DEF RoleChangesAlone, Busy
<1>4. ASSUME NEW x \in Requests PROVE RowsUpToDate(req[x])'
  BY <1>1, <1>3 DEF RowsUpToDate
<1> QED  BY <1>4 DEF RolesInv

LEMMA ServeKeepsRoles ==
    ASSUME TypeOK, Owned, SnapshotsHold, RoleChangesAlone, RolesInv,
           NEW r \in Requests, Serve(r)
    PROVE  RolesInv'
<1>1. CASE Looks(r)
  BY <1>1, LooksKeepsRoles
<1>2. CASE UpdateMemberRow(r)
  BY <1>2, UpdateKeepsRoles
<1>3. CASE Commits(r) /\ ~UpdateMemberRow(r)
  <2>1. \A m \in members' : m \in members \/ m.id = nextId
    BY <1>3 DEF Commits, InsertWorkspace, UpdateWorkspaceRow, InsertMember,
       DeleteWorkspaceRow, DeleteMemberRow, InsertProject, InsertLabel,
       WithoutWorkspace
  <2>2. RowsUpToDate(req[r])'
    BY <1>3, CommitsEnd DEF RowsUpToDate
  <2> QED  BY <1>3, <2>1, <2>2, CommitsEnd, RowsStay
<1> QED  BY <1>1, <1>2, <1>3, LooksOrCommits

\* The row a member route writes is not an OWNER's.
LEMMA WritesNoOwner ==
    ASSUME TypeOK, SnapshotsHold, RolesInv, NEW r \in Requests,
           req[r].pc = "write", req[r].op \in RoleOps,
           NEW m \in members, m.id = req[r].row.id
    PROVE  m.role # "OWNER"
<1>1. m = req[r].row
  BY DEF RolesInv, RowsUpToDate, UpToDate
<1>2. req[r].row.role # "OWNER"
  BY DEF SnapshotsHold, HoldsSnapshots, RoleOps
<1> QED  BY <1>1, <1>2

LEMMA ServeKeepsOwners ==
    ASSUME TypeOK, SnapshotsHold, RolesInv, NEW r \in Requests, Serve(r),
           NEW m \in members, m.role = "OWNER", owner_id'[m.workspace] # Null
    PROVE  m \in members'
<1>1. CASE UpdateMemberRow(r) \/ DeleteMemberRow(r)
  <2>1. m.id # req[r].row.id
    BY <1>1, WritesNoOwner DEF UpdateMemberRow, DeleteMemberRow, At, RoleOps
  <2> QED  BY <1>1, <2>1 DEF UpdateMemberRow, DeleteMemberRow
<1>2. CASE DeleteWorkspaceRow(r)
  <2>1. m.workspace # req[r].id
    BY <1>2 DEF DeleteWorkspaceRow, TypeOK, MemberRow
  <2> QED  BY <1>2, <2>1 DEF DeleteWorkspaceRow, WithoutWorkspace
<1>3. CASE /\ Commits(r) /\ ~UpdateMemberRow(r) /\ ~DeleteMemberRow(r)
           /\ ~DeleteWorkspaceRow(r)
  BY <1>3 DEF Commits, InsertWorkspace, UpdateWorkspaceRow, InsertMember,
     InsertProject, InsertLabel
<1>4. CASE Looks(r)
  BY <1>4, LooksGoesOn DEF tables
<1> QED  BY <1>1, <1>2, <1>3, <1>4, LooksOrCommits

\* As long as no other request changes a role or removes a member while a role
\* is being changed, no OWNER row is removed or loses its role before its
\* workspace is deleted: the check update_workspace_member_role and
\* remove_workspace_member make on the row they loaded is enough then.
THEOREM OwnersKeptUnlessRaced ==
    Spec /\ []RoleChangesAlone => OwnerRoleKept
<1>1. Init => RolesInv
  BY DEF Init, RolesInv, RowsUpToDate, NoRequest
<1>2. TypeOK /\ OwnershipInv /\ RoleChangesAlone /\ RolesInv /\ [Next]_vars
      => RolesInv'
  <2> SUFFICES ASSUME TypeOK, Owned, SnapshotsHold, RoleChangesAlone,
                      RolesInv, [Next]_vars
               PROVE  RolesInv'
    BY DEF OwnershipInv, Owned
  <2>1. CASE Next
    BY <2>1, ServeKeepsRoles DEF Next
  <2>2. CASE UNCHANGED vars
    BY <2>2 DEF vars, tables, RolesInv, RowsUpToDate, UpToDate
  <2> QED  BY <2>1, <2>2
<1>3. TypeOK /\ OwnershipInv /\ RolesInv /\ [Next]_vars
      => [\A m \in members : m.role = "OWNER" /\ owner_id'[m.workspace] # Null
                             => m \in members']_vars
  BY ServeKeepsOwners DEF Next, OwnershipInv
<1> QED  BY <1>1, <1>2, <1>3, TypeCorrect, Ownership, PTL
            DEF Spec, OwnerRoleKept
===============================================================================
