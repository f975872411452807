---------------------- MODULE WorkspacesRefinementProofs ----------------------
(***************************************************************************)
(* Workspaces implements Membership.  The inductive invariant of           *)
(* WorkspacesProofs is what makes the steps map: the rows that update_role *)
(* and remove_member write are never an owner's.                           *)
(***************************************************************************)
EXTENDS WorkspacesRefinement, WorkspacesProofs

LEMMA RoleOfRow ==
    ASSUME OneRolePerMember, NEW m \in members
    PROVE  role_of(m.workspace, m.user) = m.role
<1>1. get_member(m.workspace, m.user) = {m}
  BY DEF OneRolePerMember, get_member
<1> QED  BY <1>1 DEF role_of

LEMMA RoleOfRowAfter ==
    ASSUME OneRolePerMember', NEW m \in members'
    PROVE  role_of(m.workspace, m.user)' = m.role
<1>1. get_member(m.workspace, m.user)' = {m}
  BY DEF OneRolePerMember, get_member
<1> QED  BY <1>1 DEF role_of

\* The role of a user changes only if one of his rows does.
LEMMA RoleKept ==
    ASSUME NEW w, NEW u,
           \A m : m.workspace = w /\ m.user = u => (m \in members <=> m \in members')
    PROVE  role_of(w, u)' = role_of(w, u)
<1>1. get_member(w, u)' = get_member(w, u)
  BY DEF get_member
<1> QED  BY <1>1 DEF role_of

\* One entry of the role table is set.
LEMMA OneEntry ==
    ASSUME NEW w \in WorkspaceIds, NEW u \in Users, NEW x,
           \A v \in WorkspaceIds, y \in Users :
              role_of(v, y)' = IF v = w /\ y = u THEN x ELSE role_of(v, y)
    PROVE  roles' = [roles EXCEPT ![w][u] = x]
BY DEF roles

LEMMA SameRoles ==
    ASSUME UNCHANGED members PROVE UNCHANGED roles
BY DEF roles, role_of, get_member

LEMMA FoundStep ==
    ASSUME TypeOK, TypeOK', Owned, Owned', NEW r \in Requests, InsertWorkspace(r)
    PROVE  \E w \in WorkspaceIds, u \in Users : M!Found(w, u)
<1> PICK u \in Users, w \in WorkspaceIds \ born :
      /\ owner_id' = [owner_id EXCEPT ![w] = u]
      /\ members' = members \cup {[id |-> nextId, workspace |-> w,
                                   user |-> u, role |-> "OWNER"]}
  BY DEF InsertWorkspace
<1> DEFINE new == [id |-> nextId, workspace |-> w, user |-> u, role |-> "OWNER"]
<1>1. owner_id[w] = Null
  BY DEF Owned, LiveWasBorn, Live
<1>2. new \in members' /\ new.workspace = w /\ new.user = u /\ new.role = "OWNER"
  OBVIOUS
<1>3. role_of(w, u)' = "OWNER"
  BY <1>2, RoleOfRowAfter DEF Owned
<1>4. ASSUME NEW v \in WorkspaceIds, NEW y \in Users, ~(v = w /\ y = u)
      PROVE  role_of(v, y)' = role_of(v, y)
  BY <1>2, <1>4, RoleKept
<1>5. roles' = [roles EXCEPT ![w][u] = "OWNER"]
  BY <1>3, <1>4, OneEntry
<1> QED  BY <1>1, <1>5 DEF M!Found

LEMMA AdmitStep ==
    ASSUME TypeOK, TypeOK', Owned, Owned', NEW r \in Requests, InsertMember(r),
           members' # members
    PROVE  \E w \in WorkspaceIds, u \in Users, x \in ResourceRole : M!Admit(w, u, x)
<1> PICK w, u, x : w = req[r].id /\ u = req[r].target /\ x = req[r].arg
  OBVIOUS
<1> DEFINE new == [id |-> nextId, workspace |-> w, user |-> u, role |-> x]
<1>1. /\ Live(w) /\ u \in Users /\ get_member(w, u) = {}
      /\ members' = members \cup {new}
      /\ UNCHANGED owner_id
  BY DEF InsertMember, MemberKeyFree
<1>2. w \in WorkspaceIds /\ x \in ResourceRole
  BY DEF InsertMember, At, TypeOK, InProgressOK, Payload
<1>3. new \in members' /\ new.workspace = w /\ new.user = u /\ new.role = x
  BY <1>1
<1>4. role_of(w, u)' = x
  BY <1>3, RoleOfRowAfter DEF Owned
<1>5. ASSUME NEW v \in WorkspaceIds, NEW y \in Users, ~(v = w /\ y = u)
      PROVE  role_of(v, y)' = role_of(v, y)
  BY <1>1, <1>3, <1>5, RoleKept
<1>6. roles' = [roles EXCEPT ![w][u] = x]
  BY <1>1, <1>2, <1>4, <1>5, OneEntry
<1>7. roles[w][u] = Null
  BY <1>1, <1>2 DEF roles, role_of
<1> QED  BY <1>1, <1>2, <1>6, <1>7 DEF M!Admit, Live

LEMMA AssignStep ==
    ASSUME TypeOK, TypeOK', Owned, Owned', SnapshotsHold, NEW r \in Requests,
           UpdateMemberRow(r), members' # members
    PROVE  \E w \in WorkspaceIds, u \in Users, x \in ResourceRole : M!Assign(w, u, x)
<1> DEFINE old == req[r].row
           x == req[r].arg
           hit == {m \in members : m.id = old.id}
           new == [old EXCEPT !.role = x]
<1>1. /\ hit # {} /\ members' = (members \ hit) \cup {new}
      /\ UNCHANGED owner_id
  BY DEF UpdateMemberRow
<1>2. PICK h \in members : h.id = old.id
  BY <1>1
<1>3. /\ old \in MemberRow
      /\ h.workspace = old.workspace /\ h.user = old.user
      /\ h.user # owner_id[h.workspace]
  BY <1>2, WrittenRow DEF UpdateMemberRow, At
<1>4. x \in ResourceRole
  BY DEF UpdateMemberRow, At, TypeOK, InProgressOK, Payload
<1> DEFINE w == h.workspace
           u == h.user
<1>5. w \in WorkspaceIds /\ u \in Users /\ h.role \in ResourceRole
  BY DEF TypeOK, MemberRow
<1>6. hit = {h}
  BY <1>2 DEF Owned, RowIdsGivenOnce
<1>7. new \in members' /\ new.workspace = w /\ new.user = u /\ new.role = x
  BY <1>1, <1>3 DEF MemberRow
<1>8. role_of(w, u)' = x
  BY <1>7, RoleOfRowAfter DEF Owned
<1>9. ASSUME NEW v \in WorkspaceIds, NEW y \in Users, ~(v = w /\ y = u)
      PROVE  role_of(v, y)' = role_of(v, y)
  <2> HIDE DEF new, hit
  <2> QED  BY <1>1, <1>6, <1>7, <1>9, RoleKept
<1>10. roles' = [roles EXCEPT ![w][u] = x]
  BY <1>5, <1>8, <1>9, OneEntry
<1>11. roles[w][u] # Null
  BY <1>5, RoleOfRow, ConstantsOK DEF roles, Owned
<1> QED  BY <1>1, <1>3, <1>4, <1>5, <1>10, <1>11 DEF M!Assign

LEMMA RevokeStep ==
    ASSUME TypeOK, TypeOK', Owned, Owned', SnapshotsHold, NEW r \in Requests,
           DeleteMemberRow(r), members' # members
    PROVE  \E w \in WorkspaceIds, u \in Users : M!Revoke(w, u)
<1> DEFINE hit == {m \in members : m.id = req[r].row.id}
<1>1. members' = members \ hit /\ UNCHANGED owner_id
  BY DEF DeleteMemberRow
<1>2. PICK h \in hit : TRUE
  BY <1>1
<1>3. h.user # owner_id[h.workspace]
  BY <1>2, WrittenRow DEF DeleteMemberRow, At
<1> DEFINE w == h.workspace
           u == h.user
<1>4. w \in WorkspaceIds /\ u \in Users
  BY <1>2 DEF TypeOK, MemberRow
<1>5. hit = {h}
  BY <1>2 DEF Owned, RowIdsGivenOnce
<1>6. get_member(w, u)' = {}
  BY <1>1, <1>2, <1>5 DEF get_member, Owned, OneRolePerMember
<1>7. role_of(w, u)' = Null
  BY <1>6 DEF role_of
<1>8. ASSUME NEW v \in WorkspaceIds, NEW y \in Users, ~(v = w /\ y = u)
      PROVE  role_of(v, y)' = role_of(v, y)
  <2> HIDE DEF hit
  <2> QED  BY <1>1, <1>5, <1>8, RoleKept
<1>9. roles' = [roles EXCEPT ![w][u] = Null]
  BY <1>4, <1>7, <1>8, OneEntry
<1> QED  BY <1>1, <1>3, <1>4, <1>9 DEF M!Revoke

LEMMA DissolveStep ==
    ASSUME TypeOK, NEW r \in Requests, DeleteWorkspaceRow(r)
    PROVE  \E w \in WorkspaceIds : M!Dissolve(w)
<1> PICK w : w = req[r].id
  OBVIOUS
<1>1. w \in WorkspaceIds
  BY DEF DeleteWorkspaceRow, At, TypeOK, InProgressOK
<1>2. /\ owner_id' = [owner_id EXCEPT ![w] = Null]
      /\ members' = {m \in members : m.workspace # w}
  BY DEF DeleteWorkspaceRow, WithoutWorkspace
<1>3. \A y \in Users : role_of(w, y)' = Null
  BY <1>2 DEF role_of, get_member
<1>4. ASSUME NEW v \in WorkspaceIds, NEW y \in Users, v # w
      PROVE  role_of(v, y)' = role_of(v, y)
  BY <1>2, <1>4, RoleKept
<1>5. roles' = [roles EXCEPT ![w] = [y \in Users |-> Null]]
  BY <1>1, <1>3, <1>4 DEF roles
<1> QED  BY <1>1, <1>2, <1>5 DEF M!Dissolve

\* Every step a request takes is a step of Membership or hidden from it.
LEMMA ServeMaps ==
    ASSUME TypeOK, TypeOK', Owned, Owned', SnapshotsHold, NEW r \in Requests,
           Serve(r)
    PROVE  [M!Next]_(M!vars)
<1>1. CASE UNCHANGED <<owner_id, members>>
  BY <1>1, SameRoles DEF M!vars
<1>2. CASE ~UNCHANGED <<owner_id, members>>
  <2>1. \/ InsertWorkspace(r) \/ DeleteWorkspaceRow(r)
        \/ /\ InsertMember(r) \/ UpdateMemberRow(r) \/ DeleteMemberRow(r)
           /\ members' # members
    BY <1>2 DEF Serve, create_workspace, update_workspace, delete_workspace,
       add_workspace_member, update_workspace_member_role,
       remove_workspace_member, create_workspace_project,
       create_workspace_label, require_workspace_role, LoadWorkspace,
       RefreshWorkspace, UpdateWorkspaceRow, CheckNewMember, ReloadMember,
       LoadMember, InsertProject, RefreshProject, CheckLabel, InsertLabel,
       RefreshLabel, InsertMember, UpdateMemberRow, DeleteMemberRow, tables
  <2> QED  BY <2>1, FoundStep, AdmitStep, AssignStep, RevokeStep,
              DissolveStep DEF M!Next
<1> QED  BY <1>1, <1>2

\* The member routes implement the abstract specification of membership: one
\* owner for life, one role per user, and an owner's role beyond reach.
THEOREM Refinement == Spec => ImplementsMembership
<1>1. Init => M!Init
  BY DEF Init, M!Init, roles, role_of, get_member
<1>2. /\ TypeOK /\ TypeOK' /\ OwnershipInv /\ OwnershipInv'
      /\ [Next]_vars
      => [M!Next]_(M!vars)
  <2> SUFFICES ASSUME TypeOK, TypeOK', Owned, Owned', SnapshotsHold, [Next]_vars
               PROVE  [M!Next]_(M!vars)
    BY DEF OwnershipInv, Owned
  <2>1. CASE Next
    BY <2>1, ServeMaps DEF Next
  <2>2. CASE UNCHANGED vars
    BY <2>2, SameRoles DEF vars, tables, M!vars
  <2> QED  BY <2>1, <2>2
<1> QED  BY <1>1, <1>2, TypeCorrect, Ownership, PTL
            DEF Spec, ImplementsMembership, M!Spec
===============================================================================
