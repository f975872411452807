------------------------- MODULE WorkspacesRefinement -------------------------
(***************************************************************************)
(* The routes of Workspaces implement Membership: the role a user has is   *)
(* read off the member rows, and every other table and every request is    *)
(* hidden.                                                                 *)
(***************************************************************************)
EXTENDS Workspaces

role_of(w, u) ==
    IF get_member(w, u) = {} THEN Null
                             ELSE (CHOOSE m \in get_member(w, u) : TRUE).role

roles == [w \in WorkspaceIds |-> [u \in Users |-> role_of(w, u)]]

M == INSTANCE Membership WITH owner <- owner_id, role <- roles

\* Every step of every request is a step of Membership or leaves the owners and
\* the roles as they are.
ImplementsMembership == M!Spec
===============================================================================
