--------------------------------- MODULE Rbac ---------------------------------
(***************************************************************************)
(* The role hierarchy of src/core/rbac.py.                                 *)
(***************************************************************************)
EXTENDS Naturals

ResourceRole == {"OWNER", "ADMIN", "EDITOR", "VIEWER"}

ROLE_HIERARCHY == [OWNER |-> 40, ADMIN |-> 30, EDITOR |-> 20, VIEWER |-> 10]

\* A role outside the enumeration (the ValueError branch) grants nothing.
has_role_permission(user_role, required_role) ==
    /\ user_role \in ResourceRole
    /\ ROLE_HIERARCHY[user_role] >= ROLE_HIERARCHY[required_role]
===============================================================================
