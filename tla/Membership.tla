------------------------------ MODULE Membership ------------------------------
(***************************************************************************)
(* What the member routes promise, without requests or rows: a workspace   *)
(* has one owner for life, every user at most one role in it, and nothing  *)
(* but the deletion of the workspace takes the owner's role away.          *)
(***************************************************************************)
CONSTANTS Users, WorkspaceIds, ResourceRole, Null

VARIABLES owner,   \* owner[w]: the user who created workspace w, Null if none
          role     \* role[w][u]: the role of user u in workspace w, or Null

vars == <<owner, role>>

Init ==
    /\ owner = [w \in WorkspaceIds |-> Null]
    /\ role = [w \in WorkspaceIds |-> [u \in Users |-> Null]]

Found(w, u) ==
    /\ owner[w] = Null
    /\ owner' = [owner EXCEPT ![w] = u]
    /\ role' = [role EXCEPT ![w][u] = "OWNER"]

Admit(w, u, r) ==
    /\ owner[w] # Null
    /\ role[w][u] = Null
    /\ role' = [role EXCEPT ![w][u] = r]
    /\ UNCHANGED owner

Assign(w, u, r) ==
    /\ role[w][u] # Null
    /\ u # owner[w]
    /\ role' = [role EXCEPT ![w][u] = r]
    /\ UNCHANGED owner

Revoke(w, u) ==
    /\ u # owner[w]
    /\ role' = [role EXCEPT ![w][u] = Null]
    /\ UNCHANGED owner

Dissolve(w) ==
    /\ owner' = [owner EXCEPT ![w] = Null]
    /\ role' = [role EXCEPT ![w] = [u \in Users |-> Null]]

Next ==
    \E w \in WorkspaceIds :
        \/ Dissolve(w)
        \/ \E u \in Users :
              \/ Found(w, u)
              \/ Revoke(w, u)
              \/ \E r \in ResourceRole : Admit(w, u, r) \/ Assign(w, u, r)

Spec == Init /\ [][Next]_vars
===============================================================================
