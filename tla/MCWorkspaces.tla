----------------------------- MODULE MCWorkspaces -----------------------------
(***************************************************************************)
(* Instances of Workspaces for TLC.                                        *)
(***************************************************************************)
EXTENDS WorkspacesRefinement, TLC

CONSTANTS u1, u2, u3, ghost, w1, w2, q1, q2,
          small, capital

TwoUsers == {u1, u2}
ThreeUsers == {u1, u2, u3}
TwoIds == {u1, u2, ghost}
ThreeIds == {u1, u2, u3, ghost}

\* Spellings of one name, and names of one spelling.
OneName == {small}
TwoSpellings == {small, capital}
Lowered1 == small :> small
Lowered2 == small :> small @@ capital :> small

AllRoutes == Routes
LabelRoutes == {"create_workspace", "create_label"}
RoleRoutes == {"create_workspace", "add_member", "update_role"}

\* The answer given last is read by no action: states that differ in nothing
\* else are one state.
InProgress == <<tables, [r \in Requests |->
                           IF req[r].pc = "idle" THEN Null ELSE req[r]]>>

Users2 == Permutations(TwoUsers)
Requests2 == Permutations({q1, q2})
RequestsUsers2 == Requests2 \cup Permutations(TwoUsers)
RequestsUsers3 == Requests2 \cup Permutations(ThreeUsers)
===============================================================================
