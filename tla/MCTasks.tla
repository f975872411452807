-------------------------------- MODULE MCTasks -------------------------------
(***************************************************************************)
(* Instances of Tasks for TLC.                                             *)
(***************************************************************************)
EXTENDS TasksRefinement, TLC

CONSTANTS u1, u2, ghost, w1, w2, p1, l1, l2, c1, c2, q1, q2

Homes == p1 :> w1 @@ l1 :> w1 @@ l2 :> w2

\* u1 administers w1, u2 looks on in w2.
Roles == {<<w1, u1, "ADMIN">>, <<w2, u2, "VIEWER">>}

\* Routes that write the same rows are used together.
Themes ==
    {{"create_project_task", "update_task", "delete_project"},
     {"create_project_task", "delete_task", "attach_label_to_task",
      "detach_label_from_task", "delete_workspace"},
     {"create_project_task", "delete_task", "delete_project",
      "create_task_comment", "delete_comment"},
     {"create_project_task", "delete_task", "delete_comment",
      "create_task_comment", "update_workspace_member_role"},
     {"update_project", "archive_project", "delete_project",
      "update_workspace_member_role", "delete_workspace"}}
Patches == {{"create_project_task", "update_task"}}

\* The answer given last is read by no action: states that differ in nothing
\* else are one state.
InProgress == <<tables, mail, [r \in Requests |->
                                 IF req[r].pc = "idle" THEN Null ELSE req[r]]>>

Symmetry == Permutations({c1, c2}) \cup Permutations({q1, q2})
===============================================================================
