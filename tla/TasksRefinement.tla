---------------------------- MODULE TasksRefinement ----------------------------
(***************************************************************************)
(* The routes of Tasks implement Board: the projects are the rows there    *)
(* are, a task is its row without the columns a PATCH sets, and every      *)
(* request, role and mail is hidden.                                       *)
(***************************************************************************)
EXTENDS Tasks

open_projects == {p \in Projects : project[p] # Null}

identity_of(t) == [id |-> t.id, project |-> t.project, reporter |-> t.reporter]

reported == {identity_of(t) : t \in tasks}

B == INSTANCE Board WITH projects <- open_projects, tasks <- reported

\* Every step of every request, and everything that happens around them, is a
\* step of Board or leaves the hierarchy as it is: a handler that read its rows
\* long before it writes them neither moves a part, nor revives one, nor leaves
\* one behind.
ImplementsBoard == B!Spec
===============================================================================
