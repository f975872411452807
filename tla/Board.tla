--------------------------------- MODULE Board ---------------------------------
(***************************************************************************)
(* What the project and task routes promise, without requests, sessions    *)
(* or the columns a PATCH may change: a hierarchy in which every part      *)
(* comes into being under what it belongs to, never moves, and goes by     *)
(* its own deletion or, in the same instant, with what it belongs to.      *)
(***************************************************************************)
EXTENDS Naturals

CONSTANTS Users, Workspaces, Projects, Labels, Home

VARIABLES workspaces,   \* the workspaces there are
          projects,     \* the projects there are
          labels,       \* the labels there are
          tasks,        \* the tasks: an id, a project, who reported it
          comments,     \* the comments: an id, a task, an author
          attachments,  \* the attached labels: an id, a task, a label
          nextId        \* no id is given twice

parts == <<comments, attachments>>
containers == <<workspaces, projects, labels>>
vars == <<containers, tasks, parts, nextId>>

Init ==
    /\ workspaces = Workspaces
    /\ projects = Projects
    /\ labels = Labels
    /\ tasks = {}
    /\ comments = {}
    /\ attachments = {}
    /\ nextId = 0

Identified == nextId' = nextId + 1

\* The tasks gone are deleted, and their comments and attachments with them.
Without(gone) ==
    LET ids == {t.id : t \in gone} IN
    /\ tasks' = tasks \ gone
    /\ comments' = {c \in comments : c.task \notin ids}
    /\ attachments' = {a \in attachments : a.task \notin ids}

Report(p, u) ==
    /\ p \in projects
    /\ tasks' = tasks \cup {[id |-> nextId, project |-> p, reporter |-> u]}
    /\ Identified
    /\ UNCHANGED <<containers, parts>>

Remove(t) ==
    /\ t \in tasks
    /\ Without({t})
    /\ UNCHANGED <<containers, nextId>>

Comment(t, u) ==
    /\ t \in tasks
    /\ comments' = comments \cup {[id |-> nextId, task |-> t.id, author |-> u]}
    /\ Identified
    /\ UNCHANGED <<containers, tasks, attachments>>

Uncomment(c) ==
    /\ c \in comments
    /\ comments' = comments \ {c}
    /\ UNCHANGED <<containers, tasks, attachments, nextId>>

\* Once, and only a label of the task's workspace.
Attach(t, l) ==
    /\ t \in tasks /\ l \in labels
    /\ Home[l] = Home[t.project]
    /\ \A a \in attachments : a.task = t.id => a.label # l
    /\ attachments' = attachments \cup
                         {[id |-> nextId, task |-> t.id, label |-> l]}
    /\ Identified
    /\ UNCHANGED <<containers, tasks, comments>>

Detach(a) ==
    /\ a \in attachments
    /\ attachments' = attachments \ {a}
    /\ UNCHANGED <<containers, tasks, comments, nextId>>

Close(p) ==
    /\ p \in projects
    /\ projects' = projects \ {p}
    /\ Without({t \in tasks : t.project = p})
    /\ UNCHANGED <<workspaces, labels, nextId>>

Dissolve(w) ==
    /\ w \in workspaces
    /\ workspaces' = workspaces \ {w}
    /\ projects' = {p \in projects : Home[p] # w}
    /\ labels' = {l \in labels : Home[l] # w}
    /\ Without({t \in tasks : Home[t.project] = w})
    /\ UNCHANGED nextId

Next ==
    \/ \E p \in projects : Close(p) \/ \E u \in Users : Report(p, u)
    \/ \E t \in tasks :
          \/ Remove(t)
          \/ \E u \in Users : Comment(t, u)
          \/ \E l \in labels : Attach(t, l)
    \/ \E c \in comments : Uncomment(c)
    \/ \E a \in attachments : Detach(a)
    \/ \E w \in workspaces : Dissolve(w)

Spec == Init /\ [][Next]_vars
===============================================================================
