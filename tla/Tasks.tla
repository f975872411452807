--------------------------------- MODULE Tasks ---------------------------------
(***************************************************************************)
(* The routes of src/api/v1/tasks.py and the writing routes of             *)
(* src/api/v1/projects.py: projects, tasks, comments, attached labels and  *)
(* the mails sent about assignments.                                       *)
(*                                                                         *)
(* As in Workspaces a request is a coroutine with a session of its own,    *)
(* cut at the statements it awaits, and a flush and its commit are one     *)
(* step.  What the task routes do to the Redis cache after a commit is in  *)
(* TaskCache; it reads and writes nothing of what is modelled here.        *)
(***************************************************************************)
EXTENDS Rbac

CONSTANTS Users,       \* the rows of the users table; none is ever deleted
          UserIds,     \* the user ids a payload may name
          Workspaces,  \* the workspaces there are at the beginning
          Projects,    \* their projects
          Labels,      \* their labels
          Home,        \* Home[x]: the workspace of project or label x
          Contents,    \* what the columns hold that no rule depends on
          Grants,      \* the roles <<workspace, user, role>> there may be
          Requests,    \* the requests in progress at one time
          RouteSets,   \* bound: the sets of routes that are used together
          MaxTasks,    \* bound: no task is begun after this many rows
          MaxRows,     \* bound: no other row is begun after this many rows
          Null         \* SQL NULL, None, an omitted field, or no row

TaskRoutes == {"update_task", "delete_task", "attach_label_to_task",
               "detach_label_from_task", "create_task_comment"}
ProjectRoutes == {"update_project", "archive_project", "delete_project",
                  "create_project_task"}
Patching == {"update_project", "archive_project"}
WorkspaceRoutes == {"update_workspace_member_role", "delete_workspace"}
Routes == TaskRoutes \cup ProjectRoutes \cup {"delete_comment"}
ASSUME ConstantsOK ==
    /\ Home \in [Projects \cup Labels -> Workspaces]
    /\ Grants \subseteq Workspaces \X Users \X ResourceRole
    /\ RouteSets \subseteq SUBSET (Routes \cup WorkspaceRoutes)
    /\ MaxTasks \in Nat /\ MaxRows \in Nat
    /\ Null \notin Users \cup UserIds \cup Workspaces \cup Projects \cup Labels
    /\ Null \notin Contents \cup Routes \cup ResourceRole
    /\ Null \notin BOOLEAN

VARIABLES inUse,        \* the routes that are used in this behaviour
          workspaces,   \* the workspaces that are left
          role,         \* role[w][u]: the role of u in w, or Null
          project,      \* project[p]: the row of project p, or Null
          labels,       \* the labels that are left
          tasks,        \* the rows of tasks
          comments,     \* the rows of comments
          attachments,  \* the rows of task_labels
          nextId,       \* the next fresh row id
          outbox,       \* the mails queued behind an answer
          owed,         \* history: the mails that committed assignments call for
          req           \* req[r]: the coroutine serving request r

rows == <<tasks, comments, attachments, nextId>>
tenancy == <<inUse, workspaces, role, project, labels>>
mail == <<outbox, owed>>
tables == <<tenancy, rows>>
vars == <<tables, mail, req>>

ProjectRow == [content : Contents, is_archived : BOOLEAN]
TaskRow == [id : Nat, project : Projects, reporter : Users,
            assignee : Users \cup {Null}, content : Contents]
CommentRow == [id : Nat, task : Nat, author : Users]
TaskLabel == [id : Nat, task : Nat, label : Labels]
Mail == [task : Nat, to : Users]
ASSUME RowsOK == Null \notin ProjectRow

\* The bodies of the requests; None and an omitted field are the same to the
\* handlers.
TaskUpdate == [content : Contents \cup {Null}, assignee : UserIds \cup {Null}]
TaskCreate == [content : Contents, assignee : UserIds \cup {Null}]
ProjectUpdate == [content : Contents \cup {Null},
                  is_archived : BOOLEAN \cup {Null}]
Payload(op) ==
    CASE op = "update_task" -> TaskUpdate
      [] op = "create_project_task" -> TaskCreate
      [] op = "update_project" -> ProjectUpdate
      [] op = "archive_project" -> {[content |-> Null, is_archived |-> TRUE]}
      [] op \in {"attach_label_to_task", "detach_label_from_task"} -> Labels
      [] OTHER -> {Null}

\* at is the workspace the caller's membership was read in; row the task or
\* project the session holds; item the comment or attachment; assignee the user
\* in the relationship of that name; to whom the handler is to write a mail;
\* shown is the task in the last answer.
NoRequest == [pc |-> "idle", op |-> Null, user |-> Null, project |-> Null,
              at |-> Null, arg |-> Null, row |-> Null, item |-> Null,
              assignee |-> Null, to |-> Null, status |-> 0, shown |-> Null]

Init ==
    /\ inUse \in RouteSets
    /\ workspaces = Workspaces
    /\ role \in [Workspaces -> [Users -> ResourceRole \cup {Null}]]
    /\ \A w \in Workspaces, u \in Users :
          LET offered == {g \in ResourceRole : <<w, u, g>> \in Grants} IN
          role[w][u] \in IF offered = {} THEN {Null} ELSE offered
    /\ \E c \in Contents :
          project = [p \in Projects |-> [content |-> c, is_archived |-> FALSE]]
    /\ labels = Labels
    /\ tasks = {}
    /\ comments = {}
    /\ attachments = {}
    /\ nextId = 0
    /\ outbox = {}
    /\ owed = {}
    /\ req = [r \in Requests |-> NoRequest]

-------------------------------------------------------------------------------
(***************************************************************************)
(* Sessions, answers and rows.                                             *)
(***************************************************************************)
At(r, ops, pc) == req[r].op \in ops /\ req[r].pc = pc

Begin(r, request) == req' = [req EXCEPT ![r] = request]

Answer(r, code) == Begin(r, [NoRequest EXCEPT !.status = code])

Proceed(r, pc) == req' = [req EXCEPT ![r].pc = pc]

\* After the commit the payload is not looked at again.
Reload(r) == req' = [req EXCEPT ![r].pc = "reload", ![r].arg = Null]

Task(id) == {t \in tasks : t.id = id}

SetsNone(row, attributes) ==
    [f \in DOMAIN row |->
        IF f \in DOMAIN attributes THEN attributes[f] ELSE row[f]]

\* BaseRepository.update: the attributes that are not None are set.
Applied(row, attributes) ==
    [f \in DOMAIN row |->
        IF f \in DOMAIN attributes /\ attributes[f] # Null
        THEN attributes[f] ELSE row[f]]

AllColumns(stored, loaded, new) == new

\* The UPDATE names the columns that differ from what was loaded.
Written(stored, loaded, new) ==
    [f \in DOMAIN stored |-> IF new[f] # loaded[f] THEN new[f] ELSE stored[f]]

TasksOnly(gone) ==
    tasks' = tasks \ gone /\ UNCHANGED <<comments, attachments>>

\* Deleting a task deletes what belongs to it (the ORM cascade for the rows the
\* session can see, ON DELETE CASCADE for the others).
Cascade(gone) ==
    LET ids == {t.id : t \in gone} IN
    /\ tasks' = tasks \ gone
    /\ comments' = {c \in comments : c.task \notin ids}
    /\ attachments' = {a \in attachments : a.task \notin ids}

-------------------------------------------------------------------------------
(***************************************************************************)
(* The statements a handler begins with.                                   *)
(***************************************************************************)
MayStart(r, op) ==
    /\ op \in inUse
    /\ req[r].pc = "idle"
    /\ op = "create_project_task" => nextId < MaxTasks
    /\ op \in {"attach_label_to_task", "create_task_comment"} => nextId < MaxRows

\* get_by_id_with_relations: the task, in one statement of several.
LoadTask(r) ==
    /\ \E op \in TaskRoutes :
          /\ MayStart(r, op)
          /\ \/ Answer(r, 404)
             \/ \E u \in Users, t \in tasks, arg \in Payload(op) :
                   Begin(r, [NoRequest EXCEPT
                       !.pc = "access", !.op = op, !.user = u,
                       !.project = t.project, !.arg = arg, !.row = t,
                       !.assignee = t.assignee])
    /\ UNCHANGED <<tables, mail>>

LoadComment(r) ==
    /\ MayStart(r, "delete_comment")
    /\ \/ Answer(r, 404)
       \/ \E u \in Users, c \in comments :
             Begin(r, [NoRequest EXCEPT !.pc = "task", !.op = "delete_comment",
                                        !.user = u, !.item = c])
    /\ UNCHANGED <<tables, mail>>

LoadCommentTask(r) ==
    /\ At(r, {"delete_comment"}, "task")
    /\ \/ Task(req[r].item.task) = {} /\ Answer(r, 404)
       \/ \E t \in Task(req[r].item.task) :
             req' = [req EXCEPT ![r].pc = "access", ![r].project = t.project,
                                ![r].row = t]
    /\ UNCHANGED <<tables, mail>>

\* Who may delete: the rows' own people, and the administrators.
Entitled(q, granted) ==
    CASE q.op = "delete_task" ->
            \/ granted \in {"OWNER", "ADMIN"}
            \/ q.user \in {q.row.reporter, q.row.assignee}
      [] q.op = "delete_comment" ->
            \/ granted \in {"OWNER", "ADMIN"}
            \/ q.user = q.item.author
      [] OTHER -> TRUE

\* The workspace whose members are asked.
AnyOfHis(q) ==
    CHOOSE w \in Workspaces :
        (\E v \in Workspaces : role[v][q.user] # Null) => role[w][q.user] # Null
WorkspaceOf(q) == Home[q.project]

\* The relationship task.project, and get_member.  The required role is passed
\* and not looked at.  A project that is deleted after its task was selected is
\* None in the relationship, or it was read just before.
get_task_and_check_access(r) ==
    /\ At(r, TaskRoutes \cup {"delete_comment"}, "access")
    /\ LET q == req[r]
           w == WorkspaceOf(q)
           granted == role[w][q.user]
       IN  \/ project[q.project] = Null /\ Answer(r, 500)
           \/ /\ granted = Null \/ ~Entitled(q, granted)
              /\ Answer(r, 403)
           \/ /\ granted # Null /\ Entitled(q, granted)
              /\ req' = [req EXCEPT ![r].at = w,
                            ![r].pc = IF q.arg \in Labels THEN "check"
                                                          ELSE "write"]
    /\ UNCHANGED <<tables, mail>>

required_role(op) ==
    IF op = "delete_project" THEN "ADMIN" ELSE "EDITOR"

LoadProject(r) ==
    /\ \E op \in ProjectRoutes :
          /\ MayStart(r, op)
          /\ \/ Answer(r, 404)
             \/ \E u \in Users, p \in Projects, arg \in Payload(op) :
                   /\ project[p] # Null
                   /\ Begin(r, [NoRequest EXCEPT
                          !.pc = "access", !.op = op, !.user = u,
                          !.project = p, !.arg = arg,
                          !.row = IF op \in Patching THEN project[p] ELSE Null])
    /\ UNCHANGED <<tables, mail>>

check_project_access(r) ==
    /\ At(r, ProjectRoutes, "access")
    /\ LET q == req[r]
           w == WorkspaceOf(q)
           granted == role[w][q.user]
       IN  IF granted # Null /\ has_role_permission(granted, required_role(q.op))
           THEN req' = [req EXCEPT ![r].at = w, ![r].pc = "write"]
           ELSE Answer(r, 403)
    /\ UNCHANGED <<tables, mail>>

-------------------------------------------------------------------------------
(***************************************************************************)
(* update_project and archive_project: an UPDATE of a row that is gone     *)
(* raises, and so does the refresh of a row that is gone.                  *)
(***************************************************************************)
UpdateProject(r) ==
    /\ At(r, Patching, "write")
    /\ LET q == req[r]
           new == Applied(q.row, q.arg)
           stored == project[q.project]
       IN  IF new = q.row
           THEN project' = project /\ Reload(r)
           ELSE IF stored = Null
           THEN project' = project /\ Answer(r, 500)
           ELSE /\ project' = [project EXCEPT ![q.project] =
                                  Written(stored, q.row, new)]
                /\ Reload(r)
    /\ UNCHANGED <<inUse, workspaces, role, labels, rows, mail>>

RefreshProject(r) ==
    /\ At(r, Patching, "reload")
    /\ Answer(r, IF project[req[r].project] = Null THEN 500 ELSE 200)
    /\ UNCHANGED <<tables, mail>>

\* A DELETE that finds no row only logs a warning.
DeleteProject(r) ==
    /\ At(r, {"delete_project"}, "write")
    /\ LET p == req[r].project IN
          /\ project' = [project EXCEPT ![p] = Null]
          /\ Cascade({t \in tasks : t.project = p})
    /\ Answer(r, 200)
    /\ UNCHANGED <<inUse, workspaces, role, labels, nextId, mail>>

-------------------------------------------------------------------------------
(***************************************************************************)
(* create_project_task and update_task.  The handler remembers whom it     *)
(* will write to, commits, and writes the mail only if it can answer.      *)
(***************************************************************************)
OnlyInUpdate(q) ==
    /\ q.op = "update_task"
    /\ q.arg.assignee \notin {Null, q.row.assignee}
ChangesAssignee(q) ==
    /\ q.arg.assignee # Null
    /\ q.op = "update_task" => q.arg.assignee # q.row.assignee

\* The assignee is looked up; it need not be a member of the workspace.
UnknownAssignee(r) ==
    /\ At(r, {"create_project_task", "update_task"}, "write")
    /\ ChangesAssignee(req[r]) /\ req[r].arg.assignee \notin Users
    /\ Answer(r, 404)
    /\ UNCHANGED <<tables, mail>>

\* What the handler has in hand once it has committed row, and the mail that
\* is now owed to an assignee other than the former one.
Committed(r, row, former) ==
    /\ req' = [req EXCEPT ![r].pc = "reload", ![r].arg = Null, ![r].row = row,
                  ![r].to = IF ChangesAssignee(req[r])
                            THEN req[r].arg.assignee ELSE Null]
    /\ owed' = owed \cup IF row.assignee \in {Null, former} THEN {}
                         ELSE {[task |-> row.id, to |-> row.assignee]}

InsertTask(r) ==
    /\ At(r, {"create_project_task"}, "write")
    /\ LET q == req[r]
           new == [id |-> nextId, project |-> q.project, reporter |-> q.user,
                   assignee |-> q.arg.assignee, content |-> q.arg.content]
       IN  /\ q.arg.assignee \in Users \cup {Null}
           /\ IF project[q.project] = Null
              THEN UNCHANGED <<tasks, nextId, owed>> /\ Answer(r, 500)
              ELSE /\ tasks' = tasks \cup {new}
                   /\ nextId' = nextId + 1
                   /\ Committed(r, new, Null)
    /\ UNCHANGED <<tenancy, comments, attachments, outbox>>

UpdateTask(r) ==
    /\ At(r, {"update_task"}, "write")
    /\ LET q == req[r]
           new == Applied(q.row, q.arg)
           stored == Task(q.row.id)
       IN  /\ ChangesAssignee(q) => q.arg.assignee \in Users
           /\ IF new # q.row /\ stored = {}
              THEN UNCHANGED <<tasks, owed>> /\ Answer(r, 500)
              ELSE /\ tasks' = IF new = q.row THEN tasks
                               ELSE (tasks \ stored) \cup
                                    {Written(t, q.row, new) : t \in stored}
                   /\ Committed(r, new, q.row.assignee)
    /\ UNCHANGED <<tenancy, comments, attachments, nextId, outbox>>

\* The second get_by_id_with_relations.  The session has the task already: the
\* SELECT overwrites neither its columns nor a relationship it has loaded.  A
\* task that create_project_task has made has its relationships still to load.
RequeryTask(r) ==
    /\ At(r, {"create_project_task", "update_task"}, "reload")
    /\ LET q == req[r]
           due == IF q.to = Null THEN {}
                  ELSE {[task |-> q.row.id, to |-> q.to]}
           created == q.op = "create_project_task"
       IN  IF Task(q.row.id) = {}
           THEN /\ owed' = owed \ due
                /\ outbox' = outbox
                /\ Answer(r, 404)
           ELSE /\ outbox' = outbox \cup due
                /\ owed' = owed
                /\ Begin(r, [NoRequest EXCEPT
                       !.status = IF created THEN 201 ELSE 200,
                       !.shown = [row |-> q.row,
                                  assignee |-> IF created THEN q.row.assignee
                                               ELSE q.assignee]])
    /\ UNCHANGED tables

DeleteTask(r) ==
    /\ At(r, {"delete_task"}, "write")
    /\ Cascade(Task(req[r].row.id))
    /\ Answer(r, 200)
    /\ UNCHANGED <<tenancy, nextId, mail>>

-------------------------------------------------------------------------------
(***************************************************************************)
(* attach_label_to_task and detach_label_from_task.  label_repo.get_by_id  *)
(* and get_task_label are taken as one step: a label goes only with its    *)
(* workspace, and its attachments with it.                                 *)
(***************************************************************************)
get_task_label(q) ==
    {a \in attachments : a.task = q.row.id /\ a.label = q.arg}

AnyLabel(q) == TRUE
LabelInWorkspace(q) == Home[q.arg] = q.at

CheckLabel(r) ==
    /\ At(r, {"attach_label_to_task"}, "check")
    /\ IF req[r].arg \notin labels \/ ~LabelInWorkspace(req[r])
       THEN Answer(r, 404)
       ELSE IF get_task_label(req[r]) # {}
       THEN Answer(r, 409)
       ELSE Proceed(r, "write")
    /\ UNCHANGED <<tables, mail>>

NotUnique(q) == TRUE
\* uq_task_label: the key is still free.
TaskLabelFree(q) == get_task_label(q) = {}

InsertAttachment(r) ==
    /\ At(r, {"attach_label_to_task"}, "write")
    /\ LET q == req[r]
           new == [id |-> nextId, task |-> q.row.id, label |-> q.arg]
       IN  IF /\ Task(q.row.id) # {} /\ q.arg \in labels
              /\ TaskLabelFree(q)
           THEN /\ attachments' = attachments \cup {new}
                /\ nextId' = nextId + 1
                /\ Answer(r, 201)
           ELSE UNCHANGED <<attachments, nextId>> /\ Answer(r, 500)
    /\ UNCHANGED <<tenancy, tasks, comments, mail>>

FindAttachment(r) ==
    /\ At(r, {"detach_label_from_task"}, "check")
    /\ \/ get_task_label(req[r]) = {} /\ Answer(r, 404)
       \/ \E a \in get_task_label(req[r]) :
             req' = [req EXCEPT ![r].pc = "write", ![r].item = a]
    /\ UNCHANGED <<tables, mail>>

DeleteAttachment(r) ==
    /\ At(r, {"detach_label_from_task"}, "write")
    /\ attachments' = {a \in attachments : a.id # req[r].item.id}
    /\ Answer(r, 200)
    /\ UNCHANGED <<tenancy, tasks, comments, nextId, mail>>

-------------------------------------------------------------------------------
(***************************************************************************)
(* create_task_comment and delete_comment.                                 *)
(***************************************************************************)
InsertComment(r) ==
    /\ At(r, {"create_task_comment"}, "write")
    /\ LET q == req[r]
           new == [id |-> nextId, task |-> q.row.id, author |-> q.user]
       IN  IF Task(q.row.id) # {}
           THEN /\ comments' = comments \cup {new}
                /\ nextId' = nextId + 1
                /\ req' = [req EXCEPT ![r].pc = "reload", ![r].item = new]
           ELSE UNCHANGED <<comments, nextId>> /\ Answer(r, 500)
    /\ UNCHANGED <<tenancy, tasks, attachments, mail>>

ReloadComment(r) ==
    /\ At(r, {"create_task_comment"}, "reload")
    /\ Answer(r, IF req[r].item \in comments THEN 201 ELSE 404)
    /\ UNCHANGED <<tables, mail>>

DeleteComment(r) ==
    /\ At(r, {"delete_comment"}, "write")
    /\ comments' = {c \in comments : c.id # req[r].item.id}
    /\ Answer(r, 200)
    /\ UNCHANGED <<tenancy, tasks, attachments, nextId, mail>>

-------------------------------------------------------------------------------
(***************************************************************************)
(* What happens around the handlers.                                       *)
(***************************************************************************)
\* A background task runs once its answer is sent.  It sends the mail or logs
\* an error, and is not run again.
send_message(m) ==
    /\ m \in outbox
    /\ outbox' = outbox \ {m}
    /\ owed' = owed \ {m}
    /\ UNCHANGED <<tables, req>>

\* The process stops and forgets its requests and its background tasks.
Crash ==
    /\ outbox # {} \/ \E r \in Requests : req[r].pc # "idle"
    /\ outbox' = {}
    /\ owed' = {}
    /\ req' = [r \in Requests |-> NoRequest]
    /\ UNCHANGED tables

\* The member routes of module Workspaces, seen from here.
ChangeRole ==
    /\ "update_workspace_member_role" \in inUse
    /\ \E w \in workspaces, u \in Users, granted \in ResourceRole \cup {Null} :
          /\ granted # Null => <<w, u, granted>> \in Grants
          /\ role[w][u] # granted
          /\ role' = [role EXCEPT ![w][u] = granted]
    /\ UNCHANGED <<inUse, workspaces, project, labels, rows, mail, req>>

\* delete_workspace, seen from here.
DeleteWorkspace ==
    /\ "delete_workspace" \in inUse
    /\ \E w \in workspaces :
          /\ workspaces' = workspaces \ {w}
          /\ role' = [role EXCEPT ![w] = [u \in Users |-> Null]]
          /\ project' = [p \in Projects |->
                            IF Home[p] = w THEN Null ELSE project[p]]
          /\ labels' = {l \in labels : Home[l] # w}
          /\ Cascade({t \in tasks : Home[t.project] = w})
    /\ UNCHANGED <<inUse, nextId, mail, req>>

-------------------------------------------------------------------------------
\* The next step of a request in progress.
Step(r) ==
    \/ LoadCommentTask(r)
    \/ get_task_and_check_access(r)
    \/ check_project_access(r)
    \/ UpdateProject(r)
    \/ RefreshProject(r)
    \/ DeleteProject(r)
    \/ UnknownAssignee(r)
    \/ InsertTask(r)
    \/ UpdateTask(r)
    \/ RequeryTask(r)
    \/ DeleteTask(r)
    \/ CheckLabel(r)
    \/ InsertAttachment(r)
    \/ FindAttachment(r)
    \/ DeleteAttachment(r)
    \/ InsertComment(r)
    \/ ReloadComment(r)
    \/ DeleteComment(r)

Next ==
    \/ \E r \in Requests :
          LoadTask(r) \/ LoadComment(r) \/ LoadProject(r) \/ Step(r)
    \/ \E m \in outbox : send_message(m)
    \/ Crash
    \/ ChangeRole
    \/ DeleteWorkspace

Spec == Init /\ [][Next]_vars

-------------------------------------------------------------------------------
(***************************************************************************)
(* Properties.                                                             *)
(***************************************************************************)
Assignee == Users \cup {Null}
Codes == {0, 200, 201, 403, 404, 409, 500}

\* What a handler holds at each of its steps.
HoldsTask(q) ==
    /\ q.row \in TaskRow
    /\ q.project = q.row.project
    /\ q.assignee \in Assignee
InHand(q) ==
    /\ q.op \in Routes /\ q.user \in Users
    /\ q.pc # "reload" => q.arg \in Payload(q.op)
    /\ q.pc # "task" => q.project \in Projects
    /\ q.op \in TaskRoutes => HoldsTask(q)
    /\ q.op = "delete_comment" =>
          q.item \in CommentRow /\ (q.pc # "task" => HoldsTask(q))
    /\ q.op = "create_project_task" /\ q.pc = "reload" => q.row \in TaskRow
    /\ q.op \in Patching => q.row \in ProjectRow

Request == [pc : {"idle", "task", "access", "check", "write", "reload"},
            op : Routes \cup {Null}, user : Users \cup {Null},
            project : Projects \cup {Null}, at : Workspaces \cup {Null},
            arg : UNION {Payload(op) : op \in Routes},
            row : TaskRow \cup ProjectRow \cup {Null},
            item : CommentRow \cup TaskLabel \cup {Null},
            assignee : Assignee, to : Assignee, status : Codes,
            shown : [row : TaskRow, assignee : Assignee] \cup {Null}]

\* Every variable keeps its type, and a handler past its first statement has
\* its caller, its payload and the rows its next statements name.
TypeOK ==
    /\ inUse \subseteq Routes \cup WorkspaceRoutes
    /\ workspaces \subseteq Workspaces
    /\ role \in [Workspaces -> [Users -> ResourceRole \cup {Null}]]
    /\ project \in [Projects -> ProjectRow \cup {Null}]
    /\ labels \subseteq Labels
    /\ tasks \subseteq TaskRow
    /\ comments \subseteq CommentRow
    /\ attachments \subseteq TaskLabel
    /\ nextId \in Nat
    /\ outbox \subseteq Mail
    /\ owed \subseteq Mail
    /\ req \in [Requests -> Request]
    /\ \A r \in Requests : req[r].pc # "idle" => InHand(req[r])

\* No row outlives what it belongs to: a task its project, a project or label
\* its workspace, a comment or attachment its task, an attachment its label;
\* however deletions and inserts of several requests interleave.
NoDanglingRows ==
    /\ \A p \in Projects : project[p] # Null => Home[p] \in workspaces
    /\ \A l \in labels : Home[l] \in workspaces
    /\ \A t \in tasks : project[t.project] # Null
    /\ \A c \in comments : \E t \in tasks : t.id = c.task
    /\ \A a \in attachments :
          a.label \in labels /\ \E t \in tasks : t.id = a.task

\* A label is attached to a task at most once (uq_task_label), also when two
\* requests have both found it missing.
OneAttachment ==
    \A a, b \in attachments :
        a.task = b.task /\ a.label = b.label => a = b

\* The label attached to a task is of the task's workspace.
LabelsAtHome ==
    \A a \in attachments, t \in tasks :
        a.task = t.id => Home[a.label] = Home[t.project]

Asked(r, ops, f, value) ==
    /\ At(r, ops, "write")
    /\ f \in DOMAIN req[r].arg
    /\ req[r].arg[f] = value

TaskColumns ==
    \A old \in tasks, new \in tasks' : \A f \in DOMAIN old :
        old.id = new.id /\ old[f] # new[f] =>
        \E r \in Requests : /\ Asked(r, {"update_task"}, f, new[f])
                            /\ req[r].row.id = old.id

ProjectColumns ==
    \A p \in Projects :
        LET old == project[p]
            new == project'[p]
        IN  old # Null /\ new # Null =>
            \A f \in DOMAIN old : old[f] # new[f] =>
            \E r \in Requests : /\ Asked(r, Patching, f, new[f])
                                /\ req[r].project = p

\* A column of a task or project changes only to a value that a request names
\* for it: a PATCH leaves the columns it does not name as others, whose commits
\* it has not seen, have set them.
OnlyNamedColumns == [][TaskColumns /\ ProjectColumns]_vars

Difference(A, B) == (A \ B) \cup (B \ A)
WorkspacesOf(ids) == {Home[t.project] : t \in {t \in tasks : t.id \in ids}}

\* The workspaces in which a step changes a row.
Touched ==
    {Home[p] : p \in {p \in Projects : project[p] # project'[p]}}
    \cup {Home[t.project] : t \in Difference(tasks, tasks')}
    \cup WorkspacesOf({c.task : c \in Difference(comments, comments')})
    \cup WorkspacesOf({a.task : a \in Difference(attachments, attachments')})

\* A request changes rows of one workspace only: the one in which its caller was
\* found to be a member.
WritesWhereAdmitted ==
    [][workspaces' = workspaces =>
         \A w \in Touched : \E r \in Requests :
            req[r].pc = "write" /\ req[r].at = w /\ req'[r] # req[r]]_vars

\* The mail about a committed assignment is not forgotten: it is queued, or the
\* request that made the assignment is about to queue it; until it is sent, the
\* process stops, or the task is deleted before the request is answered.
AssignmentsInHand ==
    \A m \in owed :
        \/ m \in outbox
        \/ \E r \in Requests :
              /\ At(r, {"create_project_task", "update_task"}, "reload")
              /\ req[r].row.id = m.task /\ req[r].to = m.to

\* The user shown as the assignee in the answer of a PATCH is the one that the
\* assignee_id of the same answer names ("Re-query updated task").
AssigneeShown ==
    \A r \in Requests :
        LET answered == req[r].shown IN
        answered # Null => answered.assignee = answered.row.assignee
===============================================================================
