------------------------------ MODULE TasksProofs ------------------------------
(***************************************************************************)
(* Proofs about Tasks, for every number of users, workspaces, projects,    *)
(* labels and requests in progress.                                        *)
(***************************************************************************)
EXTENDS Tasks, TLAPS

-------------------------------------------------------------------------------
(***************************************************************************)
(* Typing.  A step changes the record of one request only, so TypeOK is    *)
(* kept when the new record is well-formed and the tables are.             *)
(***************************************************************************)
RecordOK(q) == q \in Request /\ (q.pc # "idle" => InHand(q))

TablesOK ==
    /\ inUse \subseteq Routes \cup WorkspaceRoutes
    /\ workspaces \subseteq Workspaces
    /\ role \in [Workspaces -> [Users -> ResourceRole \cup {Null}]]
    /\ project \in [Projects -> ProjectRow \cup {Null}]
    /\ labels \subseteq Labels
    /\ tasks \subseteq TaskRow
    /\ comments \subseteq CommentRow
    /\ attachments \subseteq TaskLabel
    /\ nextId \in Nat
    /\ outbox \subseteq Mail
    /\ owed \subseteq Mail

LEMMA TypeOKSplit ==
    TypeOK <=> /\ TablesOK
               /\ req \in [Requests -> Request]
               /\ \A r \in Requests : RecordOK(req[r])
BY DEF TypeOK, TablesOK, RecordOK

\* Replacing the record of r by a well-formed one.
LEMMA OneRecord ==
    ASSUME TypeOK, TablesOK', NEW r \in Requests, NEW q, RecordOK(q),
           req' = [req EXCEPT ![r] = q]
    PROVE  TypeOK'
<1>1. \A x \in Requests : req'[x] = IF x = r THEN q ELSE req[x]
  BY DEF TypeOK
<1>2. req' \in [Requests -> Request]
  BY DEF TypeOK, RecordOK
<1>3. \A x \in Requests : req'[x].pc # "idle" => InHand(req'[x])
  BY <1>1 DEF TypeOK, RecordOK
<1> QED  BY <1>2, <1>3 DEF TypeOK, TablesOK

LEMMA NullPayload == Null \in UNION {Payload(op) : op \in Routes}
<1>1. "delete_comment" \in Routes /\ Null \in Payload("delete_comment")
  BY DEF Routes, TaskRoutes, ProjectRoutes, Payload
<1> QED  BY <1>1

LEMMA AnswerOK ==
    ASSUME TypeOK, TablesOK', NEW r \in Requests, NEW code \in Codes,
           Answer(r, code)
    PROVE  TypeOK'
<1>1. RecordOK([NoRequest EXCEPT !.status = code])
  BY NullPayload DEF RecordOK, NoRequest, Request, Assignee
<1> QED  BY <1>1, OneRecord DEF Answer, Begin

LEMMA AnswerCodes == {0, 200, 201, 403, 404, 409, 500} \subseteq Codes
BY DEF Codes

LEMMA Record == ASSUME TypeOK, NEW r \in Requests PROVE RecordOK(req[r])
BY DEF TypeOK, RecordOK

LEMMA SameTables ==
    ASSUME TypeOK, UNCHANGED <<tables, mail>> PROVE TablesOK'
BY DEF TypeOK, TablesOK, tables, tenancy, rows, mail

LEMMA ProceedOK ==
    ASSUME TypeOK, TablesOK', NEW r \in Requests,
           req[r].pc \in {"access", "check", "write"},
           NEW pc \in {"check", "write"}, Proceed(r, pc)
    PROVE  TypeOK'
<1> DEFINE q == [req[r] EXCEPT !.pc = pc]
<1>1. req[r] \in Request /\ InHand(req[r])
  BY DEF TypeOK
<1>2. q \in Request
  BY <1>1 DEF Request
<1>3. InHand(q)
  BY <1>1 DEF InHand, HoldsTask, Request
<1>4. req' = [req EXCEPT ![r] = q]
  BY DEF Proceed, TypeOK
<1> QED  BY <1>2, <1>3, <1>4, OneRecord DEF RecordOK

LEMMA Payloads ==
    /\ Payload("update_task") = TaskUpdate
    /\ Payload("create_project_task") = TaskCreate
    /\ Payload("update_project") = ProjectUpdate
    /\ Payload("archive_project") = {[content |-> Null, is_archived |-> TRUE]}
    /\ Payload("attach_label_to_task") = Labels
    /\ Payload("detach_label_from_task") = Labels
BY DEF Payload

\* Setting the columns a payload names keeps a row a row, and so does writing
\* those that changed.
LEMMA AppliedTask ==
    ASSUME NEW row \in TaskRow, NEW arg \in TaskUpdate,
           arg.assignee \notin {Null, row.assignee} => arg.assignee \in Users
    PROVE  /\ Applied(row, arg) \in TaskRow
           /\ Applied(row, arg).id = row.id
           /\ Applied(row, arg).project = row.project
<1> DEFINE new == Applied(row, arg)
<1>1. /\ DOMAIN row = {"id", "project", "reporter", "assignee", "content"}
      /\ DOMAIN arg = {"content", "assignee"}
  BY DEF TaskRow, TaskUpdate
<1>2. new = [f \in {"id", "project", "reporter", "assignee", "content"} |->
                IF f \in {"content", "assignee"} /\ arg[f] # Null
                THEN arg[f] ELSE row[f]]
  BY <1>1 DEF Applied
<1>3. new.id = row.id /\ new.project = row.project /\ new.reporter = row.reporter
  BY <1>2
<1>4. new.assignee \in Users \cup {Null} /\ new.content \in Contents
  BY <1>2 DEF TaskRow, TaskUpdate
<1>5. new = [id |-> new.id, project |-> new.project, reporter |-> new.reporter,
             assignee |-> new.assignee, content |-> new.content]
  BY <1>2
<1> HIDE DEF new
<1>6. new \in TaskRow
  BY <1>3, <1>4, <1>5 DEF TaskRow
<1> QED  BY <1>3, <1>6 DEF new

LEMMA AppliedProject ==
    ASSUME NEW row \in ProjectRow,
           NEW arg \in ProjectUpdate
                      \cup {[content |-> Null, is_archived |-> TRUE]}
    PROVE  Applied(row, arg) \in ProjectRow
<1> DEFINE new == Applied(row, arg)
<1>1. DOMAIN row = {"content", "is_archived"}
  BY DEF ProjectRow
<1>2. DOMAIN arg = {"content", "is_archived"}
  BY DEF ProjectUpdate
<1>3. new = [f \in {"content", "is_archived"} |->
                IF arg[f] # Null THEN arg[f] ELSE row[f]]
  BY <1>1, <1>2 DEF Applied
<1>4. /\ new.content = IF arg.content # Null THEN arg.content ELSE row.content
      /\ new.is_archived = IF arg.is_archived # Null THEN arg.is_archived
                                                    ELSE row.is_archived
  BY <1>3
<1>5. row.content \in Contents /\ row.is_archived \in BOOLEAN
  BY DEF ProjectRow
<1>6. arg.content \in Contents \cup {Null}
  BY DEF ProjectUpdate
<1>7. arg.is_archived \in BOOLEAN \cup {Null}
  <2>1. CASE arg \in ProjectUpdate
    BY <2>1 DEF ProjectUpdate
  <2>2. CASE arg = [content |-> Null, is_archived |-> TRUE]
    BY <2>2, TRUE \in BOOLEAN
  <2> QED  BY <2>1, <2>2
<1>8. new = [content |-> new.content, is_archived |-> new.is_archived]
  BY <1>3
<1> HIDE DEF new
<1>9. new.content \in Contents
  BY <1>4, <1>5, <1>6
<1>10. new.is_archived \in BOOLEAN
  BY <1>4, <1>5, <1>7, Zenon
<1>11. new \in ProjectRow
  BY <1>8, <1>9, <1>10 DEF ProjectRow
<1> QED  BY <1>11 DEF new

LEMMA WrittenTask ==
    ASSUME NEW stored \in TaskRow, NEW loaded \in TaskRow, NEW new \in TaskRow,
           new.id = loaded.id, new.project = loaded.project
    PROVE  /\ Written(stored, loaded, new) \in TaskRow
           /\ Written(stored, loaded, new).id = stored.id
           /\ Written(stored, loaded, new).project = stored.project
BY DEF Written, TaskRow

LEMMA WrittenProject ==
    ASSUME NEW stored \in ProjectRow, NEW loaded \in ProjectRow,
           NEW new \in ProjectRow
    PROVE  Written(stored, loaded, new) \in ProjectRow
BY DEF Written, ProjectRow

LEMMA CascadeTyped ==
    ASSUME TypeOK, NEW gone, Cascade(gone)
    PROVE  /\ tasks' \subseteq TaskRow
           /\ comments' \subseteq CommentRow
           /\ attachments' \subseteq TaskLabel
BY DEF TypeOK, Cascade

-------------------------------------------------------------------------------
(***************************************************************************)
(* The statements a handler begins with.                                   *)
(***************************************************************************)
LEMMA LoadTaskTyped ==
    ASSUME TypeOK, NEW r \in Requests, LoadTask(r)
    PROVE  TypeOK'
<1>1. TablesOK'
  BY SameTables DEF LoadTask
<1>2. ASSUME NEW op \in TaskRoutes, NEW u \in Users, NEW t \in tasks,
             NEW arg \in Payload(op),
             Begin(r, [NoRequest EXCEPT
                       !.pc = "access", !.op = op, !.user = u,
                       !.project = t.project, !.arg = arg, !.row = t,
                       !.assignee = t.assignee])
      PROVE  TypeOK'
  <2> DEFINE q == [NoRequest EXCEPT
                       !.pc = "access", !.op = op, !.user = u,
                       !.project = t.project, !.arg = arg, !.row = t,
                       !.assignee = t.assignee]
  <2>1. t \in TaskRow /\ t.project \in Projects /\ t.assignee \in Assignee
    BY DEF TypeOK, TaskRow, Assignee
  <2>2. op \in Routes /\ op \notin Patching
        /\ op \notin {"delete_comment", "create_project_task"}
    BY DEF Routes, TaskRoutes, Patching
  <2>3. arg \in UNION {Payload(o) : o \in Routes}
    BY <2>2
  <2>4. q \in Request
    BY <2>1, <2>2, <2>3 DEF Request, NoRequest, Assignee, Codes
  <2>5. InHand(q)
    BY <2>1, <2>2 DEF InHand, HoldsTask, NoRequest
  <2> QED  BY <1>1, <1>2, <2>4, <2>5, OneRecord DEF RecordOK, Begin
<1> QED  BY <1>1, <1>2, AnswerOK, AnswerCodes DEF LoadTask

LEMMA LoadCommentTyped ==
    ASSUME TypeOK, NEW r \in Requests, LoadComment(r)
    PROVE  TypeOK'
<1>1. TablesOK'
  BY SameTables DEF LoadComment
<1>2. ASSUME NEW u \in Users, NEW c \in comments,
             Begin(r, [NoRequest EXCEPT !.pc = "task", !.op = "delete_comment",
                                        !.user = u, !.item = c])
      PROVE  TypeOK'
  <2> DEFINE q == [NoRequest EXCEPT !.pc = "task", !.op = "delete_comment",
                                    !.user = u, !.item = c]
  <2>1. c \in CommentRow
    BY DEF TypeOK
  <2>2. "delete_comment" \in Routes \ (TaskRoutes \cup Patching)
    BY DEF Routes, TaskRoutes, Patching
  <2>3. Payload("delete_comment") = {Null}
    BY DEF Payload
  <2>4. q \in Request
    BY <2>1, <2>2, NullPayload DEF Request, NoRequest, Assignee, Codes
  <2>5. InHand(q)
    BY <2>1, <2>2, <2>3 DEF InHand, NoRequest
  <2> QED  BY <1>1, <1>2, <2>4, <2>5, OneRecord DEF RecordOK, Begin
<1> QED  BY <1>1, <1>2, AnswerOK, AnswerCodes DEF LoadComment

LEMMA LoadCommentTaskTyped ==
    ASSUME TypeOK, NEW r \in Requests, LoadCommentTask(r)
    PROVE  TypeOK'
<1>1. TablesOK'
  BY SameTables DEF LoadCommentTask
<1>2. ASSUME NEW t \in tasks,
             req' = [req EXCEPT ![r].pc = "access", ![r].project = t.project,
                                ![r].row = t]
      PROVE  TypeOK'
  <2> DEFINE q == [req[r] EXCEPT !.pc = "access", !.project = t.project,
                                 !.row = t]
  <2>1. t \in TaskRow /\ t.project \in Projects
    BY DEF TypeOK, TaskRow
  <2>2. req[r].op = "delete_comment" /\ req[r].pc = "task"
    BY DEF LoadCommentTask, At
  <2>3. req[r] \in Request /\ InHand(req[r])
    BY <2>2 DEF TypeOK
  <2>4. q \in Request
    BY <2>1, <2>3 DEF Request
  <2>5. req[r].assignee \in Assignee /\ req[r].op \notin TaskRoutes \cup Patching
    BY <2>2, <2>3 DEF Request, TaskRoutes, Patching
  <2>6. InHand(q)
    BY <2>1, <2>2, <2>3, <2>5 DEF InHand, HoldsTask, Request
  <2>7. req' = [req EXCEPT ![r] = q]
    BY <1>2 DEF TypeOK
  <2> QED  BY <1>1, <2>4, <2>6, <2>7, OneRecord DEF RecordOK
<1> QED  BY <1>1, <1>2, AnswerOK, AnswerCodes DEF LoadCommentTask, Task

LEMMA LoadProjectTyped ==
    ASSUME TypeOK, NEW r \in Requests, LoadProject(r)
    PROVE  TypeOK'
<1>1. TablesOK'
  BY SameTables DEF LoadProject
<1>2. ASSUME NEW op \in ProjectRoutes, NEW u \in Users, NEW p \in Projects,
             NEW arg \in Payload(op), project[p] # Null,
             Begin(r, [NoRequest EXCEPT
                          !.pc = "access", !.op = op, !.user = u,
                          !.project = p, !.arg = arg,
                          !.row = IF op \in Patching THEN project[p] ELSE Null])
      PROVE  TypeOK'
  <2> DEFINE q == [NoRequest EXCEPT
                          !.pc = "access", !.op = op, !.user = u,
                          !.project = p, !.arg = arg,
                          !.row = IF op \in Patching THEN project[p] ELSE Null]
  <2>1. project[p] \in ProjectRow
    BY <1>2 DEF TypeOK
  <2>2. op \in Routes \ TaskRoutes /\ op # "delete_comment"
    BY DEF Routes, TaskRoutes, ProjectRoutes
  <2>3. arg \in UNION {Payload(o) : o \in Routes}
    BY <2>2
  <2>4. q \in Request
    BY <2>1, <2>2, <2>3 DEF Request, NoRequest, Assignee, Codes
  <2>5. InHand(q)
    BY <2>1, <2>2 DEF InHand, NoRequest
  <2> QED  BY <1>1, <1>2, <2>4, <2>5, OneRecord DEF RecordOK, Begin
<1> QED  BY <1>1, <1>2, AnswerOK, AnswerCodes DEF LoadProject

LEMMA AdmittedOK ==
    ASSUME TypeOK, TablesOK', NEW r \in Requests, req[r].pc = "access",
           NEW w \in Workspaces, NEW pc \in {"check", "write"},
           req' = [req EXCEPT ![r].at = w, ![r].pc = pc]
    PROVE  TypeOK'
<1> DEFINE q == [req[r] EXCEPT !.at = w, !.pc = pc]
<1>1. req[r] \in Request /\ InHand(req[r])
  BY DEF TypeOK
<1>2. q \in Request
  BY <1>1 DEF Request
<1>3. InHand(q)
  BY <1>1 DEF InHand, HoldsTask, Request
<1>4. req' = [req EXCEPT ![r] = q]
  BY DEF TypeOK
<1> QED  BY <1>2, <1>3, <1>4, OneRecord DEF RecordOK

\* The workspace asked about its members is that of the project.
LEMMA AskedWorkspace ==
    ASSUME TypeOK, NEW r \in Requests, req[r].pc = "access"
    PROVE  WorkspaceOf(req[r]) \in Workspaces
BY ConstantsOK DEF TypeOK, InHand, WorkspaceOf

LEMMA AccessTyped ==
    ASSUME TypeOK, NEW r \in Requests,
           get_task_and_check_access(r) \/ check_project_access(r)
    PROVE  TypeOK'
<1>1. TablesOK'
  BY SameTables DEF get_task_and_check_access, check_project_access
<1>2. req[r].pc = "access"
  BY DEF get_task_and_check_access, check_project_access, At
<1>3. WorkspaceOf(req[r]) \in Workspaces
  BY <1>2, AskedWorkspace
<1>4. CASE get_task_and_check_access(r)
  <2> DEFINE pc == IF req[r].arg \in Labels THEN "check" ELSE "write"
  <2>1. \/ \E code \in {500, 403} : Answer(r, code)
        \/ req' = [req EXCEPT ![r].at = WorkspaceOf(req[r]), ![r].pc = pc]
    BY <1>4 DEF get_task_and_check_access
  <2>2. pc \in {"check", "write"}
    OBVIOUS
  <2> HIDE DEF pc
  <2>3. ASSUME NEW code \in {500, 403}, Answer(r, code) PROVE TypeOK'
    <3>1. code \in Codes
      BY AnswerCodes
    <3> QED  BY <1>1, <2>3, <3>1, AnswerOK
  <2>4. CASE req' = [req EXCEPT ![r].at = WorkspaceOf(req[r]), ![r].pc = pc]
    BY <1>1, <1>2, <1>3, <2>2, <2>4, AdmittedOK
  <2> QED  BY <2>1, <2>3, <2>4
<1>5. CASE check_project_access(r)
  BY <1>1, <1>2, <1>3, <1>5, AnswerOK, AnswerCodes, AdmittedOK
  DEF check_project_access
<1> QED  BY <1>4, <1>5

-------------------------------------------------------------------------------
(***************************************************************************)
(* The routes of projects.                                                 *)
(***************************************************************************)
LEMMA ReloadOK ==
    ASSUME TypeOK, TablesOK', NEW r \in Requests, req[r].op \in Patching,
           req[r].pc = "write", Reload(r)
    PROVE  TypeOK'
<1> DEFINE q == [req[r] EXCEPT !.pc = "reload", !.arg = Null]
<1>1. req[r] \in Request /\ InHand(req[r])
  BY DEF TypeOK
<1>2. q \in Request
  BY <1>1, NullPayload DEF Request
<1>3. InHand(q)
  <2>1. req[r].op \notin TaskRoutes \cup {"delete_comment", "create_project_task"}
    BY DEF Patching, TaskRoutes
  <2> QED  BY <1>1, <2>1 DEF InHand, Request
<1>4. req' = [req EXCEPT ![r] = q]
  BY DEF Reload, TypeOK
<1> QED  BY <1>2, <1>3, <1>4, OneRecord DEF RecordOK

LEMMA UpdateProjectTyped ==
    ASSUME TypeOK, NEW r \in Requests, UpdateProject(r)
    PROVE  TypeOK'
<1> DEFINE q == req[r]
           new == Applied(q.row, q.arg)
           stored == project[q.project]
<1>1. q.op \in Patching /\ q.pc = "write" /\ InHand(q)
  BY DEF UpdateProject, At, TypeOK
<1>2. q.row \in ProjectRow /\ q.project \in Projects
  BY <1>1 DEF InHand
<1>3. q.arg \in ProjectUpdate \cup {[content |-> Null, is_archived |-> TRUE]}
  BY <1>1, Payloads DEF InHand, Patching
<1>4. new \in ProjectRow
  BY <1>2, <1>3, AppliedProject
<1>5. \/ project' = project /\ Reload(r)
      \/ project' = project /\ Answer(r, 500)
      \/ /\ stored # Null
         /\ project' = [project EXCEPT ![q.project] = Written(stored, q.row, new)]
         /\ Reload(r)
  BY DEF UpdateProject
<1>6. stored # Null => Written(stored, q.row, new) \in ProjectRow
  BY <1>2, <1>4, WrittenProject DEF TypeOK
<1> HIDE DEF new
<1>7. TablesOK'
  BY <1>2, <1>5, <1>6 DEF TypeOK, TablesOK, UpdateProject, rows, mail
<1> QED  BY <1>1, <1>5, <1>7, ReloadOK, AnswerOK, AnswerCodes

LEMMA RefreshProjectTyped ==
    ASSUME TypeOK, NEW r \in Requests, RefreshProject(r)
    PROVE  TypeOK'
<1>1. TablesOK'
  BY SameTables DEF RefreshProject
<1>2. \E code \in {200, 500} : Answer(r, code)
  BY DEF RefreshProject
<1>3. {200, 500} \subseteq Codes
  BY AnswerCodes
<1> QED  BY <1>1, <1>2, <1>3, AnswerOK

LEMMA DeleteProjectTyped ==
    ASSUME TypeOK, NEW r \in Requests, DeleteProject(r)
    PROVE  TypeOK'
<1> DEFINE p == req[r].project
<1>1. project' = [project EXCEPT ![p] = Null]
      /\ Cascade({t \in tasks : t.project = p}) /\ Answer(r, 200)
      /\ UNCHANGED <<inUse, workspaces, role, labels, nextId, mail>>
  BY DEF DeleteProject
<1>2. TablesOK'
  BY <1>1, CascadeTyped DEF TypeOK, TablesOK, mail
<1> QED  BY <1>1, <1>2, AnswerOK, AnswerCodes

-------------------------------------------------------------------------------
(***************************************************************************)
(* Creating, changing and deleting tasks.                                  *)
(***************************************************************************)
LEMMA UnknownAssigneeTyped ==
    ASSUME TypeOK, NEW r \in Requests, UnknownAssignee(r)
    PROVE  TypeOK'
BY SameTables, AnswerOK, AnswerCodes DEF UnknownAssignee

\* After a commit the handler holds the row it has written.
LEMMA CommittedOK ==
    ASSUME TypeOK, NEW r \in Requests,
           At(r, {"create_project_task", "update_task"}, "write"),
           NEW row \in TaskRow, row.project = req[r].project, NEW former,
           ChangesAssignee(req[r]) => req[r].arg.assignee \in Users,
           tasks' \subseteq TaskRow, nextId' \in Nat,
           UNCHANGED <<tenancy, comments, attachments, outbox>>,
           Committed(r, row, former)
    PROVE  TypeOK'
<1> DEFINE to == IF ChangesAssignee(req[r]) THEN req[r].arg.assignee ELSE Null
           q == [req[r] EXCEPT !.pc = "reload", !.arg = Null, !.row = row,
                               !.to = to]
<1>1. req[r] \in Request /\ InHand(req[r])
  BY DEF TypeOK, At
<1>2. to \in Assignee
  BY DEF Assignee
<1>3. req' = [req EXCEPT ![r] = q]
  BY DEF Committed, TypeOK
<1> HIDE DEF to
<1>4. q \in Request
  BY <1>1, <1>2, NullPayload DEF Request
<1>5. InHand(q)
  <2>1. /\ req[r].op \notin Patching \cup {"delete_comment"}
        /\ req[r].pc = "write"
    BY DEF At, Patching
  <2> QED  BY <1>1, <2>1 DEF InHand, HoldsTask, Request
<1>6. row.assignee # Null => [task |-> row.id, to |-> row.assignee] \in Mail
  BY DEF TaskRow, Mail
<1>7. owed' \subseteq Mail
  BY <1>6 DEF Committed, TypeOK
<1>8. TablesOK'
  BY <1>7 DEF TypeOK, TablesOK, tenancy
<1> QED  BY <1>3, <1>4, <1>5, <1>8, OneRecord DEF RecordOK

LEMMA InsertTaskTyped ==
    ASSUME TypeOK, NEW r \in Requests, InsertTask(r)
    PROVE  TypeOK'
<1> DEFINE q == req[r]
           new == [id |-> nextId, project |-> q.project, reporter |-> q.user,
                   assignee |-> q.arg.assignee, content |-> q.arg.content]
<1>1. At(r, {"create_project_task"}, "write") /\ InHand(q)
  BY DEF InsertTask, At, TypeOK
<1>2. q.arg \in TaskCreate /\ q.user \in Users /\ q.project \in Projects
  BY <1>1, Payloads DEF InHand, At
<1>3. q.arg.assignee \in Users \cup {Null} /\ q.arg.content \in Contents
  BY <1>2 DEF InsertTask, TaskCreate
<1>4. new \in TaskRow
  BY <1>2, <1>3 DEF TaskRow, TypeOK
<1>5. UNCHANGED <<tenancy, comments, attachments, outbox>>
  BY DEF InsertTask
<1>6. CASE project[q.project] = Null
  <2>1. UNCHANGED <<tasks, nextId, owed>> /\ Answer(r, 500)
    BY <1>6 DEF InsertTask
  <2>2. TablesOK'
    BY <1>5, <2>1 DEF TypeOK, TablesOK, tenancy
  <2> QED  BY <2>1, <2>2, AnswerOK, AnswerCodes
<1>7. CASE project[q.project] # Null
  <2>1. /\ tasks' = tasks \cup {new} /\ nextId' = nextId + 1
        /\ Committed(r, new, Null)
    BY <1>7 DEF InsertTask
  <2>2. tasks' \subseteq TaskRow /\ nextId' \in Nat
    BY <1>4, <2>1 DEF TypeOK
  <2>3. ChangesAssignee(q) => q.arg.assignee \in Users
    BY <1>3 DEF ChangesAssignee
  <2>4. At(r, {"create_project_task", "update_task"}, "write")
    BY <1>1 DEF At
  <2>5. new.project = q.project
    OBVIOUS
  <2> HIDE DEF new
  <2> QED  BY <1>4, <1>5, <2>1, <2>2, <2>3, <2>4, <2>5, CommittedOK
<1> QED  BY <1>6, <1>7

\* What update_task holds when it is about to commit.
LEMMA PatchInHand ==
    ASSUME TypeOK, NEW r \in Requests, UpdateTask(r)
    PROVE  LET q == req[r]
               new == Applied(q.row, q.arg)
           IN  /\ q.row \in TaskRow /\ q.arg \in TaskUpdate
               /\ q.project = q.row.project
               /\ ChangesAssignee(q) => q.arg.assignee \in Users
               /\ new \in TaskRow
               /\ new.id = q.row.id /\ new.project = q.row.project
<1> DEFINE q == req[r]
<1>1. q.op = "update_task" /\ q.pc = "write" /\ InHand(q)
  BY DEF UpdateTask, At, TypeOK
<1>2. "update_task" \in TaskRoutes
  BY DEF TaskRoutes
<1>3. /\ q.row \in TaskRow /\ q.arg \in TaskUpdate /\ q.project = q.row.project
  BY <1>1, <1>2, Payloads DEF InHand, HoldsTask
<1>4. ChangesAssignee(q) => q.arg.assignee \in Users
  BY DEF UpdateTask
<1>5. q.arg.assignee \notin {Null, q.row.assignee} => q.arg.assignee \in Users
  BY <1>4 DEF ChangesAssignee
<1> QED  BY <1>3, <1>4, <1>5, AppliedTask

\* The UPDATE changes no id and no project.
LEMMA PatchWrites ==
    ASSUME TypeOK, NEW r \in Requests, UpdateTask(r)
    PROVE  /\ tasks' \subseteq TaskRow
           /\ \A t \in tasks' : \E s \in tasks :
                 t.id = s.id /\ t.project = s.project
           /\ \A s \in tasks : \E t \in tasks' :
                 t.id = s.id /\ t.project = s.project
<1> DEFINE q == req[r]
           new == Applied(q.row, q.arg)
           stored == Task(q.row.id)
<1>1. /\ q.row \in TaskRow /\ new \in TaskRow
      /\ new.id = q.row.id /\ new.project = q.row.project
  BY PatchInHand
<1>2. \/ tasks' = tasks
      \/ tasks' = (tasks \ stored) \cup {Written(t, q.row, new) : t \in stored}
  BY DEF UpdateTask
<1>3. stored \subseteq tasks /\ tasks \subseteq TaskRow
  BY DEF Task, TypeOK
<1> HIDE DEF new, stored, q
<1>4. \A t \in stored : /\ Written(t, q.row, new) \in TaskRow
                        /\ Written(t, q.row, new).id = t.id
                        /\ Written(t, q.row, new).project = t.project
  BY <1>1, <1>3, WrittenTask
<1>5. CASE tasks' = tasks
  BY <1>3, <1>5
<1>6. CASE tasks' = (tasks \ stored) \cup {Written(t, q.row, new) : t \in stored}
  <2>1. tasks' \subseteq TaskRow
    BY <1>3, <1>4, <1>6
  <2>2. ASSUME NEW t \in tasks'
        PROVE  \E s \in tasks : t.id = s.id /\ t.project = s.project
    BY <1>3, <1>4, <1>6
  <2>3. ASSUME NEW s \in tasks
        PROVE  \E t \in tasks' : t.id = s.id /\ t.project = s.project
    BY <1>3, <1>4, <1>6
  <2> QED  BY <2>1, <2>2, <2>3
<1> QED  BY <1>2, <1>5, <1>6

LEMMA UpdateTaskTyped ==
    ASSUME TypeOK, NEW r \in Requests, UpdateTask(r)
    PROVE  TypeOK'
<1> DEFINE q == req[r]
           new == Applied(q.row, q.arg)
<1>1. At(r, {"update_task"}, "write") /\ nextId' = nextId
      /\ UNCHANGED <<tenancy, comments, attachments, outbox>>
  BY DEF UpdateTask
<1>2. \/ UNCHANGED <<tasks, owed>> /\ Answer(r, 500)
      \/ Committed(r, new, q.row.assignee)
  BY DEF UpdateTask
<1>3. tasks' \subseteq TaskRow
  BY PatchWrites
<1>4. /\ new \in TaskRow /\ new.project = q.project
      /\ ChangesAssignee(q) => q.arg.assignee \in Users
  BY PatchInHand
<1>5. At(r, {"create_project_task", "update_task"}, "write")
  BY <1>1 DEF At
<1> HIDE DEF new
<1>6. CASE UNCHANGED <<tasks, owed>> /\ Answer(r, 500)
  <2>1. TablesOK'
    BY <1>1, <1>6 DEF TypeOK, TablesOK, tenancy
  <2> QED  BY <1>6, <2>1, AnswerOK, AnswerCodes
<1>7. CASE Committed(r, new, q.row.assignee)
  <2>1. nextId' \in Nat
    BY <1>1 DEF TypeOK
  <2> QED  BY <1>1, <1>3, <1>4, <1>5, <1>7, <2>1, CommittedOK
<1> QED  BY <1>2, <1>6, <1>7

LEMMA RequeryTaskTyped ==
    ASSUME TypeOK, NEW r \in Requests, RequeryTask(r)
    PROVE  TypeOK'
<1> DEFINE q == req[r]
           due == IF q.to = Null THEN {} ELSE {[task |-> q.row.id, to |-> q.to]}
           created == q.op = "create_project_task"
           shown == [row |-> q.row,
                     assignee |-> IF created THEN q.row.assignee ELSE q.assignee]
           code == IF created THEN 201 ELSE 200
           answer == [NoRequest EXCEPT !.status = code, !.shown = shown]
<1>1. /\ q.op \in {"create_project_task", "update_task"} /\ q.pc = "reload"
      /\ q \in Request /\ InHand(q)
  BY DEF RequeryTask, At, TypeOK
<1>2. q.row \in TaskRow /\ q.assignee \in Assignee /\ q.to \in Assignee
  BY <1>1 DEF InHand, HoldsTask, TaskRoutes, Request
<1>3. due \subseteq Mail
  BY <1>2 DEF Mail, TaskRow, Assignee
<1>4. UNCHANGED tables
  BY DEF RequeryTask
<1>5. \/ owed' = owed \ due /\ outbox' = outbox /\ Answer(r, 404)
      \/ outbox' = outbox \cup due /\ owed' = owed /\ Begin(r, answer)
  BY DEF RequeryTask
<1> HIDE DEF due
<1>6. TablesOK'
  BY <1>3, <1>4, <1>5 DEF TypeOK, TablesOK, tables, tenancy, rows
<1>7. RecordOK(answer)
  <2>1. q.row.assignee \in Assignee
    BY <1>2 DEF TaskRow, Assignee
  <2>2. answer \in Request
    <3>1. shown \in [row : TaskRow, assignee : Assignee]
      BY <1>2, <2>1
    <3>2. code \in Codes
      BY DEF Codes
    <3>3. Null \in Assignee
      BY DEF Assignee
    <3> HIDE DEF shown, code
    <3> QED  BY <3>1, <3>2, <3>3, NullPayload DEF NoRequest, Request
  <2>3. answer.pc = "idle"
    BY DEF NoRequest
  <2> QED  BY <2>2, <2>3 DEF RecordOK
<1> HIDE DEF answer
<1> QED  BY <1>5, <1>6, <1>7, OneRecord, AnswerOK, AnswerCodes DEF Begin

LEMMA DeleteTaskTyped ==
    ASSUME TypeOK, NEW r \in Requests, DeleteTask(r)
    PROVE  TypeOK'
<1>1. Cascade(Task(req[r].row.id)) /\ Answer(r, 200)
      /\ UNCHANGED <<tenancy, nextId, mail>>
  BY DEF DeleteTask
<1>2. TablesOK'
  BY <1>1, CascadeTyped DEF TypeOK, TablesOK, tenancy, mail
<1> QED  BY <1>1, <1>2, AnswerOK, AnswerCodes

-------------------------------------------------------------------------------
(***************************************************************************)
(* Labels and comments.                                                    *)
(***************************************************************************)
LEMMA CheckLabelTyped ==
    ASSUME TypeOK, NEW r \in Requests, CheckLabel(r)
    PROVE  TypeOK'
<1>1. TablesOK'
  BY SameTables DEF CheckLabel
<1>2. req[r].pc = "check"
  BY DEF CheckLabel, At
<1>3. Answer(r, 404) \/ Answer(r, 409) \/ Proceed(r, "write")
  BY DEF CheckLabel
<1> QED  BY <1>1, <1>2, <1>3, AnswerOK, AnswerCodes, ProceedOK

\* The label and the task of a request that attaches or detaches.
LEMMA LabelInHand ==
    ASSUME TypeOK, NEW r \in Requests, NEW pc \in {"access", "check", "write"},
           At(r, {"attach_label_to_task", "detach_label_from_task"}, pc)
    PROVE  req[r].arg \in Labels /\ req[r].row \in TaskRow
           /\ req[r].project = req[r].row.project
<1>1. InHand(req[r]) /\ req[r].pc # "reload"
  BY DEF At, TypeOK
<1>2. req[r].op \in TaskRoutes /\ Payload(req[r].op) = Labels
  BY Payloads DEF At, TaskRoutes
<1> QED  BY <1>1, <1>2 DEF InHand, HoldsTask

LEMMA InsertAttachmentTyped ==
    ASSUME TypeOK, NEW r \in Requests, InsertAttachment(r)
    PROVE  TypeOK'
<1> DEFINE new == [id |-> nextId, task |-> req[r].row.id, label |-> req[r].arg]
<1>1. req[r].arg \in Labels /\ req[r].row.id \in Nat
  <2>1. At(r, {"attach_label_to_task", "detach_label_from_task"}, "write")
    BY DEF InsertAttachment, At
  <2> QED  BY <2>1, LabelInHand DEF TaskRow
<1>2. new \in TaskLabel
  BY <1>1 DEF TaskLabel, TypeOK
<1>3. \/ /\ attachments' = attachments \cup {new}
         /\ nextId' = nextId + 1
         /\ Answer(r, 201)
      \/ UNCHANGED <<attachments, nextId>> /\ Answer(r, 500)
  BY DEF InsertAttachment
<1>4. UNCHANGED <<tenancy, tasks, comments, mail>>
  BY DEF InsertAttachment
<1> HIDE DEF new
<1>5. TablesOK'
  BY <1>2, <1>3, <1>4 DEF TypeOK, TablesOK, tenancy, mail
<1> QED  BY <1>3, <1>5, AnswerOK, AnswerCodes

LEMMA FindAttachmentTyped ==
    ASSUME TypeOK, NEW r \in Requests, FindAttachment(r)
    PROVE  TypeOK'
<1>1. TablesOK'
  BY SameTables DEF FindAttachment
<1>2. ASSUME NEW a \in get_task_label(req[r]),
             req' = [req EXCEPT ![r].pc = "write", ![r].item = a]
      PROVE  TypeOK'
  <2> DEFINE q == [req[r] EXCEPT !.pc = "write", !.item = a]
  <2>1. a \in TaskLabel
    BY DEF get_task_label, TypeOK
  <2>2. /\ req[r].op = "detach_label_from_task" /\ req[r].pc = "check"
        /\ req[r] \in Request /\ InHand(req[r])
    BY DEF FindAttachment, At, TypeOK
  <2>3. q \in Request
    BY <2>1, <2>2 DEF Request
  <2>4. InHand(q)
    BY <2>2 DEF InHand, HoldsTask, Request, Patching
  <2>5. req' = [req EXCEPT ![r] = q]
    BY <1>2 DEF TypeOK
  <2> QED  BY <1>1, <2>3, <2>4, <2>5, OneRecord DEF RecordOK
<1> QED  BY <1>1, <1>2, AnswerOK, AnswerCodes DEF FindAttachment

LEMMA DeleteRowTyped ==
    ASSUME TypeOK, NEW r \in Requests, DeleteAttachment(r) \/ DeleteComment(r)
    PROVE  TypeOK'
<1>1. Answer(r, 200)
  BY DEF DeleteAttachment, DeleteComment
<1>2. TablesOK'
  BY DEF TypeOK, TablesOK, DeleteAttachment, DeleteComment, tenancy, mail
<1> QED  BY <1>1, <1>2, AnswerOK, AnswerCodes

LEMMA InsertCommentTyped ==
    ASSUME TypeOK, NEW r \in Requests, InsertComment(r)
    PROVE  TypeOK'
<1> DEFINE new == [id |-> nextId, task |-> req[r].row.id, author |-> req[r].user]
           q == [req[r] EXCEPT !.pc = "reload", !.item = new]
<1>1. /\ req[r].op = "create_task_comment" /\ req[r].pc = "write"
      /\ req[r] \in Request /\ InHand(req[r])
  BY DEF InsertComment, At, TypeOK
<1>2. new \in CommentRow
  BY <1>1 DEF CommentRow, TypeOK, InHand, HoldsTask, TaskRow, TaskRoutes
<1>3. \/ /\ comments' = comments \cup {new}
         /\ nextId' = nextId + 1
         /\ req' = [req EXCEPT ![r].pc = "reload", ![r].item = new]
      \/ UNCHANGED <<comments, nextId>> /\ Answer(r, 500)
  BY DEF InsertComment
<1>4. UNCHANGED <<tenancy, tasks, attachments, mail>>
  BY DEF InsertComment
<1> HIDE DEF new
<1>5. TablesOK'
  BY <1>2, <1>3, <1>4 DEF TypeOK, TablesOK, tenancy, mail
<1>6. q \in Request
  BY <1>1, <1>2 DEF Request
<1>7. InHand(q)
  BY <1>1 DEF InHand, HoldsTask, Request, Patching
<1>8. CASE req' = [req EXCEPT ![r].pc = "reload", ![r].item = new]
  <2>1. req' = [req EXCEPT ![r] = q]
    BY <1>8 DEF TypeOK
  <2> QED  BY <1>5, <1>6, <1>7, <2>1, OneRecord DEF RecordOK
<1> QED  BY <1>3, <1>5, <1>8, AnswerOK, AnswerCodes

LEMMA ReloadCommentTyped ==
    ASSUME TypeOK, NEW r \in Requests, ReloadComment(r)
    PROVE  TypeOK'
<1>1. TablesOK'
  BY SameTables DEF ReloadComment
<1>2. Answer(r, 201) \/ Answer(r, 404)
  BY DEF ReloadComment
<1> QED  BY <1>1, <1>2, AnswerOK, AnswerCodes

-------------------------------------------------------------------------------
(***************************************************************************)
(* The steps around the handlers.                                          *)
(***************************************************************************)
LEMMA CrashTyped == ASSUME TypeOK, Crash PROVE TypeOK'
<1>1. TablesOK'
  BY DEF TypeOK, TablesOK, Crash, tables, tenancy, rows
<1>2. NoRequest \in Request /\ NoRequest.pc = "idle"
  BY NullPayload DEF NoRequest, Request, Assignee, Codes
<1>3. req' = [r \in Requests |-> NoRequest]
  BY DEF Crash
<1> QED  BY <1>1, <1>2, <1>3 DEF TypeOK, TablesOK

LEMMA AroundTyped ==
    ASSUME TypeOK,
           (\E m \in outbox : send_message(m)) \/ ChangeRole \/ DeleteWorkspace
    PROVE  TypeOK'
<1>1. req' = req
  BY DEF send_message, ChangeRole, DeleteWorkspace
<1>2. CASE \E m \in outbox : send_message(m)
  BY <1>1, <1>2 DEF TypeOK, send_message, tables, tenancy, rows
<1>3. CASE ChangeRole
  <2>1. role' \in [Workspaces -> [Users -> ResourceRole \cup {Null}]]
    BY <1>3 DEF TypeOK, ChangeRole
  <2> QED  BY <1>1, <1>3, <2>1 DEF TypeOK, ChangeRole, rows, mail
<1>4. CASE DeleteWorkspace
  <2>1. PICK w \in workspaces :
           /\ workspaces' = workspaces \ {w}
           /\ role' = [role EXCEPT ![w] = [u \in Users |-> Null]]
           /\ project' = [p \in Projects |->
                             IF Home[p] = w THEN Null ELSE project[p]]
           /\ labels' = {l \in labels : Home[l] # w}
           /\ Cascade({t \in tasks : Home[t.project] = w})
    BY <1>4 DEF DeleteWorkspace
  <2>2. role' \in [Workspaces -> [Users -> ResourceRole \cup {Null}]]
    BY <2>1 DEF TypeOK
  <2>3. project' \in [Projects -> ProjectRow \cup {Null}]
    BY <2>1 DEF TypeOK
  <2>4. /\ tasks' \subseteq TaskRow /\ comments' \subseteq CommentRow
        /\ attachments' \subseteq TaskLabel
    BY <2>1, CascadeTyped
  <2>5. workspaces' \subseteq Workspaces /\ labels' \subseteq Labels
    BY <2>1 DEF TypeOK
  <2>6. UNCHANGED <<inUse, nextId, mail>>
    BY <1>4 DEF DeleteWorkspace
  <2> QED  BY <1>1, <2>2, <2>3, <2>4, <2>5, <2>6 DEF TypeOK, mail
<1> QED  BY <1>2, <1>3, <1>4

LEMMA InitTyped == Init => TypeOK
<1> SUFFICES ASSUME Init PROVE TypeOK
  OBVIOUS
<1>1. project \in [Projects -> ProjectRow \cup {Null}]
  <2>1. PICK c \in Contents :
           project = [p \in Projects |-> [content |-> c, is_archived |-> FALSE]]
    BY DEF Init
  <2>2. [content |-> c, is_archived |-> FALSE] \in ProjectRow
    BY FALSE \in BOOLEAN DEF ProjectRow
  <2> QED  BY <2>1, <2>2
<1>2. NoRequest \in Request /\ NoRequest.pc = "idle"
  BY NullPayload DEF NoRequest, Request, Assignee, Codes
<1> QED  BY <1>1, <1>2, ConstantsOK DEF Init, TypeOK

LEMMA StutterTyped == TypeOK /\ UNCHANGED vars => TypeOK'
BY DEF TypeOK, vars, tables, tenancy, rows, mail

LEMMA StepTyped == ASSUME TypeOK, NEW r \in Requests, Step(r) PROVE TypeOK'
BY LoadCommentTaskTyped, AccessTyped, UpdateProjectTyped, RefreshProjectTyped,
   DeleteProjectTyped, UnknownAssigneeTyped, InsertTaskTyped, UpdateTaskTyped,
   RequeryTaskTyped, DeleteTaskTyped, CheckLabelTyped, InsertAttachmentTyped,
   FindAttachmentTyped, DeleteRowTyped, InsertCommentTyped, ReloadCommentTyped
DEF Step

LEMMA NextTyped == TypeOK /\ [Next]_vars => TypeOK'
<1> SUFFICES ASSUME TypeOK, [Next]_vars PROVE TypeOK'
  OBVIOUS
<1>1. CASE UNCHANGED vars
  BY <1>1, StutterTyped
<1>2. CASE Next
  BY <1>2, LoadTaskTyped, LoadCommentTyped, LoadProjectTyped, StepTyped,
     CrashTyped, AroundTyped DEF Next
<1> QED  BY <1>1, <1>2

\* Every variable keeps its type, and each handler holds the rows that its next
\* statements name.
THEOREM TypeCorrect == Spec => []TypeOK
BY InitTyped, NextTyped, PTL DEF Spec
===============================================================================
