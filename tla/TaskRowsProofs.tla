----------------------------- MODULE TaskRowsProofs -----------------------------
(***************************************************************************)
(* What Tasks promises about rows: none outlives what it belongs to, a     *)
(* label is attached once and in its own workspace, the mail about a       *)
(* committed assignment is in somebody's hands, and a request writes only  *)
(* where its caller was admitted.  Together with Tasks' types they show    *)
(* that the routes implement Board.                                        *)
(***************************************************************************)
EXTENDS TasksRefinement, TasksProofs

\* The steps that only read, and the answers that follow a read.
Reads(r) ==
    \/ LoadTask(r) \/ LoadComment(r) \/ LoadProject(r) \/ LoadCommentTask(r)
    \/ get_task_and_check_access(r) \/ check_project_access(r)
    \/ RefreshProject(r) \/ UnknownAssignee(r) \/ RequeryTask(r)
    \/ CheckLabel(r) \/ FindAttachment(r) \/ ReloadComment(r)
Writes(r) ==
    \/ UpdateProject(r) \/ DeleteProject(r)
    \/ InsertTask(r) \/ UpdateTask(r) \/ DeleteTask(r)
    \/ InsertAttachment(r) \/ DeleteAttachment(r)
    \/ InsertComment(r) \/ DeleteComment(r)
Around ==
    (\E m \in outbox : send_message(m)) \/ Crash \/ ChangeRole \/ DeleteWorkspace

LEMMA NextSplit ==
    Next <=> (\E r \in Requests : Reads(r) \/ Writes(r)) \/ Around
BY DEF Next, Step, Reads, Writes, Around

LEMMA ReadsKeep == ASSUME NEW r \in Requests, Reads(r) PROVE UNCHANGED tables
BY DEF Reads, LoadTask, LoadComment, LoadProject, LoadCommentTask,
       get_task_and_check_access, check_project_access, RefreshProject,
       UnknownAssignee, RequeryTask, CheckLabel, FindAttachment, ReloadComment

\* A request's step leaves the other requests alone.
LEMMA Others ==
    ASSUME TypeOK, NEW r \in Requests, Reads(r) \/ Writes(r),
           NEW x \in Requests, x # r
    PROVE  req'[x] = req[x]
<1>1. req \in [Requests -> Request]
  BY DEF TypeOK
<1>2. CASE LoadTask(r) \/ LoadComment(r) \/ LoadProject(r)
  BY <1>1, <1>2 DEF LoadTask, LoadComment, LoadProject, Begin, Answer
<1>3. CASE LoadCommentTask(r) \/ FindAttachment(r) \/ CheckLabel(r)
  BY <1>1, <1>3 DEF LoadCommentTask, FindAttachment, CheckLabel, Begin, Answer,
     Proceed
<1>4. CASE get_task_and_check_access(r) \/ check_project_access(r)
  BY <1>1, <1>4 DEF get_task_and_check_access, check_project_access, Begin, Answer
<1>5. CASE RefreshProject(r) \/ UnknownAssignee(r) \/ RequeryTask(r)
           \/ ReloadComment(r)
  BY <1>1, <1>5 DEF RefreshProject, UnknownAssignee, RequeryTask, ReloadComment,
     Begin, Answer
<1>6. CASE UpdateProject(r) \/ DeleteProject(r) \/ DeleteTask(r)
  BY <1>1, <1>6 DEF UpdateProject, DeleteProject, DeleteTask, Begin, Answer,
     Reload
<1>7. CASE InsertTask(r) \/ UpdateTask(r)
  BY <1>1, <1>7 DEF InsertTask, UpdateTask, Begin, Answer, Committed
<1>8. CASE InsertAttachment(r) \/ DeleteAttachment(r) \/ InsertComment(r)
           \/ DeleteComment(r)
  BY <1>1, <1>8 DEF InsertAttachment, DeleteAttachment, InsertComment,
     DeleteComment, Begin, Answer
<1> QED  BY <1>2, <1>3, <1>4, <1>5, <1>6, <1>7, <1>8 DEF Reads, Writes

-------------------------------------------------------------------------------
(***************************************************************************)
(* A label is attached once: the unique key, whatever a handler has found. *)
(***************************************************************************)
LEMMA OneAttachmentInsert ==
    ASSUME OneAttachment, NEW r \in Requests, InsertAttachment(r)
    PROVE  OneAttachment'
<1> DEFINE new == [id |-> nextId, task |-> req[r].row.id, label |-> req[r].arg]
<1>1. CASE attachments' = attachments
  BY <1>1 DEF OneAttachment
<1>2. CASE attachments' = attachments \cup {new} /\ TaskLabelFree(req[r])
  <2>1. \A a \in attachments : ~(a.task = new.task /\ a.label = new.label)
    BY <1>2 DEF TaskLabelFree, get_task_label
  <2> HIDE DEF new
  <2> QED  BY <1>2, <2>1 DEF OneAttachment
<1> QED  BY <1>1, <1>2 DEF InsertAttachment

LEMMA FewerAttachments ==
    ASSUME OneAttachment, attachments' \subseteq attachments
    PROVE  OneAttachment'
BY DEF OneAttachment

LEMMA OneAttachmentNext == OneAttachment /\ [Next]_vars => OneAttachment'
<1> SUFFICES ASSUME OneAttachment, [Next]_vars PROVE OneAttachment'
  OBVIOUS
<1>1. CASE UNCHANGED vars
  BY <1>1, FewerAttachments DEF vars, tables, rows
<1>2. ASSUME NEW r \in Requests, Reads(r) PROVE OneAttachment'
  BY <1>2, ReadsKeep, FewerAttachments DEF tables, rows
<1>3. ASSUME NEW r \in Requests, Writes(r) PROVE OneAttachment'
  <2>1. CASE InsertAttachment(r)
    BY <2>1, OneAttachmentInsert
  <2>2. CASE ~InsertAttachment(r)
    <3>1. attachments' \subseteq attachments
      BY <1>3, <2>2 DEF Writes, UpdateProject, DeleteProject, InsertTask,
           UpdateTask, DeleteTask, DeleteAttachment, InsertComment,
           DeleteComment, Cascade, rows
    <3> QED  BY <3>1, FewerAttachments
  <2> QED  BY <2>1, <2>2
<1>4. CASE Around
  <2>1. attachments' \subseteq attachments
    BY <1>4 DEF Around, send_message, Crash, ChangeRole, DeleteWorkspace,
                Cascade, tables, rows
  <2> QED  BY <2>1, FewerAttachments
<1> QED  BY <1>1, <1>2, <1>3, <1>4, NextSplit

\* However the requests that attach a label interleave, a task has it once.
THEOREM AttachedOnce == Spec => []OneAttachment
<1>1. Init => OneAttachment
  BY DEF Init, OneAttachment
<1> QED  BY <1>1, OneAttachmentNext, PTL DEF Spec

-------------------------------------------------------------------------------
(***************************************************************************)
(* A label is attached in its own workspace.  The check and the INSERT are *)
(* two steps: what the handler has found out must stay true in between.    *)
(***************************************************************************)
\* The ids in use have been handed out, and an id is of one project for good.
OldIds ==
    /\ \A t \in tasks : t.id < nextId
    /\ \A s, t \in tasks : s.id = t.id => s.project = t.project
    /\ \A a \in attachments : a.task < nextId

\* What attach_label_to_task has found out.
Attaching(q) ==
    q.op = "attach_label_to_task" /\ q.pc # "idle" =>
        /\ q.row.id < nextId
        /\ \A t \in tasks : t.id = q.row.id => t.project = q.row.project
        /\ q.pc # "access" => q.at = Home[q.row.project]
        /\ q.pc = "write" => Home[q.arg] = q.at

LabelsInv ==
    /\ OldIds
    /\ LabelsAtHome
    /\ \A r \in Requests : Attaching(req[r])

LEMMA LabelsInit == Init => LabelsInv
<1> SUFFICES ASSUME Init PROVE LabelsInv
  OBVIOUS
<1>1. tasks = {} /\ attachments = {} /\ req = [r \in Requests |-> NoRequest]
  BY DEF Init
<1>2. OldIds /\ LabelsAtHome
  BY <1>1 DEF OldIds, LabelsAtHome
<1>3. NoRequest.pc = "idle"
  BY DEF NoRequest
<1> QED  BY <1>1, <1>2, <1>3 DEF LabelsInv, Attaching

\* A step that changes no id and no project of a task, but may insert a task
\* with the next id, keeps what is known about tasks and their labels.
LEMMA SitesKept ==
    ASSUME TypeOK, OldIds, LabelsAtHome, NEW p,
           nextId' \in Nat, nextId' >= nextId, attachments' \subseteq attachments,
           \A t \in tasks' :
              \/ \E s \in tasks : t.id = s.id /\ t.project = s.project
              \/ t.id = nextId /\ t.project = p /\ nextId' = nextId + 1
    PROVE  /\ OldIds'
           /\ LabelsAtHome'
           /\ \A q \in Request :
                 q.row.id \in Nat /\ Attaching(q) => Attaching(q)'
<1>1. nextId \in Nat /\ \A t \in tasks : t.id \in Nat
  BY DEF TypeOK, TaskRow
<1>2. \A a \in attachments : a.task \in Nat
  BY DEF TypeOK, TaskLabel
<1>3. OldIds'
  <2>1. \A t \in tasks' : t.id < nextId'
    BY <1>1 DEF OldIds
  <2>2. \A s, t \in tasks' : s.id = t.id => s.project = t.project
    BY <1>1 DEF OldIds
  <2>3. \A a \in attachments' : a.task < nextId'
    BY <1>1, <1>2 DEF OldIds
  <2> QED  BY <2>1, <2>2, <2>3 DEF OldIds
<1>4. LabelsAtHome'
  BY <1>1, <1>2 DEF OldIds, LabelsAtHome
<1>5. ASSUME NEW q \in Request, q.row.id \in Nat, Attaching(q)
      PROVE  Attaching(q)'
  BY <1>1, <1>5 DEF Attaching
<1> QED  BY <1>3, <1>4, <1>5

LEMMA AttachingRow ==
    ASSUME TypeOK, NEW r \in Requests,
           req[r].op = "attach_label_to_task", req[r].pc # "idle"
    PROVE  /\ req[r] \in Request /\ req[r].row \in TaskRow
           /\ req[r].row.id \in Nat
           /\ req[r].project = req[r].row.project
BY DEF TypeOK, InHand, HoldsTask, TaskRoutes, TaskRow

\* So a step of r keeps the invariant when it keeps the tasks' projects and what
\* r itself knows.
LEMMA RequestKeepsLabels ==
    ASSUME TypeOK, LabelsInv, NEW r \in Requests, NEW p,
           Reads(r) \/ Writes(r), Attaching(req[r])',
           nextId' \in Nat, nextId' >= nextId, attachments' \subseteq attachments,
           \A t \in tasks' :
              \/ \E s \in tasks : t.id = s.id /\ t.project = s.project
              \/ t.id = nextId /\ t.project = p /\ nextId' = nextId + 1
    PROVE  LabelsInv'
<1>1. OldIds' /\ LabelsAtHome'
  BY SitesKept DEF LabelsInv
<1>2. ASSUME NEW x \in Requests, x # r PROVE Attaching(req[x])'
  <2>1. req'[x] = req[x]
    BY <1>2, Others
  <2>2. CASE req[x].op = "attach_label_to_task" /\ req[x].pc # "idle"
    <3> DEFINE q == req[x]
    <3>1. q \in Request /\ q.row.id \in Nat /\ Attaching(q)
      BY <2>2, AttachingRow DEF LabelsInv
    <3>2. /\ q.row.id < nextId'
          /\ \A t \in tasks' : t.id = q.row.id => t.project = q.row.project
      <4>1. nextId \in Nat
        BY DEF TypeOK
      <4> QED  BY <2>2, <3>1, <4>1 DEF Attaching
    <3>3. /\ q.pc # "access" => q.at = Home[q.row.project]
          /\ q.pc = "write" => Home[q.arg] = q.at
      BY <2>2, <3>1 DEF Attaching
    <3> QED  BY <2>1, <3>2, <3>3 DEF Attaching
  <2>3. CASE ~(req[x].op = "attach_label_to_task" /\ req[x].pc # "idle")
    BY <2>1, <2>3 DEF Attaching
  <2> QED  BY <2>2, <2>3
<1>3. \A x \in Requests : Attaching(req[x])'
  BY <1>2
<1> QED  BY <1>1, <1>3 DEF LabelsInv

\* The other routes, and an answer, know nothing of labels.
LEMMA NotAttaching ==
    ASSUME TypeOK, NEW r \in Requests, Reads(r) \/ Writes(r),
           ~(LoadTask(r) \/ get_task_and_check_access(r) \/ CheckLabel(r))
    PROVE  Attaching(req[r])'
<1>1. req \in [Requests -> Request]
  BY DEF TypeOK
<1>2. NoRequest.pc = "idle"
  BY DEF NoRequest
<1>3. (\E code : Answer(r, code)) => req'[r].pc = "idle"
  BY <1>1, <1>2 DEF Answer, Begin, NoRequest
<1>4. ASSUME Reads(r)
      PROVE  \/ \E code : Answer(r, code)
             \/ req'[r].pc = "idle"
             \/ req'[r].op # "attach_label_to_task"
  <2>1. CASE RefreshProject(r) \/ UnknownAssignee(r) \/ ReloadComment(r)
    <3>1. CASE RefreshProject(r)
      BY <3>1 DEF RefreshProject
    <3>2. CASE UnknownAssignee(r)
      BY <3>2 DEF UnknownAssignee
    <3>3. CASE ReloadComment(r)
      BY <3>3 DEF ReloadComment
    <3> QED  BY <2>1, <3>1, <3>2, <3>3
  <2>2. CASE LoadComment(r) \/ LoadProject(r)
    <3>1. CASE LoadComment(r)
      <4>1. \/ Answer(r, 404)
            \/ \E u, c : Begin(r, [NoRequest EXCEPT
                   !.pc = "task", !.op = "delete_comment", !.user = u,
                   !.item = c])
        BY <3>1 DEF LoadComment
      <4> QED  BY <1>1, <4>1 DEF Begin, NoRequest
    <3>2. CASE LoadProject(r)
      <4>1. \/ Answer(r, 404)
            \/ \E op \in ProjectRoutes : \E u, p, arg, row :
                   Begin(r, [NoRequest EXCEPT
                      !.pc = "access", !.op = op, !.user = u, !.project = p,
                      !.arg = arg, !.row = row])
        BY <3>2 DEF LoadProject
      <4> QED  BY <1>1, <4>1 DEF Begin, NoRequest, ProjectRoutes
    <3> QED  BY <2>2, <3>1, <3>2
  <2>3. CASE LoadCommentTask(r)
    BY <1>1, <2>3 DEF LoadCommentTask, At, Request
  <2>4. CASE check_project_access(r)
    BY <1>1, <2>4 DEF check_project_access, At, ProjectRoutes, Request
  <2>5. CASE FindAttachment(r)
    BY <1>1, <2>5 DEF FindAttachment, At, Request
  <2>6. CASE RequeryTask(r)
    <3>1. \/ Answer(r, 404)
          \/ \E code, task : Begin(r, [NoRequest EXCEPT !.status = code,
                                                       !.shown = task])
      BY <2>6 DEF RequeryTask
    <3> QED  BY <1>1, <3>1 DEF Begin, NoRequest
  <2> QED  BY <2>1, <2>2, <2>3, <2>4, <2>5, <2>6, <1>4 DEF Reads
<1>5. ASSUME Writes(r)
      PROVE  \/ \E code : Answer(r, code)
             \/ req'[r].pc = "idle"
             \/ req'[r].op # "attach_label_to_task"
  <2>1. CASE \/ DeleteProject(r) \/ DeleteTask(r) \/ InsertAttachment(r)
             \/ DeleteAttachment(r) \/ DeleteComment(r)
    BY <2>1 DEF DeleteProject, DeleteTask, InsertAttachment, DeleteAttachment,
                DeleteComment
  <2>2. CASE UpdateProject(r)
    BY <1>1, <2>2 DEF UpdateProject, At, Patching, Reload, Request
  <2>3. CASE InsertTask(r) \/ UpdateTask(r)
    BY <1>1, <2>3 DEF InsertTask, UpdateTask, At, Committed, Request
  <2>4. CASE InsertComment(r)
    BY <1>1, <2>4 DEF InsertComment, At, Request
  <2> QED  BY <2>1, <2>2, <2>3, <2>4, <1>5 DEF Writes
<1>6. req'[r].pc = "idle" \/ req'[r].op # "attach_label_to_task"
  BY <1>3, <1>4, <1>5
<1> QED  BY <1>6 DEF Attaching

LEMMA LoadKnows ==
    ASSUME TypeOK, OldIds, NEW r \in Requests, LoadTask(r)
    PROVE  Attaching(req[r])'
<1>1. req \in [Requests -> Request] /\ UNCHANGED <<tasks, nextId>>
  BY DEF TypeOK, LoadTask, tables, rows
<1>2. CASE Answer(r, 404)
  BY <1>1, <1>2 DEF Answer, Begin, NoRequest, Attaching
<1>3. ASSUME NEW op \in TaskRoutes, NEW u \in Users, NEW t \in tasks,
             NEW arg \in Payload(op),
             Begin(r, [NoRequest EXCEPT
                       !.pc = "access", !.op = op, !.user = u,
                       !.project = t.project, !.arg = arg, !.row = t,
                       !.assignee = t.assignee])
      PROVE  Attaching(req[r])'
  <2>1. req'[r].pc = "access" /\ req'[r].row = t
    BY <1>1, <1>3 DEF Begin, NoRequest
  <2>2. t.id < nextId /\ \A s \in tasks : s.id = t.id => s.project = t.project
    BY DEF OldIds
  <2> QED  BY <1>1, <2>1, <2>2 DEF Attaching
<1> QED  BY <1>2, <1>3 DEF LoadTask

LEMMA AccessKnows ==
    ASSUME TypeOK, LabelsInv, NEW r \in Requests, get_task_and_check_access(r)
    PROVE  Attaching(req[r])'
<1> DEFINE q == req[r]
<1>1. req \in [Requests -> Request] /\ UNCHANGED <<tasks, nextId>>
  BY DEF TypeOK, get_task_and_check_access, tables, rows
<1>2. \/ \E code : Answer(r, code)
      \/ req' = [req EXCEPT ![r].at = Home[q.project],
                            ![r].pc = IF q.arg \in Labels THEN "check"
                                                          ELSE "write"]
  BY DEF get_task_and_check_access, WorkspaceOf
<1>3. CASE \E code : Answer(r, code)
  <2>1. req'[r].pc = "idle"
    BY <1>1, <1>3 DEF Answer, Begin, NoRequest
  <2> QED  BY <2>1 DEF Attaching
<1>4. CASE /\ q.op = "attach_label_to_task"
           /\ req' = [req EXCEPT ![r].at = Home[q.project],
                            ![r].pc = IF q.arg \in Labels THEN "check"
                                                          ELSE "write"]
  <2>1. q.pc = "access"
    BY DEF get_task_and_check_access, At
  <2>2. q.arg \in Labels /\ q.project = q.row.project
    BY <1>4, <2>1, LabelInHand DEF At
  <2>3. /\ q.row.id < nextId
        /\ \A t \in tasks : t.id = q.row.id => t.project = q.row.project
    BY <1>4, <2>1 DEF LabelsInv, Attaching
  <2>4. /\ req'[r].pc = "check" /\ req'[r].row = q.row
        /\ req'[r].at = Home[q.row.project]
    BY <1>1, <1>4, <2>2 DEF Request
  <2> QED  BY <1>1, <2>3, <2>4 DEF Attaching
<1>5. CASE /\ q.op # "attach_label_to_task"
           /\ req' = [req EXCEPT ![r].at = Home[q.project],
                            ![r].pc = IF q.arg \in Labels THEN "check"
                                                          ELSE "write"]
  <2>1. req'[r].op = q.op
    BY <1>1, <1>5 DEF Request
  <2> QED  BY <1>5, <2>1 DEF Attaching
<1> QED  BY <1>2, <1>3, <1>4, <1>5

LEMMA CheckKnows ==
    ASSUME TypeOK, LabelsInv, NEW r \in Requests, CheckLabel(r)
    PROVE  Attaching(req[r])'
<1> DEFINE q == req[r]
<1>1. req \in [Requests -> Request] /\ UNCHANGED <<tasks, nextId>>
  BY DEF TypeOK, CheckLabel, tables, rows
<1>2. \/ \E code : Answer(r, code)
      \/ Proceed(r, "write") /\ Home[q.arg] = q.at
  BY DEF CheckLabel, LabelInWorkspace
<1>3. CASE \E code : Answer(r, code)
  <2>1. req'[r].pc = "idle"
    BY <1>1, <1>3 DEF Answer, Begin, NoRequest
  <2> QED  BY <2>1 DEF Attaching
<1>4. CASE Proceed(r, "write") /\ Home[q.arg] = q.at
  <2>1. q.op = "attach_label_to_task" /\ q.pc = "check"
    BY DEF CheckLabel, At
  <2>2. /\ q.row.id < nextId
        /\ \A t \in tasks : t.id = q.row.id => t.project = q.row.project
        /\ q.at = Home[q.row.project]
    BY <2>1 DEF LabelsInv, Attaching
  <2>3. /\ req'[r].row = q.row /\ req'[r].at = q.at /\ req'[r].arg = q.arg
    BY <1>1, <1>4 DEF Proceed, Request
  <2> QED  BY <1>1, <1>4, <2>2, <2>3 DEF Attaching
<1> QED  BY <1>2, <1>3, <1>4

LEMMA ReadsKeepLabels ==
    ASSUME TypeOK, LabelsInv, NEW r \in Requests, Reads(r)
    PROVE  LabelsInv'
<1>1. UNCHANGED <<tasks, attachments, nextId>> /\ nextId \in Nat
  BY ReadsKeep DEF tables, rows, TypeOK
<1>2. Attaching(req[r])'
  BY NotAttaching, LoadKnows, AccessKnows, CheckKnows DEF LabelsInv
<1>3. nextId' \in Nat /\ nextId' >= nextId
  BY <1>1
<1> QED  BY <1>1, <1>2, <1>3, RequestKeepsLabels

LEMMA WritesKeepLabels ==
    ASSUME TypeOK, LabelsInv, NEW r \in Requests, Writes(r),
           ~InsertAttachment(r)
    PROVE  LabelsInv'
<1>1. nextId \in Nat
  BY DEF TypeOK
<1>2. Attaching(req[r])'
  <2>1. req[r].pc = "write"
    BY DEF Writes, At, UpdateProject, DeleteProject, InsertTask, UpdateTask,
       DeleteTask, InsertAttachment, DeleteAttachment, InsertComment,
       DeleteComment
  <2>2. ~(LoadTask(r) \/ get_task_and_check_access(r) \/ CheckLabel(r))
    BY <2>1 DEF LoadTask, MayStart, get_task_and_check_access, CheckLabel, At
  <2> QED  BY <2>2, NotAttaching
<1>3. CASE InsertTask(r)
  <2>1. PICK new : /\ new.id = nextId /\ new.project = req[r].project
                   /\ \/ tasks' = tasks \cup {new} /\ nextId' = nextId + 1
                      \/ UNCHANGED <<tasks, nextId>>
    <3> DEFINE n == [id |-> nextId, project |-> req[r].project,
                     reporter |-> req[r].user, assignee |-> req[r].arg.assignee,
                     content |-> req[r].arg.content]
    <3>1. /\ n.id = nextId /\ n.project = req[r].project
          /\ \/ tasks' = tasks \cup {n} /\ nextId' = nextId + 1
             \/ UNCHANGED <<tasks, nextId>>
      BY <1>3 DEF InsertTask
    <3> QED  BY <3>1
  <2>2. attachments' \subseteq attachments
    BY <1>3 DEF InsertTask
  <2>3. nextId' \in Nat /\ nextId' >= nextId
    BY <1>1, <2>1
  <2>4. \A t \in tasks' :
           \/ \E s \in tasks : t.id = s.id /\ t.project = s.project
           \/ t.id = nextId /\ t.project = req[r].project /\ nextId' = nextId + 1
    BY <2>1
  <2> QED  BY <1>2, <2>2, <2>3, <2>4, RequestKeepsLabels
<1>4. CASE UpdateTask(r)
  <2>1. UNCHANGED <<attachments, nextId>>
    BY <1>4 DEF UpdateTask
  <2>2. \A t \in tasks' : \E s \in tasks : t.id = s.id /\ t.project = s.project
    BY <1>4, PatchWrites
  <2>3. nextId' \in Nat /\ nextId' >= nextId
    BY <1>1, <2>1
  <2> QED  BY <1>2, <2>1, <2>2, <2>3, RequestKeepsLabels
<1>5. CASE ~InsertTask(r) /\ ~UpdateTask(r)
  <2>1. tasks' \subseteq tasks /\ attachments' \subseteq attachments
    BY <1>5 DEF Writes, UpdateProject, DeleteProject, DeleteTask,
         DeleteAttachment, InsertComment, DeleteComment, Cascade, rows
  <2>2. nextId' = nextId \/ nextId' = nextId + 1
    BY <1>5 DEF Writes, UpdateProject, DeleteProject, DeleteTask,
         DeleteAttachment, InsertComment, DeleteComment, rows
  <2>3. nextId' \in Nat /\ nextId' >= nextId
    BY <1>1, <2>2
  <2> QED  BY <1>2, <2>1, <2>3, RequestKeepsLabels
<1> QED  BY <1>3, <1>4, <1>5

LEMMA InsertKeepsLabels ==
    ASSUME TypeOK, LabelsInv, NEW r \in Requests, InsertAttachment(r)
    PROVE  LabelsInv'
<1> DEFINE q == req[r]
           new == [id |-> nextId, task |-> q.row.id, label |-> q.arg]
<1>1. nextId \in Nat /\ req \in [Requests -> Request] /\ tasks' = tasks
  BY DEF TypeOK, InsertAttachment
<1>2. CASE UNCHANGED <<attachments, nextId>>
  <2>1. Attaching(req[r])'
    <3>1. Writes(r) /\ ~(LoadTask(r) \/ get_task_and_check_access(r)
                                     \/ CheckLabel(r))
      BY DEF Writes, LoadTask, MayStart, get_task_and_check_access, CheckLabel,
             At, InsertAttachment
    <3> QED  BY <3>1, NotAttaching
  <2>2. nextId' \in Nat /\ nextId' >= nextId
    BY <1>1, <1>2
  <2> QED  BY <1>1, <1>2, <2>1, <2>2, RequestKeepsLabels DEF Writes
<1>3. CASE attachments' = attachments \cup {new} /\ nextId' = nextId + 1
           /\ Answer(r, 201)
  <2>1. /\ q.op = "attach_label_to_task" /\ q.pc = "write"
        /\ q.row.id \in Nat /\ q.row.id < nextId
        /\ \A t \in tasks : t.id = q.row.id => t.project = q.row.project
        /\ Home[q.arg] = Home[q.row.project]
    <3>1. q.op = "attach_label_to_task" /\ q.pc = "write"
      BY DEF InsertAttachment, At
    <3> QED  BY <3>1, AttachingRow DEF LabelsInv, Attaching
  <2>2. \A t \in tasks : t.id \in Nat
    BY DEF TypeOK, TaskRow
  <2>3. \A a \in attachments : a.task \in Nat
    BY DEF TypeOK, TaskLabel
  <2>4. new.task = q.row.id /\ new.label = q.arg
    OBVIOUS
  <2> HIDE DEF new
  <2>5. OldIds'
    BY <1>1, <1>3, <2>1, <2>2, <2>3, <2>4 DEF LabelsInv, OldIds
  <2>6. LabelsAtHome'
    BY <1>1, <1>3, <2>1, <2>4 DEF LabelsInv, LabelsAtHome
  <2>7. ASSUME NEW x \in Requests PROVE Attaching(req[x])'
    <3>1. CASE x = r
      <4>1. req'[r].pc = "idle"
        BY <1>1, <1>3 DEF Answer, Begin, NoRequest
      <4> QED  BY <3>1, <4>1 DEF Attaching
    <3>2. CASE x # r
      <4>1. req'[x] = req[x]
        BY <3>2, Others DEF Writes
      <4>2. Attaching(req[x])
        BY DEF LabelsInv
      <4>3. req[x].op = "attach_label_to_task" /\ req[x].pc # "idle" =>
              req[x].row.id \in Nat
        BY AttachingRow
      <4> QED  BY <1>1, <1>3, <4>1, <4>2, <4>3 DEF Attaching
    <3> QED  BY <3>1, <3>2
  <2> QED  BY <2>5, <2>6, <2>7 DEF LabelsInv
<1> QED  BY <1>2, <1>3 DEF InsertAttachment

LEMMA AroundKeepsLabels ==
    ASSUME TypeOK, LabelsInv, Around
    PROVE  LabelsInv'
<1>1. /\ tasks' \subseteq tasks /\ attachments' \subseteq attachments
      /\ nextId' = nextId
  BY DEF Around, send_message, Crash, ChangeRole, DeleteWorkspace, Cascade,
         tables, rows
<1>2. req' = req \/ req' = [r \in Requests |-> NoRequest]
  BY DEF Around, send_message, Crash, ChangeRole, DeleteWorkspace
<1>3. OldIds' /\ LabelsAtHome'
  BY <1>1 DEF LabelsInv, OldIds, LabelsAtHome
<1>4. CASE req' = req
  BY <1>1, <1>3, <1>4 DEF LabelsInv, Attaching
<1>5. CASE req' = [r \in Requests |-> NoRequest]
  <2>1. \A r \in Requests : req'[r].pc = "idle"
    BY <1>5 DEF NoRequest
  <2> QED  BY <1>3, <2>1 DEF LabelsInv, Attaching
<1> QED  BY <1>2, <1>4, <1>5

LEMMA LabelsNext == TypeOK /\ LabelsInv /\ [Next]_vars => LabelsInv'
<1> SUFFICES ASSUME TypeOK, LabelsInv, [Next]_vars PROVE LabelsInv'
  OBVIOUS
<1>1. CASE UNCHANGED vars
  BY <1>1 DEF vars, tables, rows, LabelsInv, OldIds, LabelsAtHome, Attaching
<1>2. CASE Next
  BY <1>2, NextSplit, ReadsKeepLabels, WritesKeepLabels, InsertKeepsLabels,
     AroundKeepsLabels
<1> QED  BY <1>1, <1>2

\* Between the check of a label and its INSERT the task may be patched or
\* deleted and the workspace may go; the label that is attached is still of the
\* task's workspace.
THEOREM LabelsStayHome == Spec => []LabelsAtHome
<1>1. TypeOK /\ LabelsInv => LabelsAtHome
  BY DEF LabelsInv
<1> QED  BY <1>1, InitTyped, NextTyped, LabelsInit, LabelsNext, PTL DEF Spec

-------------------------------------------------------------------------------
(***************************************************************************)
(* No row outlives what it belongs to.                                     *)
(***************************************************************************)
LEMMA RowsInit == Init => NoDanglingRows
<1> SUFFICES ASSUME Init PROVE NoDanglingRows
  OBVIOUS
<1>1. /\ workspaces = Workspaces /\ labels = Labels
      /\ tasks = {} /\ comments = {} /\ attachments = {}
  BY DEF Init
<1> QED  BY <1>1, ConstantsOK DEF NoDanglingRows

\* What a deletion of tasks leaves of comments and attachments has its task.
LEMMA CascadeKeeps ==
    ASSUME NoDanglingRows, NEW gone, Cascade(gone)
    PROVE  /\ tasks' \subseteq tasks /\ attachments' \subseteq attachments
           /\ \A t \in tasks' : t \notin gone
           /\ \A c \in comments' : \E t \in tasks' : t.id = c.task
           /\ \A a \in attachments' : \E t \in tasks' : t.id = a.task
<1>1. \A t \in tasks : t \notin gone => t \in tasks'
  BY DEF Cascade
<1>2. ASSUME NEW c \in comments' PROVE \E t \in tasks' : t.id = c.task
  <2>1. PICK t \in tasks : t.id = c.task
    BY DEF Cascade, NoDanglingRows
  <2>2. t \notin gone
    BY <2>1 DEF Cascade
  <2> QED  BY <1>1, <2>1, <2>2
<1>3. ASSUME NEW a \in attachments' PROVE \E t \in tasks' : t.id = a.task
  <2>1. PICK t \in tasks : t.id = a.task
    BY DEF Cascade, NoDanglingRows
  <2>2. t \notin gone
    BY <2>1 DEF Cascade
  <2> QED  BY <1>1, <2>1, <2>2
<1> QED  BY <1>2, <1>3 DEF Cascade

LEMMA SameRows ==
    ASSUME NoDanglingRows,
           UNCHANGED <<workspaces, project, labels, tasks, comments, attachments>>
    PROVE  NoDanglingRows'
BY DEF NoDanglingRows

\* An UPDATE makes no project and takes none away.
LEMMA ProjectsStay ==
    ASSUME TypeOK, NEW r \in Requests, UpdateProject(r)
    PROVE  \A p \in Projects : project'[p] # Null <=> project[p] # Null
<1> DEFINE q == req[r]
           new == Applied(q.row, q.arg)
           stored == project[q.project]
<1>1. /\ q.op \in Patching /\ InHand(q) /\ q.pc = "write"
  BY DEF UpdateProject, At, TypeOK
<1>2. /\ q.row \in ProjectRow /\ q.project \in Projects
      /\ q.arg \in ProjectUpdate \cup {[content |-> Null, is_archived |-> TRUE]}
  BY <1>1, Payloads DEF InHand, Patching
<1>3. new \in ProjectRow
  BY <1>2, AppliedProject
<1>4. \/ project' = project
      \/ /\ stored # Null
         /\ project' = [project EXCEPT ![q.project] = Written(stored, q.row, new)]
  BY DEF UpdateProject
<1>5. stored # Null => Written(stored, q.row, new) # Null
  <2>1. stored \in ProjectRow \cup {Null}
    BY <1>2 DEF TypeOK
  <2> HIDE DEF new, stored
  <2> QED  BY <1>2, <1>3, <2>1, WrittenProject, RowsOK
<1> HIDE DEF new
<1> QED  BY <1>2, <1>4, <1>5 DEF TypeOK

LEMMA ProjectKeepsRows ==
    ASSUME TypeOK, NoDanglingRows, NEW r \in Requests,
           UpdateProject(r) \/ DeleteProject(r)
    PROVE  NoDanglingRows'
<1>1. CASE UpdateProject(r)
  <2>1. UNCHANGED <<workspaces, labels, tasks, comments, attachments>>
    BY <1>1 DEF UpdateProject, rows
  <2>2. \A p \in Projects : project'[p] # Null <=> project[p] # Null
    BY <1>1, ProjectsStay
  <2>3. \A t \in tasks : t.project \in Projects
    BY DEF TypeOK, TaskRow
  <2> QED  BY <2>1, <2>2, <2>3 DEF NoDanglingRows
<1>2. CASE DeleteProject(r)
  <2> DEFINE p == req[r].project
             gone == {t \in tasks : t.project = p}
  <2>1. /\ project' = [project EXCEPT ![p] = Null]
        /\ Cascade(gone) /\ UNCHANGED <<workspaces, labels>>
    BY <1>2 DEF DeleteProject
  <2>2. /\ tasks' \subseteq tasks /\ attachments' \subseteq attachments
        /\ \A t \in tasks' : t \notin gone
        /\ \A c \in comments' : \E t \in tasks' : t.id = c.task
        /\ \A a \in attachments' : \E t \in tasks' : t.id = a.task
    BY <2>1, CascadeKeeps
  <2>3. \A x \in Projects : project'[x] # Null => project[x] # Null
    BY <2>1 DEF TypeOK
  <2>4. \A t \in tasks' : t.project # p /\ t.project \in Projects
    BY <2>2 DEF TypeOK, TaskRow
  <2>5. \A t \in tasks' : project'[t.project] # Null
    BY <2>1, <2>2, <2>4 DEF NoDanglingRows, TypeOK
  <2>6. \A x \in Projects : project'[x] # Null => Home[x] \in workspaces'
    BY <2>1, <2>3 DEF NoDanglingRows
  <2> HIDE DEF gone
  <2> QED  BY <2>1, <2>2, <2>5, <2>6 DEF NoDanglingRows
<1> QED  BY <1>1, <1>2

LEMMA TasksKeepRows ==
    ASSUME TypeOK, NoDanglingRows, NEW r \in Requests,
           InsertTask(r) \/ UpdateTask(r) \/ DeleteTask(r)
    PROVE  NoDanglingRows'
<1>1. CASE InsertTask(r)
  <2>1. /\ tasks \subseteq tasks'
        /\ \A t \in tasks' : t \in tasks \/ project[t.project] # Null
    BY <1>1 DEF InsertTask
  <2>2. UNCHANGED <<workspaces, project, labels, comments, attachments>>
    BY <1>1 DEF InsertTask, tenancy
  <2> QED  BY <2>1, <2>2 DEF NoDanglingRows
<1>2. CASE UpdateTask(r)
  <2>1. /\ \A t \in tasks' : \E s \in tasks :
              t.id = s.id /\ t.project = s.project
        /\ \A s \in tasks : \E t \in tasks' :
              t.id = s.id /\ t.project = s.project
    BY <1>2, PatchWrites
  <2>2. UNCHANGED <<workspaces, project, labels, comments, attachments>>
    BY <1>2 DEF UpdateTask, tenancy
  <2> QED  BY <2>1, <2>2 DEF NoDanglingRows
<1>3. CASE DeleteTask(r)
  <2>1. Cascade(Task(req[r].row.id)) /\ UNCHANGED <<workspaces, project, labels>>
    BY <1>3 DEF DeleteTask, tenancy
  <2>2. /\ tasks' \subseteq tasks /\ attachments' \subseteq attachments
        /\ \A c \in comments' : \E t \in tasks' : t.id = c.task
        /\ \A a \in attachments' : \E t \in tasks' : t.id = a.task
    BY <2>1, CascadeKeeps
  <2> QED  BY <2>1, <2>2 DEF NoDanglingRows
<1> QED  BY <1>1, <1>2, <1>3

LEMMA PartsKeepRows ==
    ASSUME NoDanglingRows, NEW r \in Requests,
           \/ InsertAttachment(r) \/ DeleteAttachment(r)
           \/ InsertComment(r) \/ DeleteComment(r)
    PROVE  NoDanglingRows'
<1>1. CASE InsertAttachment(r)
  <2>1. \A a \in attachments' :
           a \in attachments \/ (a.label \in labels /\ \E t \in tasks : t.id = a.task)
    BY <1>1 DEF InsertAttachment, Task
  <2>2. UNCHANGED <<workspaces, project, labels, tasks, comments>>
    BY <1>1 DEF InsertAttachment, tenancy
  <2> QED  BY <2>1, <2>2 DEF NoDanglingRows
<1>2. CASE InsertComment(r)
  <2>1. \A c \in comments' :
           c \in comments \/ \E t \in tasks : t.id = c.task
    BY <1>2 DEF InsertComment, Task
  <2>2. UNCHANGED <<workspaces, project, labels, tasks, attachments>>
    BY <1>2 DEF InsertComment, tenancy
  <2> QED  BY <2>1, <2>2 DEF NoDanglingRows
<1>3. CASE DeleteAttachment(r) \/ DeleteComment(r)
  <2>1. /\ comments' \subseteq comments /\ attachments' \subseteq attachments
        /\ UNCHANGED <<workspaces, project, labels, tasks>>
    BY <1>3 DEF DeleteAttachment, DeleteComment, tenancy
  <2> QED  BY <2>1 DEF NoDanglingRows
<1> QED  BY <1>1, <1>2, <1>3

\* With a workspace go its labels; an attachment that stays has its label
\* because a label and its tasks are of one workspace.
LEMMA WorkspaceKeepsRows ==
    ASSUME TypeOK, NoDanglingRows, LabelsAtHome, DeleteWorkspace
    PROVE  NoDanglingRows'
<1>1. PICK w \in workspaces :
         /\ workspaces' = workspaces \ {w}
         /\ project' = [p \in Projects |-> IF Home[p] = w THEN Null ELSE project[p]]
         /\ labels' = {l \in labels : Home[l] # w}
         /\ Cascade({t \in tasks : Home[t.project] = w})
  BY DEF DeleteWorkspace
<1>2. /\ tasks' \subseteq tasks /\ attachments' \subseteq attachments
      /\ \A t \in tasks' : t \notin {s \in tasks : Home[s.project] = w}
      /\ \A c \in comments' : \E t \in tasks' : t.id = c.task
      /\ \A a \in attachments' : \E t \in tasks' : t.id = a.task
  BY <1>1, CascadeKeeps
<1>3. \A t \in tasks' : Home[t.project] # w /\ t.project \in Projects
  BY <1>2 DEF TypeOK, TaskRow
<1>4. \A p \in Projects : project'[p] # Null => Home[p] \in workspaces'
  BY <1>1 DEF NoDanglingRows
<1>5. \A l \in labels' : Home[l] \in workspaces'
  BY <1>1 DEF NoDanglingRows
<1>6. \A t \in tasks' : project'[t.project] # Null
  BY <1>1, <1>2, <1>3 DEF NoDanglingRows
<1>7. \A a \in attachments' : a.label \in labels'
  BY <1>1, <1>2, <1>3 DEF NoDanglingRows, LabelsAtHome
<1> QED  BY <1>2, <1>4, <1>5, <1>6, <1>7 DEF NoDanglingRows

LEMMA RowsNext ==
    TypeOK /\ LabelsInv /\ NoDanglingRows /\ [Next]_vars => NoDanglingRows'
<1> SUFFICES ASSUME TypeOK, LabelsInv, NoDanglingRows, [Next]_vars
             PROVE  NoDanglingRows'
  OBVIOUS
<1>1. CASE UNCHANGED vars
  BY <1>1, SameRows DEF vars, tables, tenancy, rows
<1>2. ASSUME NEW r \in Requests, Reads(r) PROVE NoDanglingRows'
  BY <1>2, ReadsKeep, SameRows DEF tables, tenancy, rows
<1>3. ASSUME NEW r \in Requests, Writes(r) PROVE NoDanglingRows'
  BY <1>3, ProjectKeepsRows, TasksKeepRows, PartsKeepRows DEF Writes
<1>4. CASE Around
  <2>1. CASE DeleteWorkspace
    BY <2>1, WorkspaceKeepsRows DEF LabelsInv
  <2>2. CASE ~DeleteWorkspace
    BY <1>4, <2>2, SameRows DEF Around, send_message, Crash, ChangeRole,
                                tables, tenancy, rows
  <2> QED  BY <2>1, <2>2
<1> QED  BY <1>1, <1>2, <1>3, <1>4, NextSplit

\* However the deletions of workspaces, projects and tasks interleave with the
\* inserts of requests that have found them, no row is left behind.
THEOREM RowsBelong == Spec => []NoDanglingRows
BY InitTyped, NextTyped, LabelsInit, LabelsNext, RowsInit, RowsNext, PTL DEF Spec

-------------------------------------------------------------------------------
(***************************************************************************)
(* The mail about a committed assignment.                                  *)
(***************************************************************************)
LEMMA MailInit == Init => AssignmentsInHand
BY DEF Init, AssignmentsInHand

\* The step of a request that is not about to queue a mail.
LEMMA HandsKept ==
    ASSUME TypeOK, AssignmentsInHand, NEW r \in Requests, Reads(r) \/ Writes(r),
           ~At(r, {"create_project_task", "update_task"}, "reload"),
           UNCHANGED mail
    PROVE  AssignmentsInHand'
<1>1. \A x \in Requests :
         At(x, {"create_project_task", "update_task"}, "reload") =>
            req'[x] = req[x]
  BY Others
<1> QED  BY <1>1 DEF AssignmentsInHand, At, mail

LEMMA ReadsKeepMail ==
    ASSUME TypeOK, AssignmentsInHand, NEW r \in Requests, Reads(r),
           ~RequeryTask(r)
    PROVE  AssignmentsInHand'
<1>1. UNCHANGED mail
  BY DEF Reads, LoadTask, LoadComment, LoadProject, LoadCommentTask,
         get_task_and_check_access, check_project_access, RefreshProject,
         UnknownAssignee, CheckLabel, FindAttachment, ReloadComment
<1>2. ~At(r, {"create_project_task", "update_task"}, "reload")
  BY DEF Reads, LoadTask, LoadComment, LoadProject, LoadCommentTask, MayStart,
         get_task_and_check_access, check_project_access, RefreshProject,
         UnknownAssignee, CheckLabel, FindAttachment, ReloadComment, At, Patching
<1> QED  BY <1>1, <1>2, HandsKept

\* The queue gets the mail the handler remembered; a task that is gone is the
\* case in which it is not owed any more.
LEMMA RequeryKeepsMail ==
    ASSUME TypeOK, AssignmentsInHand, NEW r \in Requests, RequeryTask(r)
    PROVE  AssignmentsInHand'
<1> DEFINE q == req[r]
           due == IF q.to = Null THEN {} ELSE {[task |-> q.row.id, to |-> q.to]}
<1>1. \/ owed' = owed \ due /\ outbox' = outbox
      \/ owed' = owed /\ outbox' = outbox \cup due
  BY DEF RequeryTask
<1>2. \A x \in Requests : x # r => req'[x] = req[x]
  BY Others DEF Reads
<1>3. \A m \in owed : m.to # Null /\ m = [task |-> m.task, to |-> m.to]
  BY ConstantsOK DEF TypeOK, Mail
<1>4. ASSUME NEW m \in owed, m.task = q.row.id, m.to = q.to PROVE m \in due
  BY <1>3, <1>4
<1> HIDE DEF due
<1>5. ASSUME NEW m \in owed', m \notin outbox'
      PROVE  \E x \in Requests :
                /\ At(x, {"create_project_task", "update_task"}, "reload")'
                /\ req'[x].row.id = m.task /\ req'[x].to = m.to
  <2>1. m \in owed /\ m \notin outbox /\ m \notin due
    BY <1>1, <1>5
  <2>2. PICK x \in Requests :
                /\ At(x, {"create_project_task", "update_task"}, "reload")
                /\ req[x].row.id = m.task /\ req[x].to = m.to
    BY <2>1 DEF AssignmentsInHand
  <2>3. x # r
    BY <1>4, <2>1, <2>2
  <2> QED  BY <1>2, <2>2, <2>3 DEF At
<1> QED  BY <1>5 DEF AssignmentsInHand

\* A commit that names a new assignee leaves the mail with the request.
LEMMA CommittedKeepsMail ==
    ASSUME TypeOK, AssignmentsInHand, NEW r \in Requests,
           At(r, {"create_project_task", "update_task"}, "write"),
           Reads(r) \/ Writes(r),
           NEW row, NEW former, Committed(r, row, former), outbox' = outbox,
           row.assignee \notin {Null, former} =>
              ChangesAssignee(req[r]) /\ req[r].arg.assignee = row.assignee
    PROVE  AssignmentsInHand'
<1>1. req \in [Requests -> Request]
  BY DEF TypeOK
<1>2. \A x \in Requests : x # r => req'[x] = req[x]
  BY Others
<1>3. ASSUME NEW m \in owed, m \notin outbox
      PROVE  \E x \in Requests :
                /\ At(x, {"create_project_task", "update_task"}, "reload")'
                /\ req'[x].row.id = m.task /\ req'[x].to = m.to
  <2>1. PICK x \in Requests :
                /\ At(x, {"create_project_task", "update_task"}, "reload")
                /\ req[x].row.id = m.task /\ req[x].to = m.to
    BY <1>3 DEF AssignmentsInHand
  <2>2. x # r
    BY <2>1 DEF At
  <2> QED  BY <1>2, <2>1, <2>2 DEF At
<1>4. ASSUME NEW m \in owed', m \notin owed
      PROVE  /\ At(r, {"create_project_task", "update_task"}, "reload")'
             /\ req'[r].row.id = m.task /\ req'[r].to = m.to
  <2>1. /\ row.assignee \notin {Null, former}
        /\ m = [task |-> row.id, to |-> row.assignee]
    BY <1>4 DEF Committed
  <2>2. ChangesAssignee(req[r]) /\ req[r].arg.assignee = row.assignee
    BY <2>1
  <2>3. req' = [req EXCEPT ![r].pc = "reload", ![r].arg = Null, ![r].row = row,
                  ![r].to = row.assignee]
    BY <2>2 DEF Committed
  <2>4. /\ req'[r].pc = "reload" /\ req'[r].op = req[r].op
        /\ req'[r].row = row /\ req'[r].to = row.assignee
    BY <1>1, <2>3 DEF Request
  <2> QED  BY <2>1, <2>4 DEF At
<1> QED  BY <1>3, <1>4 DEF AssignmentsInHand

LEMMA WritesKeepMail ==
    ASSUME TypeOK, AssignmentsInHand, NEW r \in Requests, Writes(r)
    PROVE  AssignmentsInHand'
<1>1. ~At(r, {"create_project_task", "update_task"}, "reload")
  BY DEF Writes, UpdateProject, DeleteProject, InsertTask, UpdateTask,
         DeleteTask, InsertAttachment, DeleteAttachment, InsertComment,
         DeleteComment, At
<1>2. CASE UNCHANGED mail
  BY <1>1, <1>2, HandsKept
<1>3. CASE InsertTask(r)
  <2> DEFINE q == req[r]
             new == [id |-> nextId, project |-> q.project, reporter |-> q.user,
                     assignee |-> q.arg.assignee, content |-> q.arg.content]
  <2>1. /\ \/ owed' = owed \/ Committed(r, new, Null)
        /\ outbox' = outbox /\ At(r, {"create_project_task"}, "write")
    BY <1>3 DEF InsertTask
  <2>2. new.assignee \notin {Null} =>
           ChangesAssignee(q) /\ q.arg.assignee = new.assignee
    BY <2>1 DEF ChangesAssignee, At
  <2>3. At(r, {"create_project_task", "update_task"}, "write")
    BY <2>1 DEF At
  <2> HIDE DEF new
  <2> QED  BY <1>2, <2>1, <2>2, <2>3, CommittedKeepsMail DEF mail
<1>4. CASE UpdateTask(r)
  <2> DEFINE q == req[r]
             new == Applied(q.row, q.arg)
  <2>1. /\ \/ owed' = owed \/ Committed(r, new, q.row.assignee)
        /\ outbox' = outbox /\ At(r, {"update_task"}, "write")
    BY <1>4 DEF UpdateTask
  <2>2. q.row \in TaskRow /\ q.arg \in TaskUpdate
    BY <1>4, PatchInHand
  <2>3. new.assignee = IF q.arg.assignee # Null THEN q.arg.assignee
                                                ELSE q.row.assignee
    BY <2>2 DEF Applied, TaskRow, TaskUpdate
  <2>4. new.assignee \notin {Null, q.row.assignee} =>
           ChangesAssignee(q) /\ q.arg.assignee = new.assignee
    BY <2>3 DEF ChangesAssignee
  <2>5. At(r, {"create_project_task", "update_task"}, "write")
    BY <2>1 DEF At
  <2> HIDE DEF new
  <2> QED  BY <1>2, <2>1, <2>4, <2>5, CommittedKeepsMail DEF mail
<1>5. CASE ~InsertTask(r) /\ ~UpdateTask(r)
  <2>1. UNCHANGED mail
    BY <1>5 DEF Writes, UpdateProject, DeleteProject, DeleteTask,
         InsertAttachment, DeleteAttachment, InsertComment, DeleteComment
  <2> QED  BY <1>2, <2>1
<1> QED  BY <1>3, <1>4, <1>5

LEMMA AroundKeepsMail ==
    ASSUME AssignmentsInHand, Around PROVE AssignmentsInHand'
<1>1. CASE \E m \in outbox : send_message(m)
  <2>1. PICK m \in outbox : send_message(m)
    BY <1>1
  <2> QED  BY <2>1 DEF send_message, AssignmentsInHand, At
<1>2. CASE Crash
  BY <1>2 DEF Crash, AssignmentsInHand
<1>3. CASE ChangeRole \/ DeleteWorkspace
  BY <1>3 DEF ChangeRole, DeleteWorkspace, AssignmentsInHand, At, mail
<1> QED  BY <1>1, <1>2, <1>3 DEF Around

LEMMA MailNext == TypeOK /\ AssignmentsInHand /\ [Next]_vars => AssignmentsInHand'
<1> SUFFICES ASSUME TypeOK, AssignmentsInHand, [Next]_vars
             PROVE  AssignmentsInHand'
  OBVIOUS
<1>1. CASE UNCHANGED vars
  BY <1>1 DEF vars, mail, AssignmentsInHand, At
<1>2. CASE Next
  BY <1>2, NextSplit, ReadsKeepMail, RequeryKeepsMail, WritesKeepMail,
     AroundKeepsMail
<1> QED  BY <1>1, <1>2

\* Whatever other requests do to the task meanwhile, the mail that a committed
\* assignment calls for is queued or remembered until it is sent, the process
\* stops, or the task is found deleted.
THEOREM MailInHand == Spec => []AssignmentsInHand
BY InitTyped, NextTyped, MailInit, MailNext, PTL DEF Spec

-------------------------------------------------------------------------------
(***************************************************************************)
(* A column of a task or project changes only to what a request names.     *)
(***************************************************************************)
\* An id is of one row; those in use have been handed out.
IdsInv ==
    /\ \A s, t \in tasks : s.id = t.id => s = t
    /\ \A t \in tasks : t.id < nextId

LEMMA IdsInit == Init => IdsInv
BY DEF Init, IdsInv

LEMMA FewerIds ==
    ASSUME TypeOK, IdsInv, tasks' \subseteq tasks,
           nextId' = nextId \/ nextId' = nextId + 1
    PROVE  IdsInv'
<1>1. nextId \in Nat /\ \A t \in tasks : t.id \in Nat
  BY DEF TypeOK, TaskRow
<1> QED  BY <1>1 DEF IdsInv

\* What an UPDATE makes of a row.
LEMMA PatchedRow ==
    ASSUME TypeOK, IdsInv, NEW r \in Requests, UpdateTask(r),
           NEW new \in tasks', new \notin tasks
    PROVE  \E old \in tasks :
              /\ old.id = req[r].row.id /\ new.id = old.id
              /\ old \notin tasks' \/ old = new
              /\ new = Written(old, req[r].row, Applied(req[r].row, req[r].arg))
<1> DEFINE q == req[r]
           row == Applied(q.row, q.arg)
           stored == Task(q.row.id)
<1>1. /\ q.row \in TaskRow /\ row \in TaskRow
      /\ row.id = q.row.id /\ row.project = q.row.project
  BY PatchInHand
<1>2. tasks' = (tasks \ stored) \cup {Written(t, q.row, row) : t \in stored}
  BY DEF UpdateTask
<1> HIDE DEF row, stored
<1>3. PICK old \in stored : new = Written(old, q.row, row)
  BY <1>2
<1>4. stored = {t \in tasks : t.id = q.row.id}
  BY DEF stored, Task
<1>5. \A t \in stored : Written(t, q.row, row).id = t.id
  BY <1>1, <1>4, WrittenTask DEF TypeOK
<1>6. \A t \in stored : t = old
  BY <1>3, <1>4 DEF IdsInv
<1>7. old \notin tasks' \/ old = new
  BY <1>2, <1>3, <1>6
<1> QED  BY <1>3, <1>4, <1>5, <1>7 DEF row

LEMMA UpdateIds ==
    ASSUME TypeOK, IdsInv, NEW r \in Requests, UpdateTask(r)
    PROVE  IdsInv'
<1> DEFINE q == req[r]
           row == Applied(q.row, q.arg)
           stored == Task(q.row.id)
<1>1. /\ q.row \in TaskRow /\ row \in TaskRow
      /\ row.id = q.row.id /\ row.project = q.row.project
  BY PatchInHand
<1>2. /\ nextId' = nextId
      /\ \/ tasks' = tasks
         \/ tasks' = (tasks \ stored) \cup {Written(t, q.row, row) : t \in stored}
  BY DEF UpdateTask
<1> HIDE DEF row, stored
<1>3. stored = {t \in tasks : t.id = q.row.id}
  BY DEF stored, Task
<1>4. \A t \in stored : Written(t, q.row, row).id = t.id
  BY <1>1, <1>3, WrittenTask DEF TypeOK
<1>5. CASE tasks' = tasks
  BY <1>2, <1>5 DEF IdsInv
<1>6. CASE tasks' = (tasks \ stored) \cup {Written(t, q.row, row) : t \in stored}
  <2>1. \A s, t \in tasks' : s.id = t.id => s = t
    BY <1>3, <1>4, <1>6 DEF IdsInv
  <2>2. \A t \in tasks' : t.id < nextId'
    BY <1>2, <1>3, <1>4, <1>6 DEF IdsInv
  <2> QED  BY <2>1, <2>2 DEF IdsInv
<1> QED  BY <1>2, <1>5, <1>6

LEMMA InsertIds ==
    ASSUME TypeOK, IdsInv, NEW r \in Requests, InsertTask(r)
    PROVE  IdsInv'
<1> DEFINE new == [id |-> nextId, project |-> req[r].project,
                   reporter |-> req[r].user, assignee |-> req[r].arg.assignee,
                   content |-> req[r].arg.content]
<1>1. \/ UNCHANGED <<tasks, nextId>>
      \/ tasks' = tasks \cup {new} /\ nextId' = nextId + 1
  BY DEF InsertTask
<1>2. new.id = nextId
  OBVIOUS
<1> HIDE DEF new
<1>3. nextId \in Nat /\ \A t \in tasks : t.id \in Nat
  BY DEF TypeOK, TaskRow
<1> QED  BY <1>1, <1>2, <1>3 DEF IdsInv

LEMMA IdsNext == TypeOK /\ IdsInv /\ [Next]_vars => IdsInv'
<1> SUFFICES ASSUME TypeOK, IdsInv, [Next]_vars PROVE IdsInv'
  OBVIOUS
<1>1. CASE UNCHANGED vars
  BY <1>1, FewerIds DEF vars, tables, rows
<1>2. ASSUME NEW r \in Requests, Reads(r) PROVE IdsInv'
  BY <1>2, ReadsKeep, FewerIds DEF tables, rows
<1>3. ASSUME NEW r \in Requests, Writes(r) PROVE IdsInv'
  <2>1. CASE ~InsertTask(r) /\ ~UpdateTask(r)
    <3>1. /\ tasks' \subseteq tasks
          /\ nextId' = nextId \/ nextId' = nextId + 1
      BY <1>3, <2>1 DEF Writes, UpdateProject, DeleteProject, DeleteTask,
           InsertAttachment, DeleteAttachment, InsertComment, DeleteComment,
           Cascade, rows
    <3> QED  BY <3>1, FewerIds
  <2> QED  BY <2>1, InsertIds, UpdateIds
<1>4. CASE Around
  <2>1. tasks' \subseteq tasks /\ nextId' = nextId
    BY <1>4 DEF Around, send_message, Crash, ChangeRole, DeleteWorkspace,
                Cascade, tables, rows
  <2> QED  BY <2>1, FewerIds
<1> QED  BY <1>1, <1>2, <1>3, <1>4, NextSplit

\* A value that BaseRepository.update sets is one of the payload.
LEMMA AppliedNames ==
    ASSUME NEW row, NEW arg, NEW f \in DOMAIN row,
           Applied(row, arg)[f] # row[f]
    PROVE  f \in DOMAIN arg /\ arg[f] = Applied(row, arg)[f]
BY DEF Applied

LEMMA TaskColumnsStep ==
    ASSUME TypeOK, IdsInv, Next PROVE TaskColumns
<1>1. ASSUME NEW old \in tasks, NEW new \in tasks', new \in tasks,
             old.id = new.id
      PROVE  old = new
  BY <1>1 DEF IdsInv
<1>2. ASSUME NEW r \in Requests, UpdateTask(r) PROVE TaskColumns
  <2>1. SUFFICES ASSUME NEW old \in tasks, NEW new \in tasks', new \notin tasks,
                        NEW f \in DOMAIN old, old.id = new.id, old[f] # new[f]
                 PROVE  /\ Asked(r, {"update_task"}, f, new[f])
                        /\ req[r].row.id = old.id
    BY <1>1 DEF TaskColumns
  <2> DEFINE q == req[r]
             row == Applied(q.row, q.arg)
  <2>2. PICK s \in tasks : /\ s.id = q.row.id /\ new.id = s.id
                           /\ new = Written(s, q.row, row)
    BY <1>2, <2>1, PatchedRow
  <2>3. s = old
    BY <2>1, <2>2 DEF IdsInv
  <2>4. q.row \in TaskRow /\ old \in TaskRow
    BY <1>2, PatchInHand DEF TypeOK
  <2>5. f \in DOMAIN q.row
    BY <2>4 DEF TaskRow
  <2> HIDE DEF row
  <2>6. row[f] # q.row[f] /\ new[f] = row[f]
    BY <2>1, <2>2, <2>3 DEF Written
  <2>7. f \in DOMAIN q.arg /\ q.arg[f] = row[f]
    BY <2>5, <2>6, AppliedNames DEF row
  <2>8. At(r, {"update_task"}, "write")
    BY <1>2 DEF UpdateTask
  <2> QED  BY <2>2, <2>3, <2>6, <2>7, <2>8 DEF Asked
<1>3. ASSUME \A t \in tasks' : t \in tasks \/ t.id = nextId PROVE TaskColumns
  <2>1. \A t \in tasks : t.id # nextId
    BY DEF IdsInv, TypeOK, TaskRow
  <2> QED  BY <1>1, <1>3, <2>1 DEF TaskColumns
<1>4. ASSUME NEW r \in Requests, Reads(r) PROVE TaskColumns
  BY <1>3, <1>4, ReadsKeep DEF tables, rows
<1>5. ASSUME NEW r \in Requests, Writes(r), ~UpdateTask(r) PROVE TaskColumns
  <2>1. \A t \in tasks' : t \in tasks \/ t.id = nextId
    BY <1>5 DEF Writes, UpdateProject, DeleteProject, InsertTask, DeleteTask,
         InsertAttachment, DeleteAttachment, InsertComment, DeleteComment,
         Cascade, rows
  <2> QED  BY <1>3, <2>1
<1>6. CASE Around
  <2>1. tasks' \subseteq tasks
    BY <1>6 DEF Around, send_message, Crash, ChangeRole, DeleteWorkspace,
                Cascade, tables, rows
  <2> QED  BY <1>3, <2>1
<1> QED  BY <1>2, <1>4, <1>5, <1>6, NextSplit

LEMMA ProjectColumnsStep ==
    ASSUME TypeOK, Next PROVE ProjectColumns
<1>1. ASSUME \A p \in Projects : project'[p] \in {project[p], Null}
      PROVE  ProjectColumns
  BY <1>1 DEF ProjectColumns
<1>2. ASSUME NEW r \in Requests, UpdateProject(r) PROVE ProjectColumns
  <2> DEFINE q == req[r]
             row == Applied(q.row, q.arg)
             stored == project[q.project]
  <2>1. \/ project' = project
        \/ /\ stored # Null
           /\ project' = [project EXCEPT ![q.project] = Written(stored, q.row, row)]
    BY <1>2 DEF UpdateProject
  <2>2. At(r, Patching, "write")
    BY <1>2 DEF UpdateProject
  <2>3. q.row \in ProjectRow
    BY <2>2 DEF At, InHand, TypeOK
  <2> HIDE DEF row
  <2>4. CASE /\ stored # Null
             /\ project' = [project EXCEPT ![q.project] =
                               Written(stored, q.row, row)]
    <3>1. SUFFICES ASSUME NEW p \in Projects, project[p] # Null,
                          NEW f \in DOMAIN project[p],
                          project[p][f] # project'[p][f]
                   PROVE  /\ Asked(r, Patching, f, project'[p][f])
                          /\ q.project = p
      BY DEF ProjectColumns
    <3>2. p = q.project
      BY <2>4, <3>1 DEF TypeOK
    <3>3. project[p] \in ProjectRow
      BY <3>1 DEF TypeOK
    <3>4. project'[p] = Written(stored, q.row, row)
      BY <2>4, <3>2 DEF TypeOK
    <3>5. row[f] # q.row[f] /\ project'[p][f] = row[f]
      BY <3>1, <3>2, <3>4 DEF Written
    <3>6. f \in DOMAIN q.row
      BY <2>3, <3>3 DEF ProjectRow
    <3>7. f \in DOMAIN q.arg /\ q.arg[f] = row[f]
      BY <3>5, <3>6, AppliedNames DEF row
    <3> QED  BY <2>2, <3>2, <3>5, <3>7 DEF Asked
  <2>5. CASE project' = project
    BY <1>1, <2>5
  <2> QED  BY <2>1, <2>4, <2>5
<1>3. ASSUME NEW r \in Requests, Reads(r) PROVE ProjectColumns
  BY <1>1, <1>3, ReadsKeep DEF tables, tenancy
<1>4. ASSUME NEW r \in Requests, Writes(r), ~UpdateProject(r)
      PROVE  ProjectColumns
  <2>1. CASE DeleteProject(r)
    <3>1. \A p \in Projects : project'[p] \in {project[p], Null}
      BY <2>1 DEF DeleteProject, TypeOK
    <3> QED  BY <1>1, <3>1
  <2>2. CASE ~DeleteProject(r)
    <3>1. project' = project
      BY <1>4, <2>2 DEF Writes, InsertTask, UpdateTask, DeleteTask,
           InsertAttachment, DeleteAttachment, InsertComment, DeleteComment,
           tenancy
    <3> QED  BY <1>1, <3>1
  <2> QED  BY <2>1, <2>2
<1>5. CASE Around
  <2>1. \A p \in Projects : project'[p] \in {project[p], Null}
    BY <1>5 DEF Around, send_message, Crash, ChangeRole, DeleteWorkspace,
                tables, tenancy
  <2> QED  BY <1>1, <2>1
<1> QED  BY <1>2, <1>3, <1>4, <1>5, NextSplit

\* A PATCH leaves the columns that it does not name as others, whose commits it
\* has not seen, have set them.
THEOREM ColumnsNamed == Spec => OnlyNamedColumns
<1>1. TypeOK /\ IdsInv /\ [Next]_vars => [TaskColumns /\ ProjectColumns]_vars
  BY TaskColumnsStep, ProjectColumnsStep
<1> QED  BY <1>1, InitTyped, NextTyped, IdsInit, IdsNext, PTL
         DEF Spec, OnlyNamedColumns
-------------------------------------------------------------------------------
(***************************************************************************)
(* A request writes only where its caller was found to be a member.        *)
(***************************************************************************)
\* The ids of comments and attachments in use have been handed out, each once.
ItemIds ==
    /\ \A c \in comments : c.id < nextId
    /\ \A c, d \in comments : c.id = d.id => c = d
    /\ \A a \in attachments : a.id < nextId
    /\ \A a, b \in attachments : a.id = b.id => a = b

\* A comment or attachment with the id of item can be only item itself.
ItsComment(item) ==
    /\ item.id \in Nat /\ item.id < nextId
    /\ \A c \in comments : c.id = item.id => c = item
ItsAttachment(item) ==
    /\ item.id \in Nat /\ item.id < nextId
    /\ \A a \in attachments : a.id = item.id => a = item

HasTask(q) ==
    \/ q.op \in TaskRoutes /\ q.pc \in {"access", "check", "write"}
    \/ q.op = "delete_comment" /\ q.pc \in {"access", "write"}

\* What a request knows when it is about to write: the workspace of its project,
\* the project of the task, and the task of the comment or attachment.
Knows(q) ==
    /\ q.pc \in {"check", "write"} => q.at = Home[q.project]
    /\ HasTask(q) => /\ q.row.id < nextId
                     /\ \A t \in tasks : t.id = q.row.id => t.project = q.project
    /\ q.op = "delete_comment" =>
          /\ q.pc \in {"task", "access", "write"} => ItsComment(q.item)
          /\ q.pc \in {"access", "write"} => q.row.id = q.item.task
    /\ q.op = "detach_label_from_task" /\ q.pc = "write" =>
          ItsAttachment(q.item) /\ q.row.id = q.item.task

WhereInv == ItemIds /\ \A r \in Requests : Knows(req[r])

LEMMA WhereInit == Init => WhereInv
<1> SUFFICES ASSUME Init PROVE WhereInv
  OBVIOUS
<1>1. comments = {} /\ attachments = {} /\ req = [r \in Requests |-> NoRequest]
  BY DEF Init
<1>2. NoRequest.pc = "idle"
  BY DEF NoRequest
<1> QED  BY <1>1, <1>2 DEF WhereInv, ItemIds, Knows, HasTask

\* What every step does to the tables: ids are handed out in order, and a row
\* keeps what it belongs to.
Evolves ==
    /\ nextId' \in {nextId, nextId + 1}
    /\ \A t \in tasks' :
          \/ \E s \in tasks : t.id = s.id /\ t.project = s.project
          \/ t.id = nextId
    /\ \A c \in comments' :
          c \in comments \/ (c.id = nextId /\ nextId' = nextId + 1)
    /\ \A c, d \in comments' : c \notin comments /\ d \notin comments => c = d
    /\ \A a \in attachments' :
          a \in attachments \/ (a.id = nextId /\ nextId' = nextId + 1)
    /\ \A a, b \in attachments' :
          a \notin attachments /\ b \notin attachments => a = b

LEMMA FewerEvolve ==
    ASSUME tasks' \subseteq tasks, comments' \subseteq comments,
           attachments' \subseteq attachments, nextId' = nextId
    PROVE  Evolves
BY DEF Evolves

LEMMA StepEvolves == ASSUME TypeOK, [Next]_vars PROVE Evolves
<1>1. CASE UNCHANGED vars
  BY <1>1, FewerEvolve DEF vars, tables, rows
<1>2. ASSUME NEW r \in Requests, Reads(r) PROVE Evolves
  BY <1>2, ReadsKeep, FewerEvolve DEF tables, rows
<1>3. ASSUME NEW r \in Requests, Writes(r) PROVE Evolves
  <2>1. CASE UpdateProject(r) \/ DeleteProject(r) \/ DeleteTask(r)
             \/ DeleteAttachment(r) \/ DeleteComment(r)
    BY <2>1, FewerEvolve DEF UpdateProject, DeleteProject, DeleteTask,
       DeleteAttachment, DeleteComment, Cascade, rows
  <2>2. CASE InsertTask(r)
    <3> DEFINE new == [id |-> nextId, project |-> req[r].project,
                       reporter |-> req[r].user, assignee |-> req[r].arg.assignee,
                       content |-> req[r].arg.content]
    <3>1. /\ UNCHANGED <<comments, attachments>>
          /\ nextId' \in {nextId, nextId + 1}
          /\ \A t \in tasks' : t \in tasks \/ t = new
      BY <2>2 DEF InsertTask
    <3>2. new.id = nextId
      OBVIOUS
    <3> HIDE DEF new
    <3> QED  BY <3>1, <3>2 DEF Evolves
  <2>3. CASE UpdateTask(r)
    <3>1. UNCHANGED <<comments, attachments, nextId>>
      BY <2>3 DEF UpdateTask
    <3> QED  BY <2>3, <3>1, PatchWrites DEF Evolves
  <2>4. CASE InsertAttachment(r)
    <3> DEFINE new == [id |-> nextId, task |-> req[r].row.id, label |-> req[r].arg]
    <3>1. /\ UNCHANGED <<tasks, comments>>
          /\ \/ attachments' = attachments \cup {new} /\ nextId' = nextId + 1
             \/ UNCHANGED <<attachments, nextId>>
      BY <2>4 DEF InsertAttachment
    <3>2. new.id = nextId
      OBVIOUS
    <3> HIDE DEF new
    <3> QED  BY <3>1, <3>2 DEF Evolves
  <2>5. CASE InsertComment(r)
    <3> DEFINE new == [id |-> nextId, task |-> req[r].row.id, author |-> req[r].user]
    <3>1. /\ UNCHANGED <<tasks, attachments>>
          /\ \/ comments' = comments \cup {new} /\ nextId' = nextId + 1
             \/ UNCHANGED <<comments, nextId>>
      BY <2>5 DEF InsertComment
    <3>2. new.id = nextId
      OBVIOUS
    <3> HIDE DEF new
    <3> QED  BY <3>1, <3>2 DEF Evolves
  <2> QED  BY <1>3, <2>1, <2>2, <2>3, <2>4, <2>5 DEF Writes
<1>4. CASE Around
  BY <1>4, FewerEvolve DEF Around, send_message, Crash, ChangeRole,
     DeleteWorkspace, Cascade, tables, rows
<1> QED  BY <1>1, <1>2, <1>3, <1>4, NextSplit

LEMMA ItemIdsKept == ASSUME TypeOK, ItemIds, Evolves PROVE ItemIds'
<1>1. /\ nextId \in Nat
      /\ \A c \in comments : c.id \in Nat
      /\ \A a \in attachments : a.id \in Nat
  BY DEF TypeOK, CommentRow, TaskLabel
<1>2. /\ \A c \in comments' : c.id < nextId'
      /\ \A c, d \in comments' : c.id = d.id => c = d
  BY <1>1 DEF ItemIds, Evolves
<1>3. /\ \A a \in attachments' : a.id < nextId'
      /\ \A a, b \in attachments' : a.id = b.id => a = b
  BY <1>1 DEF ItemIds, Evolves
<1> QED  BY <1>2, <1>3 DEF ItemIds

\* The rows a request holds have ids.
LEMMA IdsInHand ==
    ASSUME TypeOK, NEW r \in Requests
    PROVE  HasTask(req[r]) => /\ req[r].row.id \in Nat
                              /\ req[r].project = req[r].row.project
<1>1. req[r].pc # "idle" => InHand(req[r])
  BY DEF TypeOK
<1>2. "delete_comment" \notin TaskRoutes
  BY DEF TaskRoutes
<1> QED  BY <1>1 DEF HasTask, InHand, HoldsTask, TaskRow

\* What a request knows stays true while others write.
LEMMA KnowsKept ==
    ASSUME TypeOK, Evolves, NEW r \in Requests, Knows(req[r]), req'[r] = req[r]
    PROVE  Knows(req[r])'
<1> DEFINE q == req[r]
<1>1. nextId \in Nat /\ nextId' \in Nat /\ nextId <= nextId'
  BY DEF TypeOK, Evolves
<1>2. HasTask(q) =>
         /\ q.row.id < nextId'
         /\ \A t \in tasks' : t.id = q.row.id => t.project = q.project
  <2> SUFFICES ASSUME HasTask(q)
               PROVE  /\ q.row.id < nextId'
                      /\ \A t \in tasks' : t.id = q.row.id => t.project = q.project
    OBVIOUS
  <2>1. /\ q.row.id \in Nat /\ q.row.id < nextId
        /\ \A t \in tasks : t.id = q.row.id => t.project = q.project
    BY IdsInHand DEF Knows
  <2> HIDE DEF q
  <2> QED  BY <1>1, <2>1 DEF Evolves
<1>3. ASSUME NEW item, ItsComment(item)
      PROVE  /\ item.id \in Nat /\ item.id < nextId'
             /\ \A c \in comments' : c.id = item.id => c = item
  BY <1>1, <1>3 DEF ItsComment, Evolves
<1>4. ASSUME NEW item, ItsAttachment(item)
      PROVE  /\ item.id \in Nat /\ item.id < nextId'
             /\ \A a \in attachments' : a.id = item.id => a = item
  BY <1>1, <1>4 DEF ItsAttachment, Evolves
<1>6. q.op = "delete_comment" /\ q.pc \in {"task", "access", "write"} =>
         /\ q.item.id \in Nat /\ q.item.id < nextId'
         /\ \A c \in comments' : c.id = q.item.id => c = q.item
  BY <1>3 DEF Knows
<1>7. q.op = "detach_label_from_task" /\ q.pc = "write" =>
         /\ q.item.id \in Nat /\ q.item.id < nextId'
         /\ \A a \in attachments' : a.id = q.item.id => a = q.item
  BY <1>4 DEF Knows
<1> HIDE DEF q
<1>8. req'[r] = q /\ Knows(q)
  BY DEF q
<1> QED  BY <1>2, <1>6, <1>7, <1>8 DEF Knows, HasTask, ItsComment, ItsAttachment

\* A request that has been answered, or has committed, is about to write nothing.
LEMMA NothingToKnow ==
    ASSUME NEW r \in Requests, req'[r].pc \in {"idle", "reload"}
    PROVE  Knows(req[r])'
BY DEF Knows, HasTask

LEMMA AnsweredKnows ==
    ASSUME TypeOK, NEW r \in Requests, NEW code, Answer(r, code)
    PROVE  req'[r].pc = "idle"
BY DEF TypeOK, Answer, Begin, NoRequest

LEMMA LoadTaskKnows ==
    ASSUME TypeOK, LabelsInv, NEW r \in Requests, LoadTask(r)
    PROVE  Knows(req[r])'
<1>1. req \in [Requests -> Request] /\ UNCHANGED <<tasks, nextId>>
  BY DEF TypeOK, LoadTask, tables, rows
<1>2. CASE Answer(r, 404)
  BY <1>2, AnsweredKnows, NothingToKnow
<1>3. ASSUME NEW op \in TaskRoutes, NEW u \in Users, NEW t \in tasks,
             NEW arg \in Payload(op),
             Begin(r, [NoRequest EXCEPT
                       !.pc = "access", !.op = op, !.user = u,
                       !.project = t.project, !.arg = arg, !.row = t,
                       !.assignee = t.assignee])
      PROVE  Knows(req[r])'
  <2>1. /\ req'[r].pc = "access" /\ req'[r].row = t /\ req'[r].op = op
        /\ req'[r].project = t.project
    BY <1>1, <1>3 DEF Begin, NoRequest
  <2>2. t.id < nextId /\ \A s \in tasks : s.id = t.id => s.project = t.project
    BY DEF LabelsInv, OldIds
  <2>3. op # "delete_comment"
    BY DEF TaskRoutes
  <2> QED  BY <1>1, <2>1, <2>2, <2>3 DEF Knows, HasTask
<1> QED  BY <1>2, <1>3 DEF LoadTask

LEMMA LoadCommentKnows ==
    ASSUME TypeOK, ItemIds, NEW r \in Requests, LoadComment(r)
    PROVE  Knows(req[r])'
<1>1. req \in [Requests -> Request] /\ UNCHANGED <<comments, nextId>>
  BY DEF TypeOK, LoadComment, tables, rows
<1>2. CASE Answer(r, 404)
  BY <1>2, AnsweredKnows, NothingToKnow
<1>3. ASSUME NEW u \in Users, NEW c \in comments,
             Begin(r, [NoRequest EXCEPT !.pc = "task", !.op = "delete_comment",
                                        !.user = u, !.item = c])
      PROVE  Knows(req[r])'
  <2>1. /\ req'[r].pc = "task" /\ req'[r].op = "delete_comment"
        /\ req'[r].item = c
    BY <1>1, <1>3 DEF Begin, NoRequest
  <2>2. ItsComment(c)'
    BY <1>1 DEF ItemIds, ItsComment, TypeOK, CommentRow
  <2>3. "delete_comment" \notin TaskRoutes
    BY DEF TaskRoutes
  <2> QED  BY <2>1, <2>2, <2>3 DEF Knows, HasTask, ItsComment
<1> QED  BY <1>2, <1>3 DEF LoadComment

LEMMA LoadCommentTaskKnows ==
    ASSUME TypeOK, LabelsInv, WhereInv, NEW r \in Requests, LoadCommentTask(r)
    PROVE  Knows(req[r])'
<1> DEFINE q == req[r]
<1>1. req \in [Requests -> Request] /\ UNCHANGED <<tasks, comments, nextId>>
  BY DEF TypeOK, LoadCommentTask, tables, rows
<1>2. CASE Answer(r, 404)
  BY <1>2, AnsweredKnows, NothingToKnow
<1>3. ASSUME NEW t \in Task(q.item.task),
             req' = [req EXCEPT ![r].pc = "access", ![r].project = t.project,
                                ![r].row = t]
      PROVE  Knows(req[r])'
  <2>1. q.op = "delete_comment" /\ q.pc = "task" /\ ItsComment(q.item)
    BY DEF LoadCommentTask, At, WhereInv, Knows
  <2>2. /\ req'[r].pc = "access" /\ req'[r].op = "delete_comment"
        /\ req'[r].row = t /\ req'[r].item = q.item
        /\ req'[r].project = t.project
    BY <1>1, <1>3, <2>1 DEF Request
  <2>3. t \in tasks /\ t.id = q.item.task
    BY DEF Task
  <2>4. t.id < nextId /\ \A s \in tasks : s.id = t.id => s.project = t.project
    BY <2>3 DEF LabelsInv, OldIds
  <2>5. "delete_comment" # "detach_label_from_task"
    OBVIOUS
  <2> QED  BY <1>1, <2>1, <2>2, <2>3, <2>4, <2>5 DEF Knows, HasTask, ItsComment
<1> QED  BY <1>2, <1>3 DEF LoadCommentTask

\* Being admitted.
LEMMA AdmittedKnows ==
    ASSUME TypeOK, WhereInv, NEW r \in Requests, req[r].pc = "access",
           NEW pc \in {"check", "write"},
           req[r].op = "detach_label_from_task" => pc = "check",
           req' = [req EXCEPT ![r].at = Home[req[r].project], ![r].pc = pc],
           UNCHANGED <<tasks, comments, attachments, nextId>>
    PROVE  Knows(req[r])'
<1> DEFINE q == req[r]
<1>1. /\ req'[r].pc = pc /\ req'[r].at = Home[q.project]
      /\ req'[r].op = q.op /\ req'[r].row = q.row
      /\ req'[r].project = q.project /\ req'[r].item = q.item
  BY DEF TypeOK, Request
<1>2. Knows(q) /\ q.pc = "access"
  BY DEF WhereInv
<1>3. "delete_comment" \notin TaskRoutes
  BY DEF TaskRoutes
<1>4. q.op \in TaskRoutes \cup {"delete_comment"} =>
         /\ q.row.id < nextId
         /\ \A t \in tasks : t.id = q.row.id => t.project = q.project
  BY <1>2 DEF Knows, HasTask
<1>5. q.op = "delete_comment" => ItsComment(q.item) /\ q.row.id = q.item.task
  BY <1>2 DEF Knows
<1> HIDE DEF q
<1>6. HasTask(req[r])' => q.op \in TaskRoutes \cup {"delete_comment"}
  BY <1>1 DEF HasTask
<1> QED  BY <1>1, <1>4, <1>5, <1>6 DEF Knows, ItsComment, q

LEMMA AccessStepKnows ==
    ASSUME TypeOK, WhereInv, NEW r \in Requests,
           get_task_and_check_access(r) \/ check_project_access(r)
    PROVE  Knows(req[r])'
<1> DEFINE q == req[r]
<1>1. UNCHANGED <<tasks, comments, attachments, nextId>>
  BY DEF get_task_and_check_access, check_project_access, tables, rows
<1>2. CASE \E code : Answer(r, code)
  BY <1>2, AnsweredKnows, NothingToKnow
<1>3. CASE /\ get_task_and_check_access(r)
           /\ req' = [req EXCEPT ![r].at = Home[q.project],
                            ![r].pc = IF q.arg \in Labels THEN "check"
                                                          ELSE "write"]
  <2> DEFINE pc == IF q.arg \in Labels THEN "check" ELSE "write"
  <2>1. q.pc = "access"
    BY <1>3 DEF get_task_and_check_access, At
  <2>2. q.op = "detach_label_from_task" => q.arg \in Labels
    BY <2>1, LabelInHand DEF At
  <2>3. /\ pc \in {"check", "write"}
        /\ q.op = "detach_label_from_task" => pc = "check"
    BY <2>2
  <2>4. req' = [req EXCEPT ![r].at = Home[q.project], ![r].pc = pc]
    BY <1>3
  <2> HIDE DEF pc
  <2> QED  BY <1>1, <2>1, <2>3, <2>4, AdmittedKnows
<1>4. CASE /\ check_project_access(r)
           /\ req' = [req EXCEPT ![r].at = Home[q.project], ![r].pc = "write"]
  <2>1. q.pc = "access" /\ q.op # "detach_label_from_task"
    BY <1>4 DEF check_project_access, At, ProjectRoutes
  <2> QED  BY <1>1, <1>4, <2>1, AdmittedKnows
<1> QED
  BY <1>2, <1>3, <1>4 DEF get_task_and_check_access, check_project_access,
                          WorkspaceOf

LEMMA LabelStepKnows ==
    ASSUME TypeOK, WhereInv, NEW r \in Requests, CheckLabel(r) \/ FindAttachment(r)
    PROVE  Knows(req[r])'
<1> DEFINE q == req[r]
<1>0. /\ req \in [Requests -> Request]
      /\ UNCHANGED <<tasks, comments, attachments, nextId>>
  BY DEF TypeOK, CheckLabel, FindAttachment, tables, rows
<1>1. /\ q.op \in {"attach_label_to_task", "detach_label_from_task"}
      /\ q.pc = "check" /\ Knows(q)
  BY DEF CheckLabel, FindAttachment, At, WhereInv
<1>2. /\ q.at = Home[q.project]
      /\ q.row.id < nextId
      /\ \A t \in tasks : t.id = q.row.id => t.project = q.project
  BY <1>1 DEF Knows, HasTask, TaskRoutes
<1>3. CASE \E code : Answer(r, code)
  BY <1>3, AnsweredKnows, NothingToKnow
<1>4. CASE CheckLabel(r) /\ Proceed(r, "write")
  <2>1. q.op = "attach_label_to_task"
    BY <1>4 DEF CheckLabel, At
  <2>2. /\ req'[r].pc = "write" /\ req'[r].op = q.op /\ req'[r].row = q.row
        /\ req'[r].project = q.project /\ req'[r].at = q.at
    BY <1>0, <1>4 DEF Proceed, Request
  <2> QED  BY <1>0, <1>2, <2>1, <2>2 DEF Knows
<1>5. CASE /\ FindAttachment(r)
           /\ \E a \in get_task_label(q) :
                 req' = [req EXCEPT ![r].pc = "write", ![r].item = a]
  <2>1. q.op = "detach_label_from_task"
    BY <1>5 DEF FindAttachment, At
  <2>2. PICK a \in get_task_label(q) :
           req' = [req EXCEPT ![r].pc = "write", ![r].item = a]
    BY <1>5
  <2>3. /\ req'[r].pc = "write" /\ req'[r].op = q.op /\ req'[r].row = q.row
        /\ req'[r].project = q.project /\ req'[r].at = q.at /\ req'[r].item = a
    BY <1>0, <2>2 DEF Request
  <2>4. a \in attachments /\ a.task = q.row.id
    BY DEF get_task_label
  <2>5. ItsAttachment(a)'
    BY <1>0, <2>4 DEF WhereInv, ItemIds, ItsAttachment, TypeOK, TaskLabel
  <2> QED
    BY <1>0, <1>2, <2>1, <2>3, <2>4, <2>5 DEF Knows, ItsAttachment
<1> QED  BY <1>3, <1>4, <1>5 DEF CheckLabel, FindAttachment

LEMMA LoadProjectKnows ==
    ASSUME TypeOK, NEW r \in Requests, LoadProject(r)
    PROVE  Knows(req[r])'
<1>1. req \in [Requests -> Request]
  BY DEF TypeOK
<1>2. CASE Answer(r, 404)
  BY <1>2, AnsweredKnows, NothingToKnow
<1>3. CASE req'[r].pc = "access" /\ req'[r].op \in ProjectRoutes
  <2>1. req'[r].op \notin TaskRoutes \cup {"delete_comment"}
    BY <1>3 DEF ProjectRoutes, TaskRoutes
  <2> QED  BY <1>3, <2>1 DEF Knows, HasTask, ProjectRoutes
<1>4. CASE \E op \in ProjectRoutes : \E u, p, arg, row :
              Begin(r, [NoRequest EXCEPT
                  !.pc = "access", !.op = op, !.user = u,
                  !.project = p, !.arg = arg, !.row = row])
  BY <1>1, <1>3, <1>4 DEF Begin, NoRequest
<1> QED
  BY <1>2, <1>4 DEF LoadProject

\* A write is the last thing that needs it.
LEMMA WriteEnds ==
    ASSUME TypeOK, NEW r \in Requests, Writes(r)
    PROVE  req[r].pc = "write" /\ req'[r].pc \in {"idle", "reload"}
<1>1. req \in [Requests -> Request]
  BY DEF TypeOK
<1>2. req[r].pc = "write"
  BY DEF Writes, UpdateProject, DeleteProject, InsertTask, UpdateTask,
     DeleteTask, InsertAttachment, DeleteAttachment, InsertComment,
     DeleteComment, At
<1>3. \A code : Answer(r, code) => req'[r].pc = "idle"
  BY AnsweredKnows
<1>4. CASE UpdateProject(r)
  <2>1. Reload(r) \/ Answer(r, 500)
    BY <1>4 DEF UpdateProject
  <2> QED  BY <1>1, <1>2, <1>3, <2>1 DEF Reload, Request
<1>5. CASE InsertTask(r) \/ UpdateTask(r)
  <2>1. \/ \E row, to : req' = [req EXCEPT ![r].pc = "reload", ![r].arg = Null,
                                           ![r].row = row, ![r].to = to]
        \/ Answer(r, 500)
    BY <1>5 DEF InsertTask, UpdateTask, Committed
  <2>2. ASSUME NEW row, NEW to,
               req' = [req EXCEPT ![r].pc = "reload", ![r].arg = Null,
                                  ![r].row = row, ![r].to = to]
        PROVE  req'[r].pc = "reload"
    BY <1>1, <2>2 DEF Request
  <2> QED  BY <1>2, <1>3, <2>1, <2>2
<1>6. CASE InsertComment(r)
  <2>1. \/ \E new : req' = [req EXCEPT ![r].pc = "reload", ![r].item = new]
        \/ Answer(r, 500)
    BY <1>6 DEF InsertComment
  <2> QED  BY <1>1, <1>2, <1>3, <2>1 DEF Request
<1>7. CASE ~(UpdateProject(r) \/ InsertTask(r) \/ UpdateTask(r) \/ InsertComment(r))
  BY <1>2, <1>3, <1>7 DEF Writes, DeleteProject, DeleteTask, InsertAttachment,
     DeleteAttachment, DeleteComment
<1> QED  BY <1>2, <1>4, <1>5, <1>6, <1>7

LEMMA WhereNext ==
    TypeOK /\ LabelsInv /\ WhereInv /\ [Next]_vars => WhereInv'
<1> SUFFICES ASSUME TypeOK, LabelsInv, WhereInv, [Next]_vars PROVE WhereInv'
  OBVIOUS
<1>1. Evolves
  BY StepEvolves
<1>2. ItemIds'
  BY <1>1, ItemIdsKept DEF WhereInv
<1>3. ASSUME NEW x \in Requests, req'[x] = req[x] PROVE Knows(req[x])'
  BY <1>1, <1>3, KnowsKept DEF WhereInv
<1>4. ASSUME NEW r \in Requests, Reads(r) PROVE Knows(req[r])'
  <2>1. CASE \E code : Answer(r, code)
    BY <2>1, AnsweredKnows, NothingToKnow
  <2>2. CASE RequeryTask(r)
    <3>1. \/ Answer(r, 404)
          \/ \E code, task : Begin(r, [NoRequest EXCEPT !.status = code,
                                                       !.shown = task])
      BY <2>2 DEF RequeryTask
    <3>2. req'[r].pc = "idle"
      BY <3>1, AnsweredKnows DEF Begin, NoRequest, TypeOK
    <3> QED  BY <3>2, NothingToKnow
  <2>3. CASE RefreshProject(r) \/ UnknownAssignee(r) \/ ReloadComment(r)
    BY <2>1, <2>3 DEF RefreshProject, UnknownAssignee, ReloadComment
  <2> QED
    BY <1>4, <2>2, <2>3, LoadTaskKnows, LoadCommentKnows, LoadCommentTaskKnows,
       AccessStepKnows, LabelStepKnows, LoadProjectKnows DEF Reads, WhereInv
<1>5. ASSUME NEW r \in Requests, Writes(r) PROVE Knows(req[r])'
  BY <1>5, WriteEnds, NothingToKnow
<1>6. ASSUME NEW r \in Requests, Reads(r) \/ Writes(r) PROVE WhereInv'
  <2>1. \A x \in Requests : Knows(req[x])'
    BY <1>3, <1>4, <1>5, <1>6, Others
  <2> QED  BY <1>2, <2>1 DEF WhereInv
<1>7. CASE Around \/ UNCHANGED vars
  <2>1. req' = req \/ req' = [r \in Requests |-> NoRequest]
    BY <1>7 DEF Around, send_message, Crash, ChangeRole, DeleteWorkspace, vars
  <2>2. CASE req' = req
    BY <1>2, <1>3, <2>2 DEF WhereInv
  <2>3. CASE req' = [r \in Requests |-> NoRequest]
    <3>1. \A r \in Requests : req'[r].pc = "idle"
      BY <2>3 DEF NoRequest
    <3>2. \A r \in Requests : Knows(req[r])'
      BY <3>1, NothingToKnow
    <3> QED  BY <1>2, <3>2 DEF WhereInv
  <2> QED  BY <2>1, <2>2, <2>3
<1> QED  BY <1>6, <1>7, NextSplit

LEMMA WhereHolds == Spec => [](TypeOK /\ WhereInv)
BY InitTyped, NextTyped, LabelsInit, LabelsNext, WhereInit, WhereNext, PTL
   DEF Spec

\* A step that touches rows of one project touches rows of its workspace only.
LEMMA OfOneProject ==
    ASSUME NEW p,
           \A x \in Projects : project[x] # project'[x] => x = p,
           \A t \in Difference(tasks, tasks') : t.project = p,
           \A c \in Difference(comments, comments'), t \in tasks :
              t.id = c.task => t.project = p,
           \A a \in Difference(attachments, attachments'), t \in tasks :
              t.id = a.task => t.project = p
    PROVE  \A w \in Touched : w = Home[p]
<1>1. \A w \in WorkspacesOf({c.task : c \in Difference(comments, comments')}) :
         w = Home[p]
  BY DEF WorkspacesOf
<1>2. \A w \in WorkspacesOf({a.task : a \in Difference(attachments, attachments')}) :
         w = Home[p]
  BY DEF WorkspacesOf
<1> QED  BY <1>1, <1>2 DEF Touched

\* A step that leaves the rows alone touches nothing.
LEMMA NothingTouched ==
    ASSUME UNCHANGED <<project, tasks, comments, attachments>>
    PROVE  Touched = {}
<1>1. Difference(tasks, tasks') = {} /\ Difference(comments, comments') = {}
      /\ Difference(attachments, attachments') = {}
  BY DEF Difference
<1>2. WorkspacesOf({}) = {}
  BY DEF WorkspacesOf
<1>3. {c.task : c \in Difference(comments, comments')} = {}
      /\ {a.task : a \in Difference(attachments, attachments')} = {}
  BY <1>1
<1>4. {p \in Projects : project[p] # project'[p]} = {}
  OBVIOUS
<1> QED  BY <1>1, <1>2, <1>3, <1>4 DEF Touched

\* A write touches rows of the project of the request only.
LEMMA WritesTouch ==
    ASSUME TypeOK, LabelsInv, WhereInv, NEW r \in Requests, Writes(r)
    PROVE  \A w \in Touched : w = Home[req[r].project]
<1> DEFINE q == req[r]
           p == q.project
<1>0. q.pc = "write" /\ Knows(q)
  BY WriteEnds DEF WhereInv
<1>1. q.op \in TaskRoutes \cup {"delete_comment"} =>
         \A t \in tasks : t.id = q.row.id => t.project = p
  BY <1>0 DEF Knows, HasTask
<1>2. CASE UpdateProject(r)
  <2>1. UNCHANGED <<tasks, comments, attachments>>
    BY <1>2 DEF UpdateProject, rows
  <2>2. \A x \in Projects : project[x] # project'[x] => x = p
    BY <1>2 DEF UpdateProject, TypeOK
  <2> HIDE DEF q, p
  <2> QED  BY <2>1, <2>2, OfOneProject DEF Difference, q, p
<1>3. CASE DeleteProject(r)
  <2> DEFINE gone == {t \in tasks : t.project = p}
             ids == {t.id : t \in gone}
  <2>1. /\ project' = [project EXCEPT ![p] = Null] /\ Cascade(gone)
    BY <1>3 DEF DeleteProject
  <2>2. \A x \in Projects : project[x] # project'[x] => x = p
    BY <2>1 DEF TypeOK
  <2>3. /\ tasks' = tasks \ gone
        /\ comments' = {c \in comments : c.task \notin ids}
        /\ attachments' = {a \in attachments : a.task \notin ids}
    BY <2>1 DEF Cascade
  <2>4. \A t \in tasks : t.id \in ids => t.project = p
    BY DEF LabelsInv, OldIds
  <2>5. \A t \in gone : t.project = p
    OBVIOUS
  <2> HIDE DEF gone, ids, q, p
  <2>6. /\ \A t \in Difference(tasks, tasks') : t \in gone
        /\ \A c \in Difference(comments, comments') : c.task \in ids
        /\ \A a \in Difference(attachments, attachments') : a.task \in ids
    BY <2>3 DEF Difference
  <2> QED  BY <2>2, <2>4, <2>5, <2>6, OfOneProject DEF q, p
<1>4. CASE InsertTask(r)
  <2> DEFINE new == [id |-> nextId, project |-> req[r].project,
                     reporter |-> req[r].user, assignee |-> req[r].arg.assignee,
                     content |-> req[r].arg.content]
  <2>1. /\ UNCHANGED <<project, comments, attachments>>
        /\ tasks' = tasks \/ tasks' = tasks \cup {new}
    BY <1>4 DEF InsertTask, tenancy
  <2>2. new.project = p
    OBVIOUS
  <2> HIDE DEF new, q, p
  <2> QED  BY <2>1, <2>2, OfOneProject DEF Difference, q, p
<1>5. CASE UpdateTask(r)
  <2> DEFINE row == Applied(q.row, q.arg)
             stored == Task(q.row.id)
  <2>1. /\ UNCHANGED <<project, comments, attachments>>
        /\ \/ tasks' = tasks
           \/ tasks' = (tasks \ stored) \cup {Written(t, q.row, row) : t \in stored}
    BY <1>5 DEF UpdateTask, tenancy
  <2>2. q.row \in TaskRow /\ row \in TaskRow
        /\ row.id = q.row.id /\ row.project = q.row.project
    BY <1>5, PatchInHand
  <2>3. q.op \in TaskRoutes
    BY <1>5 DEF UpdateTask, At, TaskRoutes
  <2>4. \A t \in stored : t \in tasks /\ t.project = p
    BY <1>1, <2>3 DEF Task
  <2> HIDE DEF row, stored, q, p
  <2>5. \A t \in stored : Written(t, q.row, row).project = p
    BY <2>2, <2>4, WrittenTask DEF TypeOK
  <2>6. \A t \in Difference(tasks, tasks') : t.project = p
    BY <2>1, <2>4, <2>5 DEF Difference
  <2> QED  BY <2>1, <2>6, OfOneProject DEF Difference, q, p
<1>6. CASE DeleteTask(r)
  <2> DEFINE gone == Task(q.row.id)
             ids == {t.id : t \in gone}
  <2>1. project' = project /\ Cascade(gone)
    BY <1>6 DEF DeleteTask, tenancy
  <2>2. /\ tasks' = tasks \ gone
        /\ comments' = {c \in comments : c.task \notin ids}
        /\ attachments' = {a \in attachments : a.task \notin ids}
    BY <2>1 DEF Cascade
  <2>3. q.op \in TaskRoutes
    BY <1>6 DEF DeleteTask, At, TaskRoutes
  <2>4. \A t \in tasks : t.id \in ids => t.project = p
    BY <1>1, <2>3 DEF Task
  <2>5. \A t \in gone : t \in tasks /\ t.id \in ids
    BY DEF Task
  <2> HIDE DEF gone, ids, q, p
  <2>6. /\ \A t \in Difference(tasks, tasks') : t \in gone
        /\ \A c \in Difference(comments, comments') : c.task \in ids
        /\ \A a \in Difference(attachments, attachments') : a.task \in ids
    BY <2>2 DEF Difference
  <2> QED  BY <2>1, <2>4, <2>5, <2>6, OfOneProject DEF q, p
<1>7. CASE InsertAttachment(r)
  <2> DEFINE new == [id |-> nextId, task |-> req[r].row.id, label |-> req[r].arg]
  <2>1. /\ UNCHANGED <<project, tasks, comments>>
        /\ attachments' = attachments \/ attachments' = attachments \cup {new}
    BY <1>7 DEF InsertAttachment, tenancy
  <2>2. new.task = q.row.id
    OBVIOUS
  <2>3. q.op \in TaskRoutes
    BY <1>7 DEF InsertAttachment, At, TaskRoutes
  <2>4. \A t \in tasks : t.id = new.task => t.project = p
    BY <1>1, <2>2, <2>3
  <2> HIDE DEF new, q, p
  <2> QED  BY <2>1, <2>4, OfOneProject DEF Difference, q, p
<1>8. CASE DeleteAttachment(r)
  <2>1. /\ UNCHANGED <<project, tasks, comments>>
        /\ attachments' = {a \in attachments : a.id # q.item.id}
    BY <1>8 DEF DeleteAttachment, tenancy
  <2>2. q.op = "detach_label_from_task"
    BY <1>8 DEF DeleteAttachment, At
  <2>3. ItsAttachment(q.item) /\ q.row.id = q.item.task
    BY <1>0, <2>2 DEF Knows
  <2>4. \A t \in tasks : t.id = q.item.task => t.project = p
    BY <1>1, <2>2, <2>3 DEF TaskRoutes
  <2> HIDE DEF q, p
  <2>5. \A a \in Difference(attachments, attachments') : a = q.item
    BY <2>1, <2>3 DEF Difference, ItsAttachment
  <2> QED  BY <2>1, <2>4, <2>5, OfOneProject DEF Difference, q, p
<1>9. CASE InsertComment(r)
  <2> DEFINE new == [id |-> nextId, task |-> req[r].row.id, author |-> req[r].user]
  <2>1. /\ UNCHANGED <<project, tasks, attachments>>
        /\ comments' = comments \/ comments' = comments \cup {new}
    BY <1>9 DEF InsertComment, tenancy
  <2>2. new.task = q.row.id
    OBVIOUS
  <2>3. q.op \in TaskRoutes
    BY <1>9 DEF InsertComment, At, TaskRoutes
  <2>4. \A t \in tasks : t.id = new.task => t.project = p
    BY <1>1, <2>2, <2>3
  <2> HIDE DEF new, q, p
  <2> QED  BY <2>1, <2>4, OfOneProject DEF Difference, q, p
<1>10. CASE DeleteComment(r)
  <2>1. /\ UNCHANGED <<project, tasks, attachments>>
        /\ comments' = {c \in comments : c.id # q.item.id}
    BY <1>10 DEF DeleteComment, tenancy
  <2>2. q.op = "delete_comment"
    BY <1>10 DEF DeleteComment, At
  <2>3. ItsComment(q.item) /\ q.row.id = q.item.task
    BY <1>0, <2>2 DEF Knows
  <2>4. \A t \in tasks : t.id = q.item.task => t.project = p
    BY <1>1, <2>2, <2>3
  <2> HIDE DEF q, p
  <2>5. \A c \in Difference(comments, comments') : c = q.item
    BY <2>1, <2>3 DEF Difference, ItsComment
  <2> QED  BY <2>1, <2>4, <2>5, OfOneProject DEF Difference, q, p
<1> QED
  BY <1>2, <1>3, <1>4, <1>5, <1>6, <1>7, <1>8, <1>9, <1>10 DEF Writes

LEMMA AdmittedStep ==
    ASSUME TypeOK, LabelsInv, WhereInv, Next, workspaces' = workspaces,
           NEW w \in Touched
    PROVE  \E r \in Requests :
              req[r].pc = "write" /\ req[r].at = w /\ req'[r] # req[r]
<1>1. ASSUME NEW r \in Requests, Reads(r) PROVE FALSE
  BY <1>1, ReadsKeep, NothingTouched DEF tables, tenancy, rows
<1>2. CASE Around
  <2>1. ~DeleteWorkspace
    BY DEF DeleteWorkspace
  <2>2. UNCHANGED <<project, tasks, comments, attachments>>
    BY <1>2, <2>1 DEF Around, send_message, Crash, ChangeRole, tables, tenancy,
                      rows
  <2> QED  BY <2>2, NothingTouched
<1>3. ASSUME NEW r \in Requests, Writes(r)
      PROVE  req[r].pc = "write" /\ req[r].at = w /\ req'[r] # req[r]
  <2>1. req[r].pc = "write" /\ req'[r].pc # "write"
    BY <1>3, WriteEnds
  <2>2. req[r].at = Home[req[r].project]
    BY <2>1 DEF WhereInv, Knows
  <2> QED  BY <1>3, <2>1, <2>2, WritesTouch
<1> QED  BY <1>1, <1>2, <1>3, NextSplit

\* However requests interleave, and whatever others have deleted, patched or
\* demoted since a request was admitted, it changes rows of one workspace only:
\* the one in which its caller was found to be a member.
THEOREM WritesAdmitted == Spec => WritesWhereAdmitted
<1>1. TypeOK /\ LabelsInv /\ WhereInv /\ [Next]_vars =>
         [workspaces' = workspaces =>
            \A w \in Touched : \E r \in Requests :
               req[r].pc = "write" /\ req[r].at = w /\ req'[r] # req[r]]_vars
  BY AdmittedStep
<1>2. Spec => []LabelsInv
  BY InitTyped, NextTyped, LabelsInit, LabelsNext, PTL DEF Spec
<1> QED  BY <1>1, <1>2, WhereHolds, PTL DEF Spec, WritesWhereAdmitted
-------------------------------------------------------------------------------
(***************************************************************************)
(* Tasks implements Board.  The reading steps are stutters; what a handler *)
(* writes is one step of Board, because ids are given once (IdsInv,        *)
(* ItemIds) and what attach_label_to_task has found out still holds when   *)
(* it inserts (Attaching).                                                 *)
(***************************************************************************)
BoardInv == TypeOK /\ NoDanglingRows /\ LabelsInv /\ IdsInv /\ WhereInv

LEMMA BoardHolds == Spec => []BoardInv
<1>1. TypeOK /\ NoDanglingRows /\ LabelsInv /\ IdsInv /\ WhereInv <=> BoardInv
  BY DEF BoardInv
<1>2. Spec => [](TypeOK /\ LabelsInv /\ IdsInv)
  BY InitTyped, NextTyped, LabelsInit, LabelsNext, IdsInit, IdsNext, PTL
     DEF Spec
<1> QED  BY <1>1, <1>2, RowsBelong, WhereHolds, PTL

\* The columns a PATCH sets are not part of the hierarchy.
LEMMA SameBoard ==
    ASSUME UNCHANGED <<workspaces, labels, comments, attachments, nextId>>,
           open_projects' = open_projects, reported' = reported
    PROVE  UNCHANGED B!vars
BY DEF B!vars, B!containers, B!parts

LEMMA KeptBoard ==
    ASSUME UNCHANGED <<workspaces, project, labels, tasks>>,
           UNCHANGED <<comments, attachments, nextId>>
    PROVE  UNCHANGED B!vars
<1>1. open_projects' = open_projects /\ reported' = reported
  BY DEF open_projects, reported
<1> QED  BY <1>1, SameBoard

\* Rows with different ids are different parts.
LEMMA OneIdentity ==
    ASSUME IdsInv, NEW s \in tasks, NEW t \in tasks,
           identity_of(s) = identity_of(t)
    PROVE  s = t
<1>1. s.id = t.id
  BY DEF identity_of
<1> QED  BY <1>1 DEF IdsInv

LEMMA ReportedRow ==
    ASSUME NEW t \in tasks
    PROVE  /\ identity_of(t) \in reported
           /\ identity_of(t).id = t.id /\ identity_of(t).project = t.project
BY DEF identity_of, reported

LEMMA CascadeIsWithout ==
    ASSUME IdsInv, NEW gone, gone \subseteq tasks, Cascade(gone)
    PROVE  B!Without({identity_of(t) : t \in gone})
<1> DEFINE parts == {identity_of(t) : t \in gone}
<1>1. {t.id : t \in parts} = {t.id : t \in gone}
  <2>1. \A t : identity_of(t).id = t.id
    BY DEF identity_of
  <2> QED  BY <2>1
<1>2. reported' = reported \ parts
  <2>1. tasks' = tasks \ gone
    BY DEF Cascade
  <2>2. ASSUME NEW t \in tasks \ gone PROVE identity_of(t) \notin parts
    BY <2>2, OneIdentity
  <2> QED  BY <2>1, <2>2 DEF reported
<1>3. /\ comments' = {c \in comments : c.task \notin {t.id : t \in gone}}
      /\ attachments' = {a \in attachments : a.task \notin {t.id : t \in gone}}
  BY DEF Cascade
<1> HIDE DEF parts
<1> QED  BY <1>1, <1>2, <1>3 DEF B!Without, parts

\* A cascade from nothing.
LEMMA NothingGone ==
    ASSUME Cascade({}) PROVE UNCHANGED <<tasks, comments, attachments>>
BY DEF Cascade

LEMMA BoardInit == Init => B!Init
<1> SUFFICES ASSUME Init PROVE B!Init
  OBVIOUS
<1>1. reported = {}
  BY DEF Init, reported
<1>2. open_projects = Projects
  <2>1. PICK c \in Contents :
           project = [p \in Projects |-> [content |-> c, is_archived |-> FALSE]]
    BY DEF Init
  <2>2. [content |-> c, is_archived |-> FALSE] \in ProjectRow
    BY DEF ProjectRow
  <2> QED  BY <2>1, <2>2, RowsOK DEF open_projects
<1> QED  BY <1>1, <1>2 DEF Init, B!Init

LEMMA InsertTaskReports ==
    ASSUME TypeOK, NEW r \in Requests, InsertTask(r)
    PROVE  B!Next \/ UNCHANGED B!vars
<1> DEFINE q == req[r]
           new == [id |-> nextId, project |-> q.project, reporter |-> q.user,
                   assignee |-> q.arg.assignee, content |-> q.arg.content]
<1>1. UNCHANGED <<tenancy, comments, attachments>>
  BY DEF InsertTask
<1>2. CASE UNCHANGED <<tasks, nextId>>
  BY <1>1, <1>2, KeptBoard DEF tenancy, rows
<1>3. CASE project[q.project] # Null /\ tasks' = tasks \cup {new}
           /\ nextId' = nextId + 1
  <2>1. q.project \in Projects /\ q.user \in Users
    BY DEF InsertTask, At, TypeOK, InHand
  <2>2. identity_of(new) =
           [id |-> nextId, project |-> q.project, reporter |-> q.user]
    BY DEF identity_of
  <2> HIDE DEF new
  <2>3. reported' = reported \cup {identity_of(new)}
    BY <1>3 DEF reported
  <2>4. open_projects' = open_projects /\ q.project \in open_projects
    BY <1>1, <1>3, <2>1 DEF open_projects, tenancy
  <2>5. B!Report(q.project, q.user)
    BY <1>1, <1>3, <2>2, <2>3, <2>4 DEF B!Report, B!Identified, B!containers,
       B!parts, tenancy
  <2> QED  BY <2>1, <2>4, <2>5 DEF B!Next
<1> QED  BY <1>2, <1>3 DEF InsertTask

\* BaseRepository.update sets neither the id of a task, nor its project, nor who
\* reported it.
LEMMA PatchKeepsIdentity ==
    ASSUME TypeOK, NEW r \in Requests, UpdateTask(r), NEW t \in tasks
    PROVE  identity_of(Written(t, req[r].row, Applied(req[r].row, req[r].arg)))
              = identity_of(t)
<1> DEFINE q == req[r]
           new == Applied(q.row, q.arg)
<1>1. /\ q.row \in TaskRow /\ q.arg \in TaskUpdate /\ new \in TaskRow
      /\ new.id = q.row.id /\ new.project = q.row.project
  BY PatchInHand
<1>2. new.reporter = q.row.reporter
  BY <1>1 DEF Applied, TaskRow, TaskUpdate
<1>3. t \in TaskRow
  BY DEF TypeOK
<1> HIDE DEF new
<1>4. /\ Written(t, q.row, new).id = t.id
      /\ Written(t, q.row, new).project = t.project
      /\ Written(t, q.row, new).reporter = t.reporter
  BY <1>1, <1>2, <1>3 DEF Written, TaskRow
<1> QED  BY <1>4 DEF identity_of, new

LEMMA UpdateTaskStutters ==
    ASSUME TypeOK, NEW r \in Requests, UpdateTask(r)
    PROVE  UNCHANGED B!vars
<1> DEFINE w(t) == Written(t, req[r].row, Applied(req[r].row, req[r].arg))
           stored == Task(req[r].row.id)
<1>1. UNCHANGED <<tenancy, comments, attachments, nextId>>
  BY DEF UpdateTask
<1>2. \/ tasks' = tasks
      \/ tasks' = (tasks \ stored) \cup {w(t) : t \in stored}
  BY DEF UpdateTask
<1>3. stored \subseteq tasks
  BY DEF Task
<1>4. \A t \in tasks : identity_of(w(t)) = identity_of(t)
  BY PatchKeepsIdentity
<1> HIDE DEF w, stored
<1>5. reported' = reported
  BY <1>2, <1>3, <1>4 DEF reported
<1>6. open_projects' = open_projects
  BY <1>1 DEF open_projects, tenancy
<1> QED  BY <1>1, <1>5, <1>6, SameBoard DEF tenancy

LEMMA DeleteTaskRemoves ==
    ASSUME TypeOK, IdsInv, NEW r \in Requests, DeleteTask(r)
    PROVE  B!Next \/ UNCHANGED B!vars
<1> DEFINE gone == Task(req[r].row.id)
<1>1. Cascade(gone) /\ UNCHANGED <<tenancy, nextId>>
  BY DEF DeleteTask
<1>2. gone \subseteq tasks /\ \A s, t \in gone : s = t
  BY DEF Task, IdsInv
<1> HIDE DEF gone
<1>3. CASE gone = {}
  <2>1. UNCHANGED <<tasks, comments, attachments>>
    BY <1>1, <1>3, NothingGone
  <2> QED  BY <1>1, <2>1, KeptBoard DEF tenancy, rows
<1>4. CASE gone # {}
  <2>1. PICK t \in gone : gone = {t}
    BY <1>2, <1>4
  <2>2. {identity_of(x) : x \in gone} = {identity_of(t)}
    BY <2>1
  <2>3. B!Without({identity_of(t)})
    BY <1>1, <1>2, <2>2, CascadeIsWithout
  <2>4. open_projects' = open_projects
    BY <1>1 DEF open_projects, tenancy
  <2>5. identity_of(t) \in reported
    BY <1>2, <2>1, ReportedRow
  <2>6. B!Remove(identity_of(t))
    BY <1>1, <2>3, <2>4, <2>5 DEF B!Remove, B!containers, tenancy
  <2> QED  BY <2>5, <2>6 DEF B!Next
<1> QED  BY <1>3, <1>4

LEMMA DeleteProjectCloses ==
    ASSUME TypeOK, NoDanglingRows, IdsInv, NEW r \in Requests, DeleteProject(r)
    PROVE  B!Next \/ UNCHANGED B!vars
<1> DEFINE p == req[r].project
           gone == {t \in tasks : t.project = p}
<1>1. /\ project' = [project EXCEPT ![p] = Null] /\ Cascade(gone)
      /\ UNCHANGED <<workspaces, labels, nextId>>
  BY DEF DeleteProject
<1>2. p \in Projects
  BY DEF DeleteProject, At, TypeOK, InHand
<1>3. CASE project[p] = Null
  <2>1. project' = project
    BY <1>1, <1>2, <1>3 DEF TypeOK
  <2>2. gone = {}
    BY <1>3 DEF NoDanglingRows
  <2>3. UNCHANGED <<tasks, comments, attachments>>
    BY <1>1, <2>2, NothingGone
  <2> QED  BY <1>1, <2>1, <2>3, KeptBoard DEF rows
<1>4. CASE project[p] # Null
  <2>1. open_projects' = open_projects \ {p} /\ p \in open_projects
    BY <1>1, <1>2, <1>4 DEF open_projects, TypeOK
  <2>2. {identity_of(t) : t \in gone} = {t \in reported : t.project = p}
    BY ReportedRow DEF reported
  <2>3. B!Without({t \in reported : t.project = p})
    <3> HIDE DEF gone
    <3>1. gone \subseteq tasks
      BY DEF gone
    <3> QED  BY <1>1, <2>2, <3>1, CascadeIsWithout
  <2>4. B!Close(p)
    BY <1>1, <2>1, <2>3 DEF B!Close
  <2> QED  BY <2>1, <2>4 DEF B!Next
<1> QED  BY <1>3, <1>4

LEMMA DeleteWorkspaceDissolves ==
    ASSUME TypeOK, IdsInv, DeleteWorkspace
    PROVE  B!Next
<1>1. PICK w \in workspaces :
         /\ workspaces' = workspaces \ {w}
         /\ project' = [p \in Projects |-> IF Home[p] = w THEN Null ELSE project[p]]
         /\ labels' = {l \in labels : Home[l] # w}
         /\ Cascade({t \in tasks : Home[t.project] = w})
  BY DEF DeleteWorkspace
<1> DEFINE gone == {t \in tasks : Home[t.project] = w}
<1>2. nextId' = nextId
  BY DEF DeleteWorkspace
<1>3. open_projects' = {p \in open_projects : Home[p] # w}
  BY <1>1 DEF open_projects
<1>4. {identity_of(t) : t \in gone} = {t \in reported : Home[t.project] = w}
  BY ReportedRow DEF reported
<1>5. B!Without({t \in reported : Home[t.project] = w})
  <2>1. Cascade(gone)
    BY <1>1
  <2> HIDE DEF gone
  <2>2. gone \subseteq tasks
    BY DEF gone
  <2> QED  BY <1>4, <2>1, <2>2, CascadeIsWithout
<1>6. B!Dissolve(w)
  BY <1>1, <1>2, <1>3, <1>5 DEF B!Dissolve
<1> QED  BY <1>6 DEF B!Next

LEMMA InsertCommentComments ==
    ASSUME TypeOK, NEW r \in Requests, InsertComment(r)
    PROVE  B!Next \/ UNCHANGED B!vars
<1> DEFINE q == req[r]
           new == [id |-> nextId, task |-> q.row.id, author |-> q.user]
<1>1. UNCHANGED <<tenancy, tasks, attachments>>
  BY DEF InsertComment
<1>2. CASE UNCHANGED <<comments, nextId>>
  BY <1>1, <1>2, KeptBoard DEF tenancy, rows
<1>3. CASE Task(q.row.id) # {} /\ comments' = comments \cup {new}
           /\ nextId' = nextId + 1
  <2>1. q.user \in Users
    BY DEF InsertComment, At, TypeOK, InHand
  <2>2. PICK t \in tasks : t.id = q.row.id
    BY <1>3 DEF Task
  <2>3. identity_of(t) \in reported /\ identity_of(t).id = q.row.id
    BY <2>2, ReportedRow
  <2>4. open_projects' = open_projects /\ reported' = reported
    BY <1>1 DEF open_projects, reported, tenancy
  <2>5. B!Comment(identity_of(t), q.user)
    BY <1>1, <1>3, <2>3, <2>4 DEF B!Comment, B!Identified, B!containers, tenancy
  <2> QED  BY <2>1, <2>3, <2>5 DEF B!Next
<1> QED  BY <1>2, <1>3 DEF InsertComment

LEMMA DeleteCommentUncomments ==
    ASSUME TypeOK, WhereInv, NEW r \in Requests, DeleteComment(r)
    PROVE  B!Next \/ UNCHANGED B!vars
<1> DEFINE id == req[r].item.id
<1>1. /\ comments' = {c \in comments : c.id # id}
      /\ UNCHANGED <<tenancy, tasks, attachments, nextId>>
  BY DEF DeleteComment
<1> HIDE DEF id
<1>2. open_projects' = open_projects /\ reported' = reported
  BY <1>1 DEF open_projects, reported, tenancy
<1>3. CASE \A c \in comments : c.id # id
  <2>1. comments' = comments
    BY <1>1, <1>3
  <2> QED  BY <1>1, <1>2, <2>1, SameBoard DEF tenancy
<1>4. CASE \E c \in comments : c.id = id
  <2>1. PICK c \in comments : c.id = id
    BY <1>4
  <2>2. comments' = comments \ {c}
    BY <1>1, <2>1 DEF WhereInv, ItemIds
  <2>3. B!Uncomment(c)
    BY <1>1, <1>2, <2>2 DEF B!Uncomment, B!containers, tenancy
  <2> QED  BY <2>3 DEF B!Next
<1> QED  BY <1>3, <1>4

LEMMA InsertAttachmentAttaches ==
    ASSUME TypeOK, LabelsInv, NEW r \in Requests, InsertAttachment(r)
    PROVE  B!Next \/ UNCHANGED B!vars
<1> DEFINE q == req[r]
           new == [id |-> nextId, task |-> q.row.id, label |-> q.arg]
<1>1. UNCHANGED <<tenancy, tasks, comments>>
  BY DEF InsertAttachment
<1>2. CASE UNCHANGED <<attachments, nextId>>
  BY <1>1, <1>2, KeptBoard DEF tenancy, rows
<1>3. CASE /\ Task(q.row.id) # {} /\ q.arg \in labels /\ TaskLabelFree(q)
           /\ attachments' = attachments \cup {new} /\ nextId' = nextId + 1
  <2>1. PICK t \in tasks : t.id = q.row.id
    BY <1>3 DEF Task
  <2>2. Home[q.arg] = Home[t.project]
    BY <2>1 DEF InsertAttachment, At, LabelsInv, Attaching
  <2>3. /\ identity_of(t) \in reported /\ identity_of(t).id = q.row.id
        /\ identity_of(t).project = t.project
    BY <2>1, ReportedRow
  <2>4. \A a \in attachments : a.task = q.row.id => a.label # q.arg
    BY <1>3 DEF TaskLabelFree, get_task_label
  <2>5. open_projects' = open_projects /\ reported' = reported
    BY <1>1 DEF open_projects, reported, tenancy
  <2>6. B!Attach(identity_of(t), q.arg)
    BY <1>1, <1>3, <2>2, <2>3, <2>4, <2>5 DEF B!Attach, B!Identified,
       B!containers, tenancy
  <2> QED  BY <1>3, <2>3, <2>6 DEF B!Next
<1> QED  BY <1>2, <1>3 DEF InsertAttachment

LEMMA DeleteAttachmentDetaches ==
    ASSUME TypeOK, WhereInv, NEW r \in Requests, DeleteAttachment(r)
    PROVE  B!Next \/ UNCHANGED B!vars
<1> DEFINE id == req[r].item.id
<1>1. /\ attachments' = {a \in attachments : a.id # id}
      /\ UNCHANGED <<tenancy, tasks, comments, nextId>>
  BY DEF DeleteAttachment
<1> HIDE DEF id
<1>2. open_projects' = open_projects /\ reported' = reported
  BY <1>1 DEF open_projects, reported, tenancy
<1>3. CASE \A a \in attachments : a.id # id
  <2>1. attachments' = attachments
    BY <1>1, <1>3
  <2> QED  BY <1>1, <1>2, <2>1, SameBoard DEF tenancy
<1>4. CASE \E a \in attachments : a.id = id
  <2>1. PICK a \in attachments : a.id = id
    BY <1>4
  <2>2. attachments' = attachments \ {a}
    BY <1>1, <2>1 DEF WhereInv, ItemIds
  <2>3. B!Detach(a)
    BY <1>1, <1>2, <2>2 DEF B!Detach, B!containers, tenancy
  <2> QED  BY <2>3 DEF B!Next
<1> QED  BY <1>3, <1>4

LEMMA WritesOnBoard ==
    ASSUME TypeOK, NoDanglingRows, LabelsInv, IdsInv, WhereInv,
           NEW r \in Requests, Writes(r)
    PROVE  B!Next \/ UNCHANGED B!vars
<1>1. CASE UpdateProject(r)
  <2>1. UNCHANGED <<workspaces, labels, rows>>
    BY <1>1 DEF UpdateProject
  <2>2. open_projects' = open_projects
    BY <1>1, ProjectsStay DEF open_projects
  <2>3. reported' = reported
    BY <2>1 DEF reported, rows
  <2> QED  BY <2>1, <2>2, <2>3, SameBoard DEF rows
<1> QED
  BY <1>1, InsertTaskReports, UpdateTaskStutters, DeleteTaskRemoves,
     DeleteProjectCloses, InsertCommentComments, DeleteCommentUncomments,
     InsertAttachmentAttaches, DeleteAttachmentDetaches DEF Writes

LEMMA AroundOnBoard ==
    ASSUME TypeOK, IdsInv, Around PROVE B!Next \/ UNCHANGED B!vars
<1>1. CASE DeleteWorkspace
  BY <1>1, DeleteWorkspaceDissolves
<1>2. CASE ~DeleteWorkspace
  <2>1. UNCHANGED <<workspaces, project, labels, rows>>
    BY <1>2 DEF Around, send_message, Crash, ChangeRole, tables, tenancy
  <2> QED  BY <2>1, KeptBoard DEF rows
<1> QED  BY <1>1, <1>2

\* However requests interleave, every commit is one step of the hierarchy, and
\* nothing else changes it: parts are made where what they belong to exists,
\* never move, and go alone or with what they belong to.
THEOREM TasksImplementBoard == Spec => ImplementsBoard
<1>1. BoardInv /\ [Next]_vars => [B!Next]_(B!vars)
  <2> SUFFICES ASSUME TypeOK, NoDanglingRows, LabelsInv, IdsInv, WhereInv,
                      [Next]_vars
               PROVE  B!Next \/ UNCHANGED B!vars
    BY DEF BoardInv
  <2>1. CASE UNCHANGED vars
    BY <2>1, KeptBoard DEF vars, tables, tenancy, rows
  <2>2. ASSUME NEW r \in Requests, Reads(r) PROVE UNCHANGED B!vars
    BY <2>2, ReadsKeep, KeptBoard DEF tables, tenancy, rows
  <2> QED  BY <2>1, <2>2, WritesOnBoard, AroundOnBoard, NextSplit
<1> QED  BY <1>1, BoardInit, BoardHolds, PTL DEF Spec, ImplementsBoard, B!Spec
================================================================================
