# TaskHub: specification and verification

TLA+ models of the TaskHub API (the FastAPI service under `src/`), the TLC
runs that check them on small instances, and proofs of their main theorems for
every instance. Paths below are relative to the repository. A module's header
names the code it models, and `PROJECT.json` maps each definition to its lines.

## 1. The system

TaskHub is one asyncio process (FastAPI, SQLAlchemy) in front of PostgreSQL and
Redis. Every request is a coroutine with a database session of its own. There
are no locks, no `SELECT ... FOR UPDATE` and no background workers besides mails
sent after an answer. The hard behaviours are therefore:

* **interleaving at every `await`**: a handler reads in one statement, decides,
  and writes in a later one, at isolation level READ COMMITTED;
* **two stores without a common transaction**: the database is committed first
  and Redis is changed afterwards; every Redis failure is caught and logged;
* **time**: whole seconds in tokens and times to live, inclusive and exclusive
  ends.

| Component | Source | State | Operations | What makes it correct |
|---|---|---|---|---|
| Workspaces | `src/api/v1/workspaces.py` | tables workspaces, workspace_members, projects, labels | create, update, delete; add, change, remove a member; create a project, a label | the owner keeps an OWNER row; one role per member; nothing refers to a deleted workspace; documented answers |
| Roles | `src/core/rbac.py`, `src/api/deps.py` | none (reads members) | `require_workspace_role`, `has_role_permission` | the role is checked where the change is made |
| Task list cache | `src/services/cache_service.py`, `projects.py`, `tasks.py` | Redis keys `cache:project:*` | fill on a miss, purge after a commit, expiry | a stale entry has a known cause, and does not last |
| Tokens | `src/api/v1/auth.py`, `src/services/auth_service.py`, `src/core/security.py` | Redis keys `blacklist:token:*`, the tokens clients hold | login, refresh, logout, check | a revocation lasts as long as the token does |
| Projects, tasks, comments, attachments | `src/api/v1/tasks.py`, `projects.py` | tables projects, tasks, comments, task_labels | PATCH, archive, delete a project; create, PATCH, delete a task; comment; attach, detach | no row outlives what it belongs to; a label is attached once and in its own workspace; a PATCH changes what it names; the answer shows what was committed |
| Accounts | `auth_service.register_user`, `src/api/v1/users.py` | table users | register, update_me | an e-mail belongs to one user; a profile change changes what it names |
| Notifications | `src/services/notification_service.py` | background tasks of an answer | queue, send | no assignment is forgotten while the process runs |
| Pagination | `src/repositories/task_repository.py`, `projects.py` | none | count, select with offset | pages have room for the total; what a walk misses or repeats has left or entered the list |
| Redis client | `src/redis_client.py` | a module global | get, close | one client |
| Requests | `src/core/middleware.py`, `src/core/exceptions.py`, `src/main.py` | none | wrap, translate exceptions | an exception becomes the answer documented for it |

How they interact: every protected route first calls `get_current_user` (Tokens),
then a role check (Roles, which reads the tables of Workspaces), then its own
statements; routes that change tasks end with a call of the cache's purge. Deleting
a workspace or a project cascades in the database; of the two only `delete_project`
purges.

## 2. Modules

| Module | Models |
|---|---|
| `Rbac` | the role hierarchy |
| `Workspaces` | the eight writing routes of `workspaces.py`, with the role dependency |
| `Membership` | abstract: who owns a workspace and which role each user has |
| `WorkspacesRefinement` | the mapping from the tables to `Membership` |
| `WorkspacesProofs`, `WorkspacesRefinementProofs` | proofs about them |
| `TaskCache`, `TaskCacheProofs` | the cache of task lists |
| `AuthTokens`, `AuthTokensProofs` | tokens and their revocation |
| `Tasks` | the writing routes of `tasks.py` and `projects.py`, and the mails |
| `Board` | abstract: which projects, labels, tasks, comments and attachments there are, and what belongs to what |
| `TasksRefinement` | the mapping from the tables to `Board` |
| `TasksProofs`, `TaskRowsProofs` | proofs of its types, of its promises about rows, mails and roles, and of the refinement |
| `Accounts`, `AccountsProofs` | registration and profile changes |
| `TaskPages`, `TaskPagesProofs` | a client walking through the pages of a task list |
| `MCWorkspaces`, `MCTaskCache`, `MCAuthTokens`, `MCTasks`, `MCAccounts`, `MCPages` | instances for TLC |

### Workspaces

`req[r]` is the coroutine of request `r`: its place in the handler (`load`,
`write`, `reload`), what the request named, the member row the dependency loaded
(`me`) and the row the handler works on (`row`). An action runs from one await
to the next:

* the dependency's SELECT. Its parameter `workspace_id` is not in the routes'
  paths (they call theirs `id`), so FastAPI reads it from the query string; the
  model has two inputs, `ws` and `id`;
* the handler's SELECTs and checks (`LoadWorkspace`, `LoadMember`,
  `CheckNewMember`, `CheckLabel`). `CheckNewMember` takes two SELECTs as one
  step, which loses nothing because user rows are never deleted. A row the
  session has loaded before keeps the attributes of that first read (`Loaded`);
* the flush and the commit, with foreign keys, unique constraints and cascades;
  SQLAlchemy issues an UPDATE only for what differs from what it loaded;
* the SELECT that reloads the row for the answer. It comes after the commit, so
  a failure there is a 500 for a change that was made.

A member may be given any role, OWNER included, because the schema allows it.
READ COMMITTED makes each statement see the latest commits. Between a flush
and its commit other transactions do not see the flushed rows and wait for
its locks, so flush and commit are one step.

### TaskCache

What a list shows is abstracted to versions: `version[p]` counts committed
changes to project `p`'s tasks, and an entry records the versions its `total` and
its `items` were read at. The count and the select are separate statements. The
purge is a SCAN, one step per key, followed by one DELETE, and each can fail; so
can GET and SETEX. The process can stop at any point. `late` and `spared` are
history: no action reads them. Redis may expire an entry at any time, a superset of what
a time to live of 300 s allows. `delete_workspace` does not purge either; its
projects are gone and every route asks the database for the project before the
cache, so those entries are never read and the module leaves them out.

### AuthTokens

The clock counts seconds. A token is exactly its claims (`sub`, `type`, `exp`):
there is no issue time and no identifier in it, so equal claims are equal strings
and equal Redis keys. `decode_token` accepts a token up to and including the
second `exp`. `revoke_token` computes the time to live in one step and SETEX is
executed in another; a key disappears in the second its time to live ends in
(`KeyExpires` before the next `Tick`). With `Failures` Redis may fail any call and may
restart without some keys. A crash of the process only stops requests, which a
request that takes no further step models already. Clients present the
access tokens they hold to a logout, with or without a refresh token; any token
may be presented to a protected route and to refresh.

### Tasks

Written like `Workspaces`: one coroutine and one session per request, an action
from one await to the next. `row` is the task or project the session holds since
its first SELECT. Every write uses it:

* `get_task_and_check_access` asks for a member row and nothing else. Its
  parameter `required_role` is passed by the handlers and never compared;
  `check_project_access` does compare it (`required_role`);
* `BaseRepository.update` sets the attributes that are not None (`Applied`), and
  the UPDATE names the columns that differ from what was loaded (`Written`), so
  that a stale row does not set other columns back. An UPDATE of a row that is
  gone raises and is answered 500;
* a task is deleted by the ORM with the rows its session sees, and by `ON DELETE
  CASCADE` with the others (`Cascade`);
* after the commit the handler SELECTs the task again (`RequeryTask`). If it is
  gone the answer is 404 and the queued mail goes with the answer; if not, the
  session's object is shown, with the relationships it loaded before. `shown` is
  what the answer says;
* a mail waits in `outbox` behind the answer and is sent or lost once
  (`send_message`); `Crash` loses all requests and all mails. `owed` is history.

`ChangeRole` and `DeleteWorkspace` are what the routes of `Workspaces` do to the
tables these handlers read; they may come between any two of their steps. The
cache purge that ends a handler is in `TaskCache`, which shares no variable with
this module: it changes Redis only, and no handler here reads Redis.

`Board` is what these routes promise together: one atomic step for each thing a
client can do (`Report`, `Remove`, `Comment`, `Uncomment`, `Attach`, `Detach`,
`Close` a project, `Dissolve` a workspace), with no request, session or role. A
part comes into being under something that is there, never moves, and goes alone
or in the same instant as what it belongs to. `TasksRefinement` reads a task as
its id, project and reporter: the columns a PATCH sets are not part of `Board`.

### Accounts

The e-mail a body names is normalised by the schema (`Validated`: pydantic's
`EmailStr` lowers the domain); the table's unique key compares strings.
`register_user` looks the e-mail up in one statement and inserts in a later one;
`update_me` looks nothing up, and writes the columns that its assignments made
different from the row the dependency loaded (`Dirty`). What the key refuses is
answered 500. No route deletes a user.

### TaskPages

`list` is the filtered list in the order of the query. `CountTasks` and
`SelectTasks` are the two statements of `get_project_tasks_filtered`; a client
asks for page after page until one is not full, while tasks `Enter` and `Leave`
the list anywhere (a task may become selected by a PATCH, and `created_at` is set
before the commit). `first`, `seen`, `repeated`, `entered` and `left` are history.
Tasks with equal `created_at` are left out: the query gives them no order.

## 3. What is checked

`tlc -config X.cfg M` for each run of `PROJECT.json`.

| Run | Checks | Shows |
|---|---|---|
| `MCMembers` | `TypeOK`, `OwnerStaysOwner`, `OneRolePerMember`, `NoOrphanRows`, `ImplementsMembership` | two requests on all the routes, statement by statement |
| `MCSequential` | `LabelNamesUnique`, `OwnerRoleKept` | hold when requests come one at a time |
| `MCOwnerRace` | `OwnerRoleKept` | **violated** by two requests |
| `MCRoleAnswer` | `RoleUpdateAnswered` | **violated** by one request |
| `MCTarget` | `RoleCheckedInTarget` | **violated** by one request |
| `MCTaskCache` | `TypeOK`, `StaleHasCause`, `EventuallyCoherent` | readers, writers, failures, crashes on two keys; the time to live repairs the cache |
| `MCTaskCacheRace` | `PurgeLeavesNothingOlder` | **violated** by a reader and a writer |
| `MCAuthTokens` | `TypeOK`, `RevocationHolds`, `LogoutRevokes`, `OnlyTwinsRevoked` | two requests, clock, Redis failures |
| `MCTasks` | `TypeOK`, `NoDanglingRows`, `OneAttachment`, `LabelsAtHome`, `AssignmentsInHand`, `OnlyNamedColumns`, `WritesWhereAdmitted`, `ImplementsBoard` | two requests on the project and task routes, while roles and workspaces go |
| `MCTaskAnswer` | `AssigneeShown` | **violated** by one PATCH |
| `MCAccounts` | `TypeOK`, `OneAccountPerEmail`, `OnlyNamedColumns` | two registrations or profile changes |
| `MCPages` | `TypeOK`, `PagesHoldTotal`, `OnlyLeavingHides`, `OnlyEnteringRepeats` | a walk through a list that changes |

What the violated ones say about the code:

* `MCOwnerRace`: the check "Cannot modify workspace owner role"
  (`workspaces.py:225`) is made on a role read before the UPDATE. The
  row can become an OWNER row in between and is changed all the same. The user
  in `owner_id` is safe (`OwnerStaysOwner`, proved): his row was never anything
  but OWNER, and no other row can become his.
* `MCRoleAnswer`: `WorkspaceMemberRead.user` is a relationship the handler never
  loads. Unless the member is the caller, reading it fails and a committed change
  is answered 500.
* `MCTarget`: the two names for the workspace id, see above. The fix is one name.
* `MCTaskCacheRace`: a reader that missed the cache and queried before a commit
  stores its list after the purge. The old list is then served until it
  expires. `StaleHasCause` says that this, an abandoned purge and a purge that
  is still under way are the only causes.
* `MCTaskAnswer`: the second SELECT of `update_task` ("Re-query updated task",
  `tasks.py:105`) does not overwrite a relationship the session has loaded, so
  the answer names the new assignee in `assignee_id` and shows the former one in
  `assignee`.

What the passing ones say beside their names:

* `LabelNamesUnique` holds for one request at a time only: the handler compares
  names without case, the unique key with case. With two requests TLC finds two
  labels that differ in case.
* `RevocationHolds` ends at the second `exp`: the decoder takes `exp` inclusively,
  the time to live exclusively, so a revoked token is good again within it.
* `OnlyTwinsRevoked` says exactly when a login is given a token that is revoked
  already: when an equal one was made before, in the same second.
* `AssignmentsInHand` holds up to a crash, and for as long as the task is there
  to be answered for. That a mail is sent once is not promised: two PATCHes of
  one assignee both queue it.
* `OnlyNamedColumns` (in `Tasks` and in `Accounts`) is the lost-update property:
  the row a handler holds is stale, yet columns it does not name stay as others
  have set them.
* `OnlyLeavingHides`: what enters a list never hides an item from a walking
  client, because it only pushes others to later pages; each item that leaves
  hides at most one.

**Bounds.** Two requests suffice for every race here: each is between one
statement of one handler and one write of another. `MCMembers` has one
workspace (routes touch one workspace at a time; the two-workspace inputs are in
`MCSequential`), two users and an id no user has, so that a caller can act on
himself, on the owner and on nobody. `MaxRows` bounds when an insert may *start*;
with 3 a member can be added, removed and added again. In `MCTaskCache`, two keys
let a SCAN see one and miss the other, a change of the tasks and one of a
profile race two requests, and no symmetry is used because liveness is checked. In `MCAuthTokens` the lifetimes are one
and two seconds and the clock makes one tick: each step of a revocation happens in the
second before a token's last or in the last; `MaxTokens` bounds the requests that make
tokens. `Null` and users are model values; request, user, project and key
symmetry is used where no property tells them apart, never in the liveness run.
`MCTasks` has two workspaces with a label each, one project, an administrator, a
viewer of the other workspace and a user id nobody has. One task and two rows
are enough for an insert and a second insert or a deletion of what it hangs on;
two requests for a check, a change behind it and the write. `RouteSets` (five
sets, `Themes`) lets each behaviour use the routes that write the same rows, with
the deletion of what they hang on. A pair that no set has together meets its like
in one: what `delete_task` would do to a row under `update_task`, `delete_project`
does in the first set. `MCAccounts` has two users and three spellings of two
addresses, `MCPages` five tasks, pages of one to three and four changes, which
is every position of a change relative to two page borders. The views `InProgress` drop the last answer given, which no action reads; the
action properties look at answers in the step that gives them, which a view
does not hide.

**Fairness.** Only `TaskCache!FairSpec` assumes any: weak fairness of each
request's next step (the event loop resumes a coroutine whose await has ended,
and a database or Redis call ends with an answer or an error) and of each key's
expiry (every key is stored by SETEX with a time to live). New requests, failures
and crashes have none. The number of changes is bounded, so "eventually always"
means: after the last change.

Deadlock is checked in every run but `MCPages`, where a walk ends.

## 4. What is proved

All for any constants that meet the modules' `ConstantsOK`.

* **`WorkspacesProofs`**: `TypeCorrect`, `Ownership`, `OwnerKeepsRole`, `OneRole`,
  `NoOrphans`. `OwnerStaysOwner` is not inductive: a handler that passed its
  check holds a row read long ago and will write it by id. `OwnershipInv` adds
  that ids are given once (`RowIdsGivenOnce`), and that every row a request
  holds agrees with the row of the same id in workspace and user and, if it was
  read with another role than OWNER, is not the owner's (`SnapshotsHold`). The
  owner's row never has another role, so no snapshot of it passes
  `OwnerProtected`; `LiveWasBorn` and `NoOrphanRows` make a new workspace start
  without rows and a new row fall outside every snapshot.
  `LabelsUniqueUnlessRaced` and `OwnersKeptUnlessRaced` are about the two
  properties that two requests can break: each holds in every behaviour in which
  certain pairs of requests do not overlap. `LabellersApart`: no two
  requests create labels of one workspace whose names differ at most in case.
  `RoleChangesAlone`: while a role is being changed, no other request changes a
  role or removes a member. Everything else may interleave, so these pairs are
  the only causes; a lock that kept them apart would be enough. The
  invariants are that what was checked is still so at the write: the name is
  still free (`NameStillFree`), and the row in hand, or the caller's row that the
  session will show in its place, is the row in the table (`UpToDate`). With one
  request at a time, the instance of `MCSequential`, both hypotheses always hold.
* **`WorkspacesRefinementProofs`**: `Refinement`, `Spec => ImplementsMembership`.
  Each route's write is one step of `Membership`, everything else a stutter; an
  UPDATE of a member row is `Assign` because `OwnershipInv` shows that it is not
  the owner's, a DELETE is `Revoke`, an INSERT is `Admit` because the unique
  constraint shows the role was free.
* **`TaskCacheProofs`**: `TypeCorrect`, and `StaleEntriesExplained`
  (`StaleHasCause`), which is inductive with `TypeOK`: a commit adds its project's
  keys to a purge, a purge ends with the DELETE of what it found or marks what it
  spares, and a late store is marked.
* **`AuthTokensProofs`**: `TypeCorrect`, and `StoredRevocationHolds`.
  `RevocationInv` adds that a stored key lasts until its token's `exp`
  (`EntriesCover`), and that a time to live computed earlier still covers the
  token (`TtlCovers`), since the clock only moves forward between the computation
  and the SETEX. `LoginsAreFresh` (`OnlyTwinsRevoked`) needs that no request
  presents, and Redis holds, no token that was not issued (`OnlyIssued`).
  `LogoutsRevoke` (`LogoutRevokes`) is about the step that answers, but a logout
  revokes two tokens one after the other: `LogoutInv` says that one that is at
  its second token has settled the first (stored, lost, or past its end), and
  the clock and the history `lost` never take that back.
* **`TasksProofs`**: `TypeCorrect`. `TypeOK` is inductive because it says what each
  handler holds at each of its steps (`InHand`).
* **`TaskRowsProofs`**: `AttachedOnce` (the unique key alone), `RowsBelong` (foreign
  keys and cascades, with `TypeOK` and `LabelsInv`), `MailInHand`, and three that rest on
  how long what a handler has read stays true. `LabelsStayHome`: `LabelsInv` adds
  that ids are given once (`OldIds`), and that what `attach_label_to_task` has
  found out about task, label and workspace still holds when it inserts
  (`Attaching`); no route moves a task, so it does. `ColumnsNamed`: with `IdsInv`
  a step changes a column only to what the request names, since `Written` takes
  every other column from the stored row. `WritesAdmitted`
  (`WritesWhereAdmitted`): `WhereInv` says of every route what `Attaching` says
  of one, that `at` is the workspace of the row in hand, and that a comment or
  an attachment is still known by its id as one of the task it was found at
  (`ItemIds`, `Knows`). `TasksImplementBoard`, `Spec => ImplementsBoard`: every
  statement but the writes is a stutter, and so is a PATCH, which sets neither id
  nor project nor reporter (`PatchKeepsIdentity`). A write is one step of `Board`
  or none, by `BoardInv`, the conjunction of the invariants above: a DELETE by id
  takes exactly one part (`IdsInv`, `ItemIds`), an attachment inserted late is
  still of a label of the task's workspace (`Attaching`), and deleting a project
  that is gone already cascades to nothing (`NoDanglingRows`).
* **`AccountsProofs`**: `TypeCorrect`; `OneAccount`, from `EmailsInv`: every stored
  e-mail and every one a request is about to store is normalised, so the key on
  strings is a key on addresses; `ColumnsNamed`.
* **`TaskPagesProofs`**: `PagesTypeCorrect`, `PagesCounted`, `LeavingHides`,
  `EnteringRepeats`, for lists and pages of any length. The bounds are about
  finished walks; `WalkInv` states them of a walk on its way. `Ahead` are the
  tasks behind the offset of the next page, `Hidden` those of the first ones
  that are neither ahead nor seen, `Twice` those seen twice or seen and ahead again: a
  page moves tasks from ahead to seen, a task that enters pushes at most one back
  to ahead, one that leaves pulls at most one out of it. The lemmas on inserting
  into, removing from and cutting a sequence, and on division, come first.

Only model-checked: `EventuallyCoherent`, because liveness under fairness is
beyond the prover. Every other property of a passing run is a theorem, two of
them under the hypotheses named above.

## 5. What is not modelled

Field validation but for the e-mail, hashing of passwords, headers, logging, the
wording of mails, the connection pool, and reading routes that change nothing
(`get_workspace`, `get_workspace_labels`, `get_project`, `get_me`).

* `redis_client.py`: the object is made with no await between the test and the
  assignment, so there is nothing to interleave; failing calls are in the modules
  that make them.
* `middleware.py`, `exceptions.py`, `main.py`: no state beyond one request. The
  status codes they produce are in the models of the routes; the order in which
  the framework wraps them is its own code.
* `config.py`: constants.
* The migration: DDL that runs once; keys and cascades are modelled from the ORM
  models, which say the same.

PostgreSQL, Redis and
SQLAlchemy are modelled as far as the code relies on them: constraints, cascades,
identity map, READ COMMITTED, SETEX, SCAN. A serialization failure or a lost
database connection aborts a request before its commit, which leaves it where a request
that takes no further step is.

## 6. What comes next

1. An abstract cache (a list that may be late, and is repaired) of which
   `TaskCache` is an implementation, proved like `Refinement`.
2. An abstract token (issued, revoked, expired) of which `AuthTokens` is one.
