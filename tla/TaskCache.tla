------------------------------- MODULE TaskCache ------------------------------
(***************************************************************************)
(* The read-through cache of task lists: get_project_tasks, which fills it *)
(* (src/api/v1/projects.py), the routes that change tasks and purge it     *)
(* (projects.py and tasks.py), and the Redis calls of                      *)
(* src/services/cache_service.py.                                          *)
(*                                                                         *)
(* What a list shows is abstracted to versions: version[p] counts the      *)
(* committed changes to the tasks of project p, people those to the user   *)
(* rows shown with them.  A Redis call is atomic.  It fails or it does     *)
(* not, and every failure is swallowed by the service.                     *)
(***************************************************************************)
EXTENDS Naturals

CONSTANTS Projects,    \* project ids
          Queries,     \* what a key names besides its project
          Requests,    \* the requests in progress at one time
          Ops,         \* the routes that receive requests
          Failures,    \* whether Redis calls may fail and the process crash
          MaxVersion,  \* bound: no writer starts after this many changes
          MaxPeople,   \* bound on the profile changes
          Null         \* no entry, no value

TaskWrites == {"create_project_task", "update_task", "delete_task"}
LabelWrites == {"attach_label_to_task", "detach_label_from_task"}
Writes == TaskWrites \cup LabelWrites \cup {"delete_project"}

ASSUME ConstantsOK ==
    /\ Ops \subseteq Writes \cup {"get_project_tasks"}
    /\ Failures \in BOOLEAN
    /\ MaxVersion \in Nat
    /\ MaxPeople \in Nat
    /\ Null \notin Nat

VARIABLES alive,    \* alive[p]: the row of project p exists
          version,  \* version[p]: committed changes to the tasks of p
          people,   \* committed changes to the user rows
          cache,    \* cache[p][q]: the Redis entry of a key, or Null
          req       \* req[r]: the coroutine serving request r

database == <<alive, version, people>>
vars == <<database, cache, req>>

\* late and spared record an entry's history and are read by no action: it was
\* out of date when it was stored; a purge that was to remove it was abandoned.
Entry == [total : Nat, items : Nat, people : Nat,
          late : BOOLEAN, spared : BOOLEAN]

\* total, items and people are what a reader has read so far; made is the
\* version a writer committed; unvisited and found are the keys its SCAN has
\* still to return and has returned.
NoRequest == [pc |-> "idle", op |-> Null, project |-> Null, query |-> Null,
              total |-> Null, items |-> Null, people |-> Null, made |-> Null,
              unvisited |-> {}, found |-> {}]

\* A request whose project was found and whose caller may use it.
Admitted(pc, op, p, q, seen) ==
    [pc |-> pc, op |-> op, project |-> p, query |-> q,
     total |-> Null, items |-> Null, people |-> seen, made |-> Null,
     unvisited |-> {}, found |-> {}]

Init ==
    /\ alive = [p \in Projects |-> TRUE]
    /\ version = [p \in Projects |-> 0]
    /\ people = 0
    /\ cache = [p \in Projects |-> [q \in Queries |-> Null]]
    /\ req = [r \in Requests |-> NoRequest]

At(r, pc) == req[r].pc = pc
Finish(r) == req' = [req EXCEPT ![r] = NoRequest]

-------------------------------------------------------------------------------
(***************************************************************************)
(* get_project_tasks.                                                      *)
(***************************************************************************)
\* check_project_access: a missing project is answered 404.  The caller's own
\* user row is in the session from now on and will not be read again.
CheckAccess(r) ==
    /\ "get_project_tasks" \in Ops
    /\ At(r, "idle")
    /\ \E p \in Projects, q \in Queries :
          IF alive[p]
          THEN req' = [req EXCEPT ![r] =
                  Admitted("get", "get_project_tasks", p, q, people)]
          ELSE req' = req
    /\ UNCHANGED <<database, cache>>

\* A hit is the answer; a miss and an error are the same to the handler.
get_cached_project_tasks(r) ==
    /\ At(r, "get")
    /\ \/ /\ cache[req[r].project][req[r].query] # Null
          /\ Finish(r)
       \/ /\ Failures \/ cache[req[r].project][req[r].query] = Null
          /\ req' = [req EXCEPT ![r].pc = "count"]
    /\ UNCHANGED <<database, cache>>

\* get_project_tasks_filtered counts in one statement and selects in another.
CountTasks(r) ==
    /\ At(r, "count")
    /\ req' = [req EXCEPT ![r].pc = "select",
                          ![r].total = version[req[r].project]]
    /\ UNCHANGED <<database, cache>>

SelectTasks(r) ==
    /\ At(r, "select")
    /\ \E shown \in {req[r].people, people} :
          req' = [req EXCEPT ![r].pc = "set",
                             ![r].items = version[req[r].project],
                             ![r].people = shown]
    /\ UNCHANGED <<database, cache>>

\* The entry SETEX writes.
Filled(r) ==
    [total |-> req[r].total, items |-> req[r].items, people |-> req[r].people,
     late |-> \/ req[r].total # version[req[r].project]
              \/ req[r].items # version[req[r].project],
     spared |-> FALSE]

set_cached_project_tasks(r) ==
    /\ At(r, "set")
    /\ \/ cache' = [cache EXCEPT ![req[r].project][req[r].query] = Filled(r)]
       \/ Failures /\ cache' = cache
    /\ Finish(r)
    /\ UNCHANGED database

-------------------------------------------------------------------------------
(***************************************************************************)
(* The routes that write.  Each checks access, commits, and then purges    *)
(* the keys of its project.                                                *)
(***************************************************************************)
CheckWriter(r) ==
    /\ At(r, "idle")
    /\ \E op \in Ops \cap Writes, p \in Projects :
          /\ version[p] < MaxVersion
          /\ IF alive[p]
             THEN req' = [req EXCEPT ![r] = Admitted("commit", op, p, Null, Null)]
             ELSE req' = req
    /\ UNCHANGED <<database, cache>>

\* What a commit may add to the version of its project.  A list does not show
\* labels; a PATCH may change nothing; a DELETE may find its row gone.
Changes(op, p) ==
    CASE op = "delete_project" -> IF alive[p] THEN {1} ELSE {0}
      [] op = "delete_task" -> IF alive[p] THEN {0, 1} ELSE {0}
      [] ~alive[p] -> {}
      [] op = "create_project_task" -> {1}
      [] op = "update_task" -> {0, 1}
      [] OTHER -> {0}

\* The routes whose handler ends with invalidate_project_tasks_cache.
NotOnDelete == Writes \ {"delete_task"}
Invalidating == Writes

\* The other outcomes of a handler (404, 409, an UPDATE or INSERT that raises
\* because rows disappeared) leave the tables and the cache alone.
Commit(r) ==
    /\ At(r, "commit")
    /\ LET p == req[r].project IN
          \/ \E n \in Changes(req[r].op, p) :
                /\ version' = [version EXCEPT ![p] = @ + n]
                /\ alive' = [alive EXCEPT ![p] =
                                @ /\ req[r].op # "delete_project"]
                /\ IF req[r].op \in Invalidating
                   THEN req' = [req EXCEPT ![r].pc = "scan",
                                           ![r].made = version[p] + n,
                                           ![r].unvisited = Queries]
                   ELSE Finish(r)
          \/ UNCHANGED <<version, alive>> /\ Finish(r)
    /\ UNCHANGED <<people, cache>>

\* SCAN returns every key that exists from its first call to its last; a key
\* that appears meanwhile is returned or not.
ScanKey(r, q) ==
    /\ At(r, "scan")
    /\ q \in req[r].unvisited
    /\ req' = [req EXCEPT
                 ![r].unvisited = @ \ {q},
                 ![r].found = IF cache[req[r].project][q] # Null
                              THEN @ \cup {q} ELSE @]
    /\ UNCHANGED <<database, cache>>

\* No DELETE is sent for no keys.
AnyKeys(found) == TRUE
HasKeys(found) == found # {}

ScanEnd(r) ==
    /\ At(r, "scan")
    /\ req[r].unvisited = {}
    /\ IF HasKeys(req[r].found) THEN req' = [req EXCEPT ![r].pc = "delete"]
                                ELSE Finish(r)
    /\ UNCHANGED <<database, cache>>

DeleteKeys(r) ==
    /\ At(r, "delete")
    /\ cache' = [cache EXCEPT ![req[r].project] =
                   [q \in Queries |-> IF q \in req[r].found THEN Null ELSE @[q]]]
    /\ Finish(r)
    /\ UNCHANGED database

-------------------------------------------------------------------------------
(***************************************************************************)
(* Failures, expiry, and the one write that purges nothing.                *)
(***************************************************************************)
\* The keys a request is still going to purge.
Purging(r, p) ==
    IF req[r].pc \in {"scan", "delete"} /\ req[r].project = p
    THEN req[r].unvisited \cup req[r].found
    ELSE {}

\* The purges of requests rs are abandoned.
Spare(rs) ==
    cache' = [p \in Projects |-> [q \in Queries |->
        IF cache[p][q] # Null /\ \E r \in rs : q \in Purging(r, p)
        THEN [cache[p][q] EXCEPT !.spared = TRUE]
        ELSE cache[p][q]]]

\* An error of SCAN or DELETE ends the purge; the handler answers as usual.
PurgeFails(r) ==
    /\ Failures
    /\ req[r].pc \in {"scan", "delete"}
    /\ Spare({r})
    /\ Finish(r)
    /\ UNCHANGED database

\* The process stops and forgets its requests.
Crash ==
    /\ Failures
    /\ \E r \in Requests : ~At(r, "idle")
    /\ Spare(Requests)
    /\ req' = [r \in Requests |-> NoRequest]
    /\ UNCHANGED database

\* set_cached_project_tasks stores every entry with a time to live, so that it
\* expires; a restart of Redis forgets entries too.
NeverExpires(p, q) == FALSE
Expire(p, q) ==
    /\ cache[p][q] # Null
    /\ cache' = [cache EXCEPT ![p][q] = Null]
    /\ UNCHANGED <<database, req>>

\* update_me changes what the lists show and leaves the cache alone.
update_me ==
    /\ people < MaxPeople
    /\ people' = people + 1
    /\ UNCHANGED <<alive, version, cache, req>>

-------------------------------------------------------------------------------
Step(r) ==
    \/ get_cached_project_tasks(r)
    \/ CountTasks(r)
    \/ SelectTasks(r)
    \/ set_cached_project_tasks(r)
    \/ Commit(r)
    \/ \E q \in Queries : ScanKey(r, q)
    \/ ScanEnd(r)
    \/ DeleteKeys(r)

Next ==
    \/ \E r \in Requests : CheckAccess(r) \/ CheckWriter(r)
                           \/ Step(r) \/ PurgeFails(r)
    \/ \E p \in Projects, q \in Queries : Expire(p, q)
    \/ Crash
    \/ update_me

Spec == Init /\ [][Next]_vars

\* The event loop resumes every coroutine whose await has ended, every await
\* ends with an answer or an error, and Redis expires what has a time to live.
Fairness ==
    /\ \A r \in Requests : WF_vars(Step(r))
    /\ \A p \in Projects, q \in Queries : WF_vars(Expire(p, q))

FairSpec == Spec /\ Fairness

-------------------------------------------------------------------------------
(***************************************************************************)
(* Properties.                                                             *)
(***************************************************************************)
Request ==
    [pc : {"idle", "get", "count", "select", "set", "commit", "scan", "delete"},
     op : Ops \cup {Null}, project : Projects \cup {Null},
     query : Queries \cup {Null}, total : Nat \cup {Null},
     items : Nat \cup {Null}, people : Nat \cup {Null}, made : Nat \cup {Null},
     unvisited : SUBSET Queries, found : SUBSET Queries]

\* What a request has at each place in its handler.
InProgressOK(q) ==
    /\ q.pc # "idle" => q.project \in Projects
    /\ q.pc \in {"get", "count", "select", "set"}
       => q.query \in Queries /\ q.people \in Nat
    /\ q.pc \in {"select", "set"} => q.total \in Nat
    /\ q.pc = "set" => q.items \in Nat
    /\ q.pc = "commit" => q.op \in Writes
    /\ q.pc = "delete" => q.unvisited = {} /\ q.found # {}

\* Every variable has its type, every request has read what its next step uses,
\* and a DELETE always names a key.
TypeOK ==
    /\ alive \in [Projects -> BOOLEAN]
    /\ version \in [Projects -> Nat]
    /\ people \in Nat
    /\ cache \in [Projects -> [Queries -> Entry \cup {Null}]]
    /\ req \in [Requests -> Request]
    /\ \A r \in Requests : InProgressOK(req[r])

Stale(p, q) ==
    /\ cache[p][q] # Null
    /\ \/ cache[p][q].total # version[p]
       \/ cache[p][q].items # version[p]

\* A stale entry has one of three causes: a request has committed and is still
\* to purge that very key; the entry was stored by a reader that had queried
\* the tables before a change; or a purge of it was abandoned.  A commit whose
\* handler forgets the purge, or a purge that starts before its commit, would
\* leave entries stale without any of them.
StaleHasCause ==
    \A p \in Projects, q \in Queries :
        Stale(p, q) => \/ cache[p][q].late
                       \/ cache[p][q].spared
                       \/ \E r \in Requests : q \in Purging(r, p)

Coherent ==
    \A p \in Projects, q \in Queries :
        cache[p][q] # Null => ~Stale(p, q) /\ cache[p][q].people = people

\* Whatever purges were overtaken by readers, failed or were lost in a crash, and
\* although update_me purges nothing, the lists are right again for good some
\* time after the last change: the time to live repairs them.
EventuallyCoherent == <>[]Coherent

\* A purge that ends without an error leaves no entry of its project that is
\* older than the change it follows: invalidate_project_tasks_cache is to
\* "locate and purge matching task keys".
PurgeLeavesNothingOlder ==
    [][\A r \in Requests :
          req[r].pc \in {"scan", "delete"} /\ req'[r].pc = "idle" =>
             \A q \in Queries :
                LET e == cache'[req[r].project][q] IN
                e # Null => e.total >= req[r].made /\ e.items >= req[r].made]_vars
===============================================================================
