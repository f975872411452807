---------------------------- MODULE TaskCacheProofs ---------------------------
(***************************************************************************)
(* Proofs about TaskCache, for every number of projects, keys and requests *)
(* in progress, with and without failures.                                 *)
(***************************************************************************)
EXTENDS TaskCache, TLAPS

StoresOK ==
    /\ alive \in [Projects -> BOOLEAN]
    /\ version \in [Projects -> Nat]
    /\ people \in Nat
    /\ cache \in [Projects -> [Queries -> Entry \cup {Null}]]

\* A step replaces the record of one request by a well-formed one.
LEMMA OneRecord ==
    ASSUME TypeOK, StoresOK', NEW r \in Requests, NEW q \in Request,
           InProgressOK(q), req' = [req EXCEPT ![r] = q]
    PROVE  TypeOK'
<1>1. \A x \in Requests : req'[x] = IF x = r THEN q ELSE req[x]
  BY DEF TypeOK
<1>2. req' \in [Requests -> Request]
  BY DEF TypeOK
<1>3. \A x \in Requests : InProgressOK(req'[x])
  BY <1>1 DEF TypeOK
<1> QED  BY <1>2, <1>3 DEF TypeOK, StoresOK

LEMMA FinishOK ==
    ASSUME TypeOK, StoresOK', NEW r \in Requests, Finish(r)
    PROVE  TypeOK'
<1>1. NoRequest \in Request /\ InProgressOK(NoRequest)
  BY DEF NoRequest, Request, InProgressOK
<1> QED  BY <1>1, OneRecord DEF Finish

LEMMA SameStores == ASSUME TypeOK, UNCHANGED <<database, cache>> PROVE StoresOK'
BY DEF TypeOK, StoresOK, database

LEMMA AdmissionTyped ==
    ASSUME TypeOK, NEW r \in Requests, CheckAccess(r) \/ CheckWriter(r)
    PROVE  TypeOK'
<1>1. StoresOK'
  BY SameStores DEF CheckAccess, CheckWriter
<1>2. CASE req' = req
  BY <1>1, <1>2 DEF TypeOK, StoresOK
<1>3. ASSUME "get_project_tasks" \in Ops, NEW p \in Projects, NEW q \in Queries,
             req' = [req EXCEPT ![r] =
                       Admitted("get", "get_project_tasks", p, q, people)]
      PROVE  TypeOK'
  <2>1. Admitted("get", "get_project_tasks", p, q, people) \in Request
    BY <1>3 DEF Admitted, Request, TypeOK
  <2>2. InProgressOK(Admitted("get", "get_project_tasks", p, q, people))
    BY DEF Admitted, InProgressOK, TypeOK
  <2> QED  BY <1>1, <1>3, <2>1, <2>2, OneRecord
<1>4. ASSUME NEW op \in Ops \cap Writes, NEW p \in Projects,
             req' = [req EXCEPT ![r] = Admitted("commit", op, p, Null, Null)]
      PROVE  TypeOK'
  <2>1. Admitted("commit", op, p, Null, Null) \in Request
    BY DEF Admitted, Request
  <2>2. InProgressOK(Admitted("commit", op, p, Null, Null))
    BY DEF Admitted, InProgressOK
  <2> QED  BY <1>1, <1>4, <2>1, <2>2, OneRecord
<1> QED  BY <1>2, <1>3, <1>4 DEF CheckAccess, CheckWriter

LEMMA ReaderTyped ==
    ASSUME TypeOK, NEW r \in Requests,
           \/ get_cached_project_tasks(r)
           \/ CountTasks(r)
           \/ SelectTasks(r)
           \/ set_cached_project_tasks(r)
    PROVE  TypeOK'
<1>1. req[r] \in Request /\ InProgressOK(req[r])
  BY DEF TypeOK
<1>2. CASE get_cached_project_tasks(r)
  <2>1. StoresOK'
    BY <1>2, SameStores DEF get_cached_project_tasks
  <2>2. CASE req' = [req EXCEPT ![r].pc = "count"]
    <3> DEFINE q == [req[r] EXCEPT !.pc = "count"]
    <3>1. req' = [req EXCEPT ![r] = q]
      BY <2>2 DEF TypeOK
    <3>2. q \in Request
      BY <1>1 DEF Request
    <3>3. InProgressOK(q)
      BY <1>1, <1>2 DEF InProgressOK, Request, get_cached_project_tasks, At
    <3> QED  BY <2>1, <3>1, <3>2, <3>3, OneRecord
  <2> QED  BY <1>2, <2>1, <2>2, FinishOK DEF get_cached_project_tasks
<1>3. CASE CountTasks(r)
  <2> DEFINE q == [req[r] EXCEPT !.pc = "select",
                                 !.total = version[req[r].project]]
  <2>1. StoresOK'
    BY <1>3, SameStores DEF CountTasks
  <2>2. req' = [req EXCEPT ![r] = q]
    BY <1>3 DEF TypeOK, CountTasks
  <2>3. version[req[r].project] \in Nat
    BY <1>1, <1>3 DEF TypeOK, InProgressOK, CountTasks, At
  <2>4. q \in Request
    BY <1>1, <2>3 DEF Request
  <2>5. InProgressOK(q)
    BY <1>1, <1>3, <2>3 DEF InProgressOK, Request, CountTasks, At
  <2> QED  BY <2>1, <2>2, <2>4, <2>5, OneRecord
<1>4. CASE SelectTasks(r)
  <2>1. StoresOK'
    BY <1>4, SameStores DEF SelectTasks
  <2>2. PICK shown \in {req[r].people, people} :
           req' = [req EXCEPT ![r].pc = "set",
                              ![r].items = version[req[r].project],
                              ![r].people = shown]
    BY <1>4 DEF SelectTasks
  <2> DEFINE q == [req[r] EXCEPT !.pc = "set",
                     !.items = version[req[r].project], !.people = shown]
  <2>3. req' = [req EXCEPT ![r] = q]
    BY <2>2 DEF TypeOK
  <2>4. version[req[r].project] \in Nat /\ shown \in Nat
    BY <1>1, <1>4 DEF TypeOK, InProgressOK, SelectTasks, At
  <2>5. q \in Request
    BY <1>1, <2>4 DEF Request
  <2>6. InProgressOK(q)
    BY <1>1, <1>4, <2>4 DEF InProgressOK, Request, SelectTasks, At
  <2> QED  BY <2>1, <2>3, <2>5, <2>6, OneRecord
<1>5. CASE set_cached_project_tasks(r)
  <2>1. Filled(r) \in Entry
    BY <1>1, <1>5 DEF Filled, Entry, InProgressOK, set_cached_project_tasks, At
  <2>2. StoresOK'
    BY <1>5, <2>1 DEF TypeOK, StoresOK, set_cached_project_tasks, database
  <2> QED  BY <1>5, <2>2, FinishOK DEF set_cached_project_tasks
<1> QED  BY <1>2, <1>3, <1>4, <1>5
\* What Commit does when it takes effect.
Committed(r, n) ==
    /\ n \in Changes(req[r].op, req[r].project)
    /\ version' = [version EXCEPT ![req[r].project] = @ + n]
    /\ req' = [req EXCEPT ![r].pc = "scan",
                          ![r].made = version[req[r].project] + n,
                          ![r].unvisited = Queries]

LEMMA ChangesTyped == ASSUME NEW op, NEW p PROVE Changes(op, p) \subseteq {0, 1}
BY DEF Changes

LEMMA CommitCases ==
    ASSUME TypeOK, NEW r \in Requests, Commit(r)
    PROVE  \/ \E n \in {0, 1} : Committed(r, n)
           \/ UNCHANGED version /\ Finish(r)
<1>1. req[r].op \in Invalidating
  BY DEF Commit, At, TypeOK, InProgressOK, Invalidating
<1>2. \/ \E n \in Changes(req[r].op, req[r].project) : Committed(r, n)
      \/ UNCHANGED version /\ Finish(r)
  BY <1>1 DEF Commit, Committed
<1>3. Changes(req[r].op, req[r].project) \subseteq {0, 1}
  BY ChangesTyped
<1> QED  BY <1>2, <1>3

LEMMA WriterTyped ==
    ASSUME TypeOK, NEW r \in Requests, Commit(r)
    PROVE  TypeOK'
<1>1. req[r] \in Request /\ InProgressOK(req[r])
  BY DEF TypeOK
<1>2. req[r].project \in Projects /\ version[req[r].project] \in Nat
  BY <1>1 DEF Commit, At, InProgressOK, TypeOK
<1>3. alive' \in [Projects -> BOOLEAN]
  BY <1>2 DEF Commit, TypeOK
<1>4. people' = people /\ cache' = cache
  BY DEF Commit
<1>5. ASSUME NEW n \in {0, 1}, Committed(r, n)
      PROVE  TypeOK'
  <2> DEFINE v == version[req[r].project] + n
             q == [req[r] EXCEPT !.pc = "scan", !.made = v, !.unvisited = Queries]
  <2>1. v \in Nat
    BY <1>2
  <2>2. req' = [req EXCEPT ![r] = q]
    BY <1>5 DEF TypeOK, Committed
  <2>3. q \in Request
    BY <1>1, <2>1 DEF Request
  <2>4. InProgressOK(q)
    BY <1>1, <1>2 DEF InProgressOK, Request
  <2>5. version' \in [Projects -> Nat]
    BY <1>2, <1>5 DEF TypeOK, Committed
  <2> QED  BY <1>3, <1>4, <2>2, <2>3, <2>4, <2>5, OneRecord DEF StoresOK, TypeOK
<1>6. CASE UNCHANGED version /\ Finish(r)
  BY <1>3, <1>4, <1>6, FinishOK DEF StoresOK, TypeOK
<1> QED  BY <1>5, <1>6, CommitCases

LEMMA PurgeTyped ==
    ASSUME TypeOK, NEW r \in Requests,
           \/ \E q \in Queries : ScanKey(r, q)
           \/ ScanEnd(r)
           \/ DeleteKeys(r)
    PROVE  TypeOK'
<1>1. req[r] \in Request /\ InProgressOK(req[r])
  BY DEF TypeOK
<1>2. ASSUME NEW k \in Queries, ScanKey(r, k)
      PROVE  TypeOK'
  <2>1. StoresOK'
    BY <1>2, SameStores DEF ScanKey
  <2> DEFINE u == req[r].unvisited \ {k}
             f == IF cache[req[r].project][k] # Null
                  THEN req[r].found \cup {k} ELSE req[r].found
             q == [req[r] EXCEPT !.unvisited = u, !.found = f]
  <2>2. req' = [req EXCEPT ![r] = q]
    BY <1>2 DEF TypeOK, ScanKey
  <2>3. u \in SUBSET Queries /\ f \in SUBSET Queries
    BY <1>1 DEF Request
  <2> HIDE DEF u, f
  <2>4. q \in Request
    BY <1>1, <2>3 DEF Request
  <2>5. InProgressOK(q)
    BY <1>1, <1>2, <2>3 DEF InProgressOK, Request, ScanKey, At
  <2> QED  BY <2>1, <2>2, <2>4, <2>5, OneRecord
<1>3. CASE ScanEnd(r)
  <2>1. StoresOK'
    BY <1>3, SameStores DEF ScanEnd
  <2>2. CASE HasKeys(req[r].found)
    <3> DEFINE q == [req[r] EXCEPT !.pc = "delete"]
    <3>1. req' = [req EXCEPT ![r] = q]
      BY <1>3, <2>2 DEF TypeOK, ScanEnd
    <3>2. q \in Request
      BY <1>1 DEF Request
    <3>3. InProgressOK(q)
      BY <1>1, <1>3, <2>2 DEF InProgressOK, Request, ScanEnd, At, HasKeys
    <3> QED  BY <2>1, <3>1, <3>2, <3>3, OneRecord
  <2> QED  BY <1>3, <2>1, <2>2, FinishOK DEF ScanEnd
<1>4. CASE DeleteKeys(r)
  <2>1. req[r].project \in Projects
    BY <1>1, <1>4 DEF DeleteKeys, At, InProgressOK
  <2>2. cache' \in [Projects -> [Queries -> Entry \cup {Null}]]
    BY <1>4, <2>1 DEF DeleteKeys, TypeOK
  <2>3. StoresOK'
    BY <1>4, <2>2 DEF StoresOK, TypeOK, DeleteKeys, database
  <2> QED  BY <1>4, <2>3, FinishOK DEF DeleteKeys
<1> QED  BY <1>2, <1>3, <1>4

LEMMA SpareTyped ==
    ASSUME TypeOK, NEW rs \in SUBSET Requests, Spare(rs), UNCHANGED database
    PROVE  StoresOK'
<1>1. \A e \in Entry : [e EXCEPT !.spared = TRUE] \in Entry
  BY DEF Entry
<1>2. \A p \in Projects, q \in Queries :
         cache[p][q] # Null => cache[p][q] \in Entry
  BY DEF TypeOK
<1>3. cache' \in [Projects -> [Queries -> Entry \cup {Null}]]
  BY <1>1, <1>2 DEF Spare, TypeOK
<1> QED  BY <1>3 DEF StoresOK, TypeOK, database

LEMMA EnvironmentTyped ==
    ASSUME TypeOK,
           \/ \E r \in Requests : PurgeFails(r)
           \/ Crash
           \/ \E p \in Projects, q \in Queries : Expire(p, q)
           \/ update_me
    PROVE  TypeOK'
<1>1. ASSUME NEW r \in Requests, PurgeFails(r)
      PROVE  TypeOK'
  <2>1. StoresOK'
    BY <1>1, SpareTyped DEF PurgeFails
  <2> QED  BY <1>1, <2>1, FinishOK DEF PurgeFails
<1>2. CASE Crash
  <2>1. StoresOK'
    BY <1>2, SpareTyped DEF Crash
  <2>2. NoRequest \in Request /\ InProgressOK(NoRequest)
    BY DEF NoRequest, Request, InProgressOK
  <2> QED  BY <1>2, <2>1, <2>2 DEF Crash, TypeOK, StoresOK
<1>3. ASSUME NEW p \in Projects, NEW q \in Queries, Expire(p, q)
      PROVE  TypeOK'
  BY <1>3 DEF Expire, TypeOK, database
<1>4. CASE update_me
  BY <1>4 DEF update_me, TypeOK
<1> QED  BY <1>1, <1>2, <1>3, <1>4

LEMMA NextTyped == ASSUME TypeOK, [Next]_vars PROVE TypeOK'
<1>1. CASE UNCHANGED vars
  BY <1>1 DEF vars, database, TypeOK
<1>2. ASSUME NEW r \in Requests, CheckAccess(r) \/ CheckWriter(r) \/ Step(r)
      PROVE  TypeOK'
  BY <1>2, AdmissionTyped, ReaderTyped, WriterTyped, PurgeTyped DEF Step
<1> QED  BY <1>1, <1>2, EnvironmentTyped DEF Next

\* Every variable keeps its type, every step finds what it needs in its request,
\* and no DELETE is sent without a key.
THEOREM TypeCorrect == Spec => []TypeOK
<1>1. Init => TypeOK
  <2>1. NoRequest \in Request /\ InProgressOK(NoRequest)
    BY DEF NoRequest, Request, InProgressOK
  <2> QED  BY <2>1 DEF Init, TypeOK
<1> QED  BY <1>1, NextTyped, PTL DEF Spec
-------------------------------------------------------------------------------
(***************************************************************************)
(* StaleHasCause is inductive: a commit makes entries stale and puts all   *)
(* their keys on its request's list, and a key leaves the list only when   *)
(* there is no entry or the entry is marked.                               *)
(***************************************************************************)
\* A step of r that changes neither versions nor entries, and leaves on r's list
\* every key of a stale entry.
LEMMA ListKept ==
    ASSUME TypeOK, StaleHasCause, NEW r \in Requests, NEW q,
           req' = [req EXCEPT ![r] = q], UNCHANGED <<version, cache>>,
           \A p \in Projects, k \in Queries :
              Stale(p, k) /\ k \in Purging(r, p) => k \in Purging(r, p)'
    PROVE  StaleHasCause'
<1> SUFFICES ASSUME NEW p \in Projects, NEW k \in Queries, Stale(p, k)',
                    ~cache'[p][k].late, ~cache'[p][k].spared
             PROVE  \E x \in Requests : k \in Purging(x, p)'
  BY DEF StaleHasCause
<1>1. Stale(p, k) /\ ~cache[p][k].late /\ ~cache[p][k].spared
  BY DEF Stale
<1>2. PICK x \in Requests : k \in Purging(x, p)
  BY <1>1 DEF StaleHasCause
<1>3. CASE x = r
  BY <1>1, <1>2, <1>3
<1>4. CASE x # r
  <2>1. req'[x] = req[x]
    BY <1>4 DEF TypeOK
  <2>2. k \in Purging(x, p)'
    BY <1>2, <2>1 DEF Purging
  <2> QED  BY <2>2
<1> QED  BY <1>3, <1>4

\* A step of a request that purges nothing, before it and possibly after it, and
\* whose entries, if it stores any, are marked when they are stale.
LEMMA OthersPurge ==
    ASSUME TypeOK, StaleHasCause, NEW r \in Requests, NEW q,
           req' = [req EXCEPT ![r] = q], UNCHANGED version,
           req[r].pc \notin {"scan", "delete"},
           \A p \in Projects, k \in Queries :
              \/ cache'[p][k] = cache[p][k]
              \/ Stale(p, k)' => cache'[p][k].late
    PROVE  StaleHasCause'
<1> SUFFICES ASSUME NEW p \in Projects, NEW k \in Queries, Stale(p, k)',
                    ~cache'[p][k].late, ~cache'[p][k].spared
             PROVE  \E x \in Requests : k \in Purging(x, p)'
  BY DEF StaleHasCause
<1>1. cache'[p][k] = cache[p][k]
  OBVIOUS
<1>2. Stale(p, k) /\ ~cache[p][k].late /\ ~cache[p][k].spared
  BY <1>1 DEF Stale
<1>3. PICK x \in Requests : k \in Purging(x, p)
  BY <1>2 DEF StaleHasCause
<1>4. x # r
  BY <1>3 DEF Purging
<1>5. req'[x] = req[x]
  BY <1>4 DEF TypeOK
<1>6. k \in Purging(x, p)'
  BY <1>3, <1>5 DEF Purging
<1> QED  BY <1>6

LEMMA ReaderCauses ==
    ASSUME TypeOK, StaleHasCause, NEW r \in Requests,
           \/ CheckAccess(r) \/ CheckWriter(r) \/ get_cached_project_tasks(r)
           \/ CountTasks(r) \/ SelectTasks(r)
    PROVE  StaleHasCause'
<1>1. UNCHANGED <<version, cache>> /\ req[r].pc \notin {"scan", "delete"}
  BY DEF CheckAccess, CheckWriter, get_cached_project_tasks, CountTasks,
         SelectTasks, At, database
<1>2. req' = [req EXCEPT ![r] = req'[r]]
  BY DEF CheckAccess, CheckWriter, get_cached_project_tasks, CountTasks,
         SelectTasks, Finish, TypeOK
<1>3. PICK q : q = req'[r]
  OBVIOUS
<1> QED  BY <1>1, <1>2, <1>3, OthersPurge

LEMMA StoreCauses ==
    ASSUME TypeOK, StaleHasCause, NEW r \in Requests, set_cached_project_tasks(r)
    PROVE  StaleHasCause'
<1>1. UNCHANGED version /\ req[r].pc \notin {"scan", "delete"}
  BY DEF set_cached_project_tasks, At, database
<1>2. req' = [req EXCEPT ![r] = NoRequest]
  BY DEF set_cached_project_tasks, Finish
<1>3. ASSUME NEW p \in Projects, NEW k \in Queries
      PROVE  \/ cache'[p][k] = cache[p][k]
             \/ Stale(p, k)' => cache'[p][k].late
  <2>1. CASE cache' = cache
    BY <2>1
  <2>2. CASE cache' = [cache EXCEPT ![req[r].project][req[r].query] = Filled(r)]
    <3>1. CASE p = req[r].project /\ k = req[r].query
      <4>1. cache'[p][k] = Filled(r)
        BY <2>2, <3>1 DEF TypeOK
      <4>2. Filled(r).late = (\/ req[r].total # version[p]
                              \/ req[r].items # version[p])
        BY <3>1 DEF Filled
      <4>3. Filled(r).total = req[r].total /\ Filled(r).items = req[r].items
        BY DEF Filled
      <4> QED  BY <1>1, <4>1, <4>2, <4>3 DEF Stale
    <3>2. CASE ~(p = req[r].project /\ k = req[r].query)
      BY <2>2, <3>2 DEF TypeOK
    <3> QED  BY <3>1, <3>2
  <2> QED  BY <2>1, <2>2 DEF set_cached_project_tasks
<1> QED  BY <1>1, <1>2, <1>3, OthersPurge

LEMMA CommitCauses ==
    ASSUME TypeOK, TypeOK', StaleHasCause, NEW r \in Requests, Commit(r)
    PROVE  StaleHasCause'
<1>1. cache' = cache /\ req[r].pc \notin {"scan", "delete"}
  BY DEF Commit, At
<1>2. CASE UNCHANGED version /\ Finish(r)
  BY <1>1, <1>2, OthersPurge DEF Finish
<1>3. ASSUME NEW n \in {0, 1}, Committed(r, n)
      PROVE  StaleHasCause'
  <2> SUFFICES ASSUME NEW p \in Projects, NEW k \in Queries, Stale(p, k)',
                      ~cache'[p][k].late, ~cache'[p][k].spared
               PROVE  \E x \in Requests : k \in Purging(x, p)'
    BY DEF StaleHasCause
  <2>1. /\ req'[r].pc = "scan" /\ req'[r].unvisited = Queries
        /\ req'[r].project = req[r].project
    BY <1>3 DEF Committed, TypeOK, Request
  <2>2. CASE p = req[r].project
    <3>1. k \in Purging(r, p)'
      BY <2>1, <2>2 DEF Purging
    <3> QED  BY <3>1
  <2>3. CASE p # req[r].project
    <3>1. version'[p] = version[p]
      BY <1>3, <2>3 DEF Committed, TypeOK
    <3>2. Stale(p, k) /\ ~cache[p][k].late /\ ~cache[p][k].spared
      BY <1>1, <3>1 DEF Stale
    <3>3. PICK x \in Requests : k \in Purging(x, p)
      BY <3>2 DEF StaleHasCause
    <3>4. req'[x] = req[x]
      BY <1>1, <1>3, <3>3 DEF Purging, Committed, TypeOK
    <3>5. k \in Purging(x, p)'
      BY <3>3, <3>4 DEF Purging
    <3> QED  BY <3>5
  <2> QED  BY <2>2, <2>3
<1> QED  BY <1>2, <1>3, CommitCases

LEMMA ScanCauses ==
    ASSUME TypeOK, TypeOK', StaleHasCause, NEW r \in Requests,
           (\E q \in Queries : ScanKey(r, q)) \/ ScanEnd(r)
    PROVE  StaleHasCause'
<1>1. UNCHANGED <<version, cache>> /\ req[r].pc = "scan"
  BY DEF ScanKey, ScanEnd, At, database
<1>2. req[r] \in Request
  BY DEF TypeOK
<1>3. ASSUME NEW q \in Queries, ScanKey(r, q),
             NEW p \in Projects, NEW k \in Queries,
             Stale(p, k), k \in Purging(r, p)
      PROVE  k \in Purging(r, p)'
  <2>1. /\ req'[r].pc = "scan" /\ req'[r].project = req[r].project
        /\ req'[r].unvisited = req[r].unvisited \ {q}
        /\ req'[r].found = IF cache[req[r].project][q] # Null
                           THEN req[r].found \cup {q} ELSE req[r].found
    BY <1>1, <1>2, <1>3 DEF ScanKey, TypeOK, Request
  <2>2. p = req[r].project /\ cache[p][k] # Null
    BY <1>3 DEF Purging, Stale
  <2> QED  BY <1>1, <1>3, <2>1, <2>2 DEF Purging
<1>4. ASSUME ScanEnd(r), NEW p \in Projects, NEW k \in Queries,
             Stale(p, k), k \in Purging(r, p)
      PROVE  k \in Purging(r, p)'
  <2>1. k \in req[r].found /\ p = req[r].project
    BY <1>4 DEF Purging, ScanEnd
  <2>2. /\ req'[r].pc = "delete" /\ req'[r].project = req[r].project
        /\ req'[r].found = req[r].found
    BY <1>2, <1>4, <2>1 DEF ScanEnd, HasKeys, TypeOK, Request
  <2> QED  BY <2>1, <2>2 DEF Purging
<1>5. req' = [req EXCEPT ![r] = req'[r]]
  BY DEF ScanKey, ScanEnd, Finish, TypeOK
<1>6. PICK v : v = req'[r]
  OBVIOUS
<1> QED  BY <1>1, <1>3, <1>4, <1>5, <1>6, ListKept

LEMMA DeleteCauses ==
    ASSUME TypeOK, StaleHasCause, NEW r \in Requests, DeleteKeys(r)
    PROVE  StaleHasCause'
<1> SUFFICES ASSUME NEW p \in Projects, NEW k \in Queries, Stale(p, k)',
                    ~cache'[p][k].late, ~cache'[p][k].spared
             PROVE  \E x \in Requests : k \in Purging(x, p)'
  BY DEF StaleHasCause
<1>1. /\ req[r].pc = "delete" /\ req[r].unvisited = {}
      /\ req[r].project \in Projects
  BY DEF DeleteKeys, At, TypeOK, InProgressOK
<1>2. /\ cache'[p][k] = cache[p][k] /\ version'[p] = version[p]
      /\ ~(p = req[r].project /\ k \in req[r].found)
  BY <1>1 DEF DeleteKeys, TypeOK, database, Stale
<1>3. PICK x \in Requests : k \in Purging(x, p)
  BY <1>2 DEF StaleHasCause, Stale
<1>4. x # r
  BY <1>1, <1>2, <1>3 DEF Purging
<1>5. req'[x] = req[x]
  BY <1>4 DEF DeleteKeys, Finish, TypeOK
<1>6. k \in Purging(x, p)'
  BY <1>3, <1>5 DEF Purging
<1> QED  BY <1>6

LEMMA EnvironmentCauses ==
    ASSUME TypeOK, StaleHasCause,
           \/ \E r \in Requests : PurgeFails(r)
           \/ Crash
           \/ \E p \in Projects, q \in Queries : Expire(p, q)
           \/ update_me
    PROVE  StaleHasCause'
<1> SUFFICES ASSUME NEW p \in Projects, NEW k \in Queries, Stale(p, k)',
                    ~cache'[p][k].late, ~cache'[p][k].spared
             PROVE  \E x \in Requests : k \in Purging(x, p)'
  BY DEF StaleHasCause
<1>1. version' = version
  BY DEF PurgeFails, Crash, Expire, update_me, database
<1>2. ASSUME NEW rs \in SUBSET Requests, Spare(rs)
      PROVE  /\ cache'[p][k] = cache[p][k]
             /\ \A x \in rs : k \notin Purging(x, p)
  <2>1. cache'[p][k] = IF cache[p][k] # Null /\ \E x \in rs : k \in Purging(x, p)
                       THEN [cache[p][k] EXCEPT !.spared = TRUE]
                       ELSE cache[p][k]
    BY <1>2 DEF Spare
  <2>2. cache[p][k] # Null => cache[p][k] \in Entry
    BY DEF TypeOK
  <2>3. cache[p][k] # Null => [cache[p][k] EXCEPT !.spared = TRUE].spared
    BY <2>2 DEF Entry
  <2>4. cache'[p][k] # Null
    BY DEF Stale
  <2> QED  BY <2>1, <2>3, <2>4
<1>3. ASSUME cache'[p][k] = cache[p][k]
      PROVE  \E x \in Requests : k \in Purging(x, p)
  BY <1>1, <1>3 DEF StaleHasCause, Stale
<1>4. ASSUME NEW x \in Requests, k \in Purging(x, p), req'[x] = req[x]
      PROVE  k \in Purging(x, p)'
  BY <1>4 DEF Purging
<1>5. ASSUME NEW r \in Requests, PurgeFails(r)
      PROVE  \E x \in Requests : k \in Purging(x, p)'
  <2>1. cache'[p][k] = cache[p][k] /\ k \notin Purging(r, p)
    BY <1>2, <1>5 DEF PurgeFails
  <2>2. PICK x \in Requests : k \in Purging(x, p)
    BY <1>3, <2>1
  <2>3. req'[x] = req[x]
    BY <1>5, <2>1, <2>2 DEF PurgeFails, Finish, TypeOK
  <2> QED  BY <1>4, <2>2, <2>3
<1>6. CASE Crash
  BY <1>2, <1>3, <1>6 DEF Crash
<1>7. ASSUME NEW x \in Projects, NEW y \in Queries, Expire(x, y)
      PROVE  \E z \in Requests : k \in Purging(z, p)'
  <2>1. cache'[p][k] = cache[p][k] /\ req' = req
    BY <1>7 DEF Expire, Stale, TypeOK
  <2> QED  BY <1>3, <1>4, <2>1
<1>8. CASE update_me
  BY <1>3, <1>4, <1>8 DEF update_me
<1> QED  BY <1>5, <1>6, <1>7, <1>8

\* A stale entry is always one that a committed request is about to purge, that
\* a slow reader stored, or whose purge was abandoned.
THEOREM StaleEntriesExplained == Spec => []StaleHasCause
<1>1. Init => StaleHasCause
  BY DEF Init, StaleHasCause, Stale
<1>2. TypeOK /\ TypeOK' /\ StaleHasCause /\ [Next]_vars => StaleHasCause'
  <2> SUFFICES ASSUME TypeOK, TypeOK', StaleHasCause, [Next]_vars
               PROVE  StaleHasCause'
    OBVIOUS
  <2>1. CASE UNCHANGED vars
    BY <2>1 DEF vars, database, StaleHasCause, Stale, Purging
  <2>2. ASSUME NEW r \in Requests, CheckAccess(r) \/ CheckWriter(r) \/ Step(r)
        PROVE  StaleHasCause'
    BY <2>2, ReaderCauses, StoreCauses, CommitCauses, ScanCauses, DeleteCauses
       DEF Step
  <2> QED  BY <2>1, <2>2, EnvironmentCauses DEF Next
<1> QED  BY <1>1, <1>2, TypeCorrect, PTL DEF Spec
===============================================================================
