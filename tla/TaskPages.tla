------------------------------- MODULE TaskPages -------------------------------
(***************************************************************************)
(* The pages of a task list: the query part of get_project_tasks           *)
(* (src/api/v1/projects.py) and get_project_tasks_filtered                 *)
(* (src/repositories/task_repository.py), asked for page after page by a   *)
(* client while other requests change the tasks.                           *)
(*                                                                         *)
(* The list holds the tasks the filter selects, by created_at from the     *)
(* latest to the earliest; no two are taken to have the same created_at.   *)
(* The cache, which module TaskCache is about, answers nothing here.       *)
(***************************************************************************)
EXTENDS Naturals, SequencesExt

CONSTANTS Tasks,      \* the tasks of the project
          Limits,     \* the page lengths a client may choose
          MaxChanges, \* bound: the changes of the list during a walk
          Null        \* nothing is counted yet

ASSUME ConstantsOK ==
    /\ IsFiniteSet(Tasks)
    /\ Limits \subseteq Nat \ {0}
    /\ MaxChanges \in Nat
    /\ Null \notin Nat

VARIABLES list,     \* the tasks the filter selects
          limit,    \* the page length of this client
          page,     \* the page that is asked for
          total,    \* what the first statement counted, or Null
          answer,   \* the last answer
          done,     \* the client has had a page that was not full
          first,    \* history: the tasks selected at the beginning
          seen,     \* history: the tasks in the pages so far
          repeated, \* history: the tasks that were in two pages
          entered,  \* history: how many tasks were put into the list
          left      \* history: how many tasks were taken out

query == <<limit, page, total, answer, done>>
history == <<first, seen, repeated>>
vars == <<list, query, history, entered, left>>

Init ==
    /\ list \in SetToAllKPermutations(Tasks)
    /\ limit \in Limits
    /\ page = 1
    /\ total = Null
    /\ answer = [items |-> <<>>, total |-> 0, pages |-> 0]
    /\ done = FALSE
    /\ first = ToSet(list)
    /\ seen = {}
    /\ repeated = {}
    /\ entered = 0
    /\ left = 0

-------------------------------------------------------------------------------
FromZero(p, n) == p * n
OneBack(p, n) == IF p = 1 THEN 0 ELSE (p - 1) * n - 1
offset(p, n) == (p - 1) * n

RoundsDown(count, n) == count \div n
\* math.ceil(total / limit)
total_pages(count, n) == (count + n - 1) \div n

OneMore(s, skip, n) == SubSeq(s, skip + 1, Min({skip + n + 1, Len(s)}))
\* OFFSET and LIMIT.
Page(s, skip, n) == SubSeq(s, skip + 1, Min({skip + n, Len(s)}))

\* The count and the page are two statements.
CountTasks ==
    /\ ~done /\ total = Null
    /\ total' = Len(list)
    /\ UNCHANGED <<list, limit, page, answer, done, history, entered, left>>

\* The client asks for the next page until one is not full.
SelectTasks ==
    /\ total # Null
    /\ LET items == Page(list, offset(page, limit), limit) IN
          /\ answer' = [items |-> items, total |-> total,
                        pages |-> total_pages(total, limit)]
          /\ done' = (Len(items) < limit)
          /\ seen' = seen \cup ToSet(items)
          /\ repeated' = repeated \cup (seen \cap ToSet(items))
    /\ page' = page + 1
    /\ total' = Null
    /\ UNCHANGED <<list, limit, first, entered, left>>

\* A task is created, or changed so that the filter selects it.  It may appear
\* anywhere: created_at is set before the commit.
Enter ==
    /\ ~done /\ entered + left < MaxChanges
    /\ \E t \in Tasks \ ToSet(list), i \in 1 .. Len(list) + 1 :
          list' = InsertAt(list, i, t)
    /\ entered' = entered + 1
    /\ UNCHANGED <<query, history, left>>

\* A task is deleted, or changed so that the filter does not select it.
Leave ==
    /\ ~done /\ entered + left < MaxChanges
    /\ \E i \in DOMAIN list : list' = RemoveAt(list, i)
    /\ left' = left + 1
    /\ UNCHANGED <<query, history, entered>>

Next == CountTasks \/ SelectTasks \/ Enter \/ Leave

Spec == Init /\ [][Next]_vars

-------------------------------------------------------------------------------
(***************************************************************************)
(* Properties.                                                             *)
(***************************************************************************)
\* Every variable keeps its type, and no page is longer than the client asked.
TypeOK ==
    /\ list \in Seq(Tasks)
    /\ limit \in Limits
    /\ page \in Nat \ {0}
    /\ total \in Nat \cup {Null}
    /\ answer \in [items : Seq(Tasks), total : Nat, pages : Nat]
    /\ Len(answer.items) <= limit
    /\ done \in BOOLEAN
    /\ first \subseteq Tasks /\ seen \subseteq Tasks /\ repeated \subseteq seen
    /\ entered \in Nat /\ left \in Nat

\* The answered number of pages is the least that has room for the total.
PagesHoldTotal ==
    /\ answer.pages * limit >= answer.total
    /\ answer.pages > 0 => (answer.pages - 1) * limit < answer.total

\* A client that has walked through the list has seen all the tasks that were in
\* it from the beginning to the end, but for one at most for each task that left
\* meanwhile: what enters the list hides nothing.
OnlyLeavingHides ==
    done => Cardinality((first \cap ToSet(list)) \ seen) <= left

\* A task is shown twice only when another has entered, once for each at most.
OnlyEnteringRepeats == Cardinality(repeated) <= entered
===============================================================================
