------------------------------- MODULE TaskSet -------------------------------
(***************************************************************************)
(* zc::TaskSet (async.cc): a set of background promises whose failures go  *)
(* to an error handler, and onEmpty().  The callbacks the code calls out   *)
(* to are what makes it delicate: taskFailed() may add tasks, clear the    *)
(* set or destroy it, and the destructor of a promise may add tasks while  *)
(* the set is being emptied.                                               *)
(***************************************************************************)
EXTENDS Naturals, Sequences

CONSTANTS MaxTasks   \* bound on the tasks ever added

ASSUME TaskAssumption == MaxTasks \in Nat

VARIABLES
  tasks,     \* the linked list `tasks`, the most recent first
  result,    \* what each task's promise resolved to: "pending", "ok", "fail"
  reported,  \* how often taskFailed() was called for each task
  fulfiller, \* emptyFulfiller is set
  waiter,    \* the promise onEmpty() returned last: "none", "pending",
             \* "ready", "broken" (its fulfiller was destroyed), "dropped"
  added,     \* tasks added so far
  phase      \* what is on the stack: "idle"; "handler", inside taskFailed();
             \* "clearing" and "destroying", inside destroyTasks(); "gone"

taskVars == <<tasks, result, reported, fulfiller, waiter, added, phase>>

TaskInit ==
  /\ tasks = << >> /\ result = [t \in 1 .. MaxTasks |-> "pending"]
  /\ reported = [t \in 1 .. MaxTasks |-> 0]
  /\ fulfiller = FALSE /\ waiter = "none" /\ added = 0 /\ phase = "idle"

\* A list after a callback added k tasks in front, none or one.
Pushed(list, k) == IF k = 0 THEN list ELSE <<added + 1>> \o list
\* Task::pop(): a list without its i-th task.
Popped(list, i) == [j \in 1 .. Len(list) - 1 |-> list[IF j < i THEN j ELSE j + 1]]
\* How many tasks a callback can still add.
Spare == 0 .. (IF added < MaxTasks THEN 1 ELSE 0)

\* The promise resolves: the task's event is armed.
TaskSettles(t, how) ==
  /\ t \in 1 .. added /\ result[t] = "pending"
  /\ result' = [result EXCEPT ![t] = how]
  /\ UNCHANGED <<tasks, reported, fulfiller, waiter, added, phase>>

\* add(), from outside or from inside taskFailed()
TaskAdd ==
  /\ phase \in {"idle", "handler"} /\ added < MaxTasks
  /\ tasks' = Pushed(tasks, 1) /\ added' = added + 1
  /\ UNCHANGED <<result, reported, fulfiller, waiter, phase>>

\* Mutant of TaskFire: a failure is reported instead of looking at the list.
TaskFireReportingOnly(t) ==
  /\ phase = "idle" /\ result[t] # "pending"
  /\ \E i \in 1 .. Len(tasks), k \in Spare :
       LET left  == Popped(Pushed(tasks, k), i + k)
           empty == fulfiller /\ left = << >> /\ result[t] = "ok"
       IN  /\ tasks[i] = t
           /\ tasks' = left
           /\ added' = added + k
           /\ fulfiller' = (fulfiller /\ ~empty)
           /\ waiter' = IF empty /\ waiter = "pending" THEN "ready" ELSE waiter
  /\ IF result[t] = "fail"
     THEN phase' = "handler" /\ reported' = [reported EXCEPT ![t] = @ + 1]
     ELSE UNCHANGED <<phase, reported>>
  /\ UNCHANGED result

\* Task::fire(): the node's destructor may add a task; the list is updated and
\* onEmpty() is answered before the handler runs.
TaskFire(t) ==
  /\ phase = "idle" /\ result[t] # "pending"
  /\ \E i \in 1 .. Len(tasks), k \in Spare :
       LET left  == Popped(Pushed(tasks, k), i + k)
           empty == fulfiller /\ left = << >>
       IN  /\ tasks[i] = t
           /\ tasks' = left
           /\ added' = added + k
           /\ fulfiller' = (fulfiller /\ ~empty)
           /\ waiter' = IF empty /\ waiter = "pending" THEN "ready" ELSE waiter
  /\ IF result[t] = "fail"
     THEN phase' = "handler" /\ reported' = [reported EXCEPT ![t] = @ + 1]
     ELSE UNCHANGED <<phase, reported>>
  /\ UNCHANGED result

HandlerReturns == phase = "handler" /\ phase' = "idle"
  /\ UNCHANGED <<tasks, result, reported, fulfiller, waiter, added>>

\* onEmpty(): refused while an earlier promise waits.
OnEmpty ==
  /\ phase \in {"idle", "handler"}
  /\ ~(fulfiller /\ waiter = "pending")
  /\ IF tasks = << >> THEN waiter' = "ready" /\ UNCHANGED fulfiller
     ELSE waiter' = "pending" /\ fulfiller' = TRUE
  /\ UNCHANGED <<tasks, result, reported, added, phase>>

DropWaiter ==
  /\ waiter # "none" /\ waiter' = "dropped"
  /\ UNCHANGED <<tasks, result, reported, fulfiller, added, phase>>

\* clear() and ~TaskSet(), which taskFailed() may call too
Clear(how) ==
  /\ phase \in {"idle", "handler"} /\ phase' = how
  /\ UNCHANGED <<tasks, result, reported, fulfiller, waiter, added>>

\* destroyTasks(): pop the first task, whose destructor may add another
DestroyOne ==
  /\ phase \in {"clearing", "destroying"} /\ tasks # << >>
  /\ \E k \in Spare : tasks' = Pushed(Tail(tasks), k) /\ added' = added + k
  /\ UNCHANGED <<result, reported, fulfiller, waiter, phase>>

\* clear() fulfils and keeps the fulfiller.
ClearEnds ==
  /\ phase = "clearing" /\ tasks = << >> /\ phase' = "idle"
  /\ waiter' = IF fulfiller /\ waiter = "pending" THEN "ready" ELSE waiter
  /\ UNCHANGED <<tasks, result, reported, fulfiller, added>>

\* The set is gone, and with it the fulfiller.
DestroyEnds ==
  /\ phase = "destroying" /\ tasks = << >> /\ phase' = "gone"
  /\ waiter' = IF fulfiller /\ waiter = "pending" THEN "broken" ELSE waiter
  /\ fulfiller' = FALSE
  /\ UNCHANGED <<tasks, result, reported, added>>

TaskNext ==
  \/ \E t \in 1 .. MaxTasks : TaskFire(t) \/ \E how \in {"ok", "fail"} : TaskSettles(t, how)
  \/ TaskAdd \/ HandlerReturns \/ OnEmpty \/ DropWaiter
  \/ \E how \in {"clearing", "destroying"} : Clear(how)
  \/ DestroyOne \/ ClearEnds \/ DestroyEnds

TaskSpec == TaskInit /\ [][TaskNext]_taskVars

-----------------------------------------------------------------------------
\* onEmpty() is exact.  A promise it returned and that nobody dropped is still
\* waiting only while there is a task to wait for (or the set is just being
\* emptied), a later onEmpty() never orphans one, a failure is reported at most
\* once, and no task outlives the set.
OnEmptyIsExact ==
  /\ waiter = "pending" => fulfiller /\ (tasks # << >> \/ phase \in {"clearing", "destroying"})
  /\ waiter = "broken" => phase = "gone"
  /\ \A t \in 1 .. MaxTasks : reported[t] <= 1
  /\ phase = "gone" => tasks = << >>
==============================================================================
