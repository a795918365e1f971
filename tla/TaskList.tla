------------------------------ MODULE TaskList ------------------------------
(***************************************************************************)
(* The task list that the agents of a swarm share as files                 *)
(* (src/utils/tasks.ts): one JSON file per task, a high water mark, a lock *)
(* for the list and a lock per task.                                       *)
(*                                                                         *)
(* Every process (an agent) makes one call at a time.  A step below is the *)
(* code between two file operations; the steps of different processes      *)
(* interleave.  A call is the record call[p], at the point `at`:           *)
(*   - updateTask is a procedure of most calls: todo holds the updates     *)
(*     still to make, cur the task of the one being made;                  *)
(*   - listTasks and the two getTasks of blockTask read files in any order *)
(*     (Promise.all): left holds those still to read, snap what was read.  *)
(* writeFile truncates and then fills, so a reader without the lock may    *)
(* find a file Torn; getTask takes that, like Gone, for no task, and       *)
(* readHighWaterMark takes it for 0.                                       *)
(***************************************************************************)
EXTENDS Integers, FiniteSets

CONSTANTS Procs,        \* the processes; each claims for itself
          Nobody,       \* no owner, no holder of a lock
          Gone, Torn,   \* no file; a file truncated and not filled yet
          MaxId,        \* bound: ids given out
          MaxCalls,     \* bound: calls of one process
          Scenarios,    \* who calls what, how often, on which files
          Changes,      \* the updates a caller of updateTask asks for
          MayCrash,     \* a process may die in the middle of a call
          GivesUp       \* the retries of a lock may run out

Ids == 1 .. MaxId
Statuses == {"pending", "in_progress", "completed"}
Ops == {"create", "reset", "update", "delete", "block", "claim", "claimBusy",
        "unassign"}
Task == [owner: Procs \cup {Nobody}, status: Statuses,
         blocks: SUBSET Ids, blockedBy: SUBSET Ids]
Files == Task \cup {Gone, Torn}
Points == {"idle", "listLock", "scan", "open", "fill", "highest", "mark",
           "markOpen", "markFill", "readdir", "sweep", "unlink", "read",
           "update", "check", "lock", "claimRead", "reread", "write", "refill",
           "dead"}

ASSUME BoundsAssumption == MaxId \in Nat \ {0} /\ MaxCalls \in Nat
ASSUME NobodyAssumption == Nobody \notin Procs
ASSUME FilesAssumption == Gone # Torn /\ Gone \notin Task /\ Torn \notin Task
ASSUME ScenariosAssumption ==
  \A s \in Scenarios : /\ s.roles \in [Procs -> SUBSET Ops]
                       /\ s.calls \in 0 .. MaxCalls
                       /\ s.start \in [Ids -> Task \cup {Gone}]
ASSUME FlagsAssumption == MayCrash \in BOOLEAN /\ GivesUp \in BOOLEAN

VARIABLES
  file,       \* the task files
  mark,       \* what readHighWaterMark would return
  listLock,   \* holder of the lock on .lock
  taskLock,   \* holder of the lock on each task file
  call,       \* the call each process is in
  calls,      \* what each process may call, and how often still (bounded)
  made,       \* how often createTask has returned the id
  holder,     \* the agent whose claim wrote the task last
  resolved,   \* tasks that were completed or gone at some time
  edges       \* <<a, b>> for which blockTask(a, b) has returned true

fileVars == <<file, mark>>
lockVars == <<listLock, taskLock>>
ghostVars == <<made, holder, resolved, edges>>
vars == <<fileVars, lockVars, call, calls, ghostVars>>

Resting == [op |-> "update", at |-> "idle", id |-> 1, other |-> 1,
            agent |-> Nobody, scan |-> {}, high |-> 0, left |-> {}, cur |-> 1, todo |-> [i \in {} |-> {}],
            base |-> Gone, snap |-> [i \in Ids |-> Gone]]

(* What getTask makes of a file.                                           *)
Read(f) == IF f = Torn THEN Gone ELSE f

Present == {i \in Ids : file[i] # Gone}
Unresolved(snap) == {i \in Ids : snap[i] # Gone /\ snap[i].status # "completed"}

Highest(S) == IF S = {} THEN 0 ELSE CHOOSE i \in S : \A j \in S : j <= i

(* { ...existing, ...updates }                                             *)
\* Mutant of Merge: the updates replace the task.
MergeNothing(task, patch) == patch
Merge(task, patch) ==
  [f \in DOMAIN task |-> IF f \in DOMAIN patch THEN patch[f] ELSE task[f]]

(* Partial<Omit<Task, 'id'>>: an update gives some fields of a task.        *)
ASSUME ChangesAssumption ==
  \A u \in Changes : \A f \in DOMAIN u :
    \E t \in Task : f \in DOMAIN t /\ u[f] = t[f]

NewTask == [owner |-> Nobody, status |-> "pending", blocks |-> {},
            blockedBy |-> {}]

Init ==
  /\ \E s \in Scenarios :
       /\ file = s.start
       /\ calls = [p \in Procs |-> [ops |-> s.roles[p], left |-> s.calls]]
  /\ mark = 0
  /\ listLock = Nobody
  /\ taskLock = [i \in Ids |-> Nobody]
  /\ call = [p \in Procs |-> Resting]
  /\ made = [i \in Ids |-> IF file[i] = Gone THEN 0 ELSE 1]
  /\ holder = [i \in Ids |-> IF file[i] = Gone THEN Nobody ELSE file[i].owner]
  /\ resolved = {i \in Ids : file[i] = Gone \/ file[i].status = "completed"}
  /\ edges = {e \in Ids \X Ids : file[e[1]] # Gone /\ e[2] \in file[e[1]].blocks}

At(p, point) == call[p].at = point
Goto(p, point) == call' = [call EXCEPT ![p].at = point]

(* The end of a call, by return or throw: the `finally` of the list lock.  *)
Finish(p) ==
  /\ call' = [call EXCEPT ![p] = Resting]
  /\ listLock' = IF listLock = p THEN Nobody ELSE listLock

-----------------------------------------------------------------------------
(* The calls.                                                              *)

Begin(p, entry) ==
  /\ At(p, "idle")
  /\ entry.op \in calls[p].ops /\ calls[p].left > 0
  /\ calls' = [calls EXCEPT ![p].left = @ - 1]
  /\ call' = [call EXCEPT ![p] = entry]
  /\ UNCHANGED <<fileVars, lockVars, ghostVars>>

CreateTask(p) ==
  Begin(p, [Resting EXCEPT !.op = "create", !.at = "listLock",
                           !.scan = {"files", "mark"}])

ResetTaskList(p) ==
  Begin(p, [Resting EXCEPT !.op = "reset", !.at = "listLock"])

UpdateTask(p) ==
  \E i \in Ids, patch \in Changes :
    Begin(p, [Resting EXCEPT !.op = "update", !.at = "update",
                             !.todo = [j \in {i} |-> patch]])

DeleteTask(p) ==
  \E i \in Ids :
    Begin(p, [Resting EXCEPT !.op = "delete", !.at = "mark", !.id = i,
                             !.high = i])

BlockTask(p) ==
  \E a, b \in Ids :
    /\ a # b
    /\ Begin(p, [Resting EXCEPT !.op = "block", !.at = "read", !.id = a,
                                !.other = b, !.left = {a, b}])

ClaimTask(p) ==
  \E i \in Ids :
    Begin(p, [Resting EXCEPT !.op = "claim", !.at = "check", !.id = i,
                 !.cur = i, !.agent = p,
                 !.todo = [j \in {i} |-> [owner |-> p]]])

ClaimTaskBusy(p) ==
  \E i \in Ids :
    Begin(p, [Resting EXCEPT !.op = "claimBusy", !.at = "check", !.id = i,
                             !.cur = i, !.agent = p])

UnassignTeammateTasks(p) ==
  \E a \in Procs \ {p} :
    Begin(p, [Resting EXCEPT !.op = "unassign", !.at = "readdir",
                             !.agent = a])

-----------------------------------------------------------------------------
(* The locks of proper-lockfile.                                           *)

\* Mutant of AfterListLock: a reset does not save the mark.
AfterListLockNoMark(op) ==
  CASE op = "create" -> "scan" [] op \in {"reset", "claimBusy"} -> "readdir"
AfterListLock(op) ==
  CASE op = "create"    -> "scan"
    [] op = "reset"     -> "highest"
    [] op = "claimBusy" -> "readdir"

LockFree(lock) == lock = Nobody

LockList(p) ==
  /\ At(p, "listLock")
  /\ LockFree(listLock)
  /\ listLock' = p
  /\ Goto(p, AfterListLock(call[p].op))
  /\ UNCHANGED <<fileVars, taskLock, calls, ghostVars>>

AfterTaskLock(op) == IF op = "claim" THEN "claimRead" ELSE "reread"

LockTask(p) ==
  /\ At(p, "lock")
  /\ file[call[p].cur] # Gone
  /\ LockFree(taskLock[call[p].cur])
  /\ taskLock' = [taskLock EXCEPT ![call[p].cur] = p]
  /\ Goto(p, AfterTaskLock(call[p].op))
  /\ UNCHANGED <<fileVars, listLock, calls, ghostVars>>

(* lock() throws when the target is gone, or when its retries run out.     *)
LockFails(p) ==
  /\ \/ At(p, "lock") /\ file[call[p].cur] = Gone
     \/ At(p, "lock") /\ GivesUp /\ taskLock[call[p].cur] # Nobody
     \/ At(p, "listLock") /\ GivesUp /\ listLock # Nobody
  /\ Finish(p)
  /\ UNCHANGED <<fileVars, taskLock, calls, ghostVars>>

(* The process dies.  Its locks go stale and are taken over, its files     *)
(* stay as they are.                                                       *)
Crash(p) ==
  /\ MayCrash
  /\ ~ At(p, "idle") /\ ~ At(p, "dead")
  /\ call' = [call EXCEPT ![p] = [Resting EXCEPT !.at = "dead"]]
  /\ listLock' = IF listLock = p THEN Nobody ELSE listLock
  /\ taskLock' = [i \in Ids |-> IF taskLock[i] = p THEN Nobody ELSE taskLock[i]]
  /\ UNCHANGED <<fileVars, calls, ghostVars>>

-----------------------------------------------------------------------------
(* createTask: findHighestTaskId reads the directory and the mark in       *)
(* either order.                                                           *)

Scanned(p, what, value) ==
  /\ At(p, "scan")
  /\ what \in call[p].scan
  /\ call' = [call EXCEPT ![p].high = IF value > @ THEN value ELSE @,
                          ![p].scan = @ \ {what},
                          ![p].at = IF call[p].scan = {what} THEN "open"
                                                             ELSE "scan"]
  /\ UNCHANGED <<fileVars, lockVars, calls, ghostVars>>

ScanFiles(p) == Scanned(p, "files", Highest(Present))
ScanMark(p) == Scanned(p, "mark", mark)

NextId(high) == high + 1

(* What is filled in after an unlink goes to the unlinked file.            *)
Filled(i, task) == [file EXCEPT ![i] = IF @ = Gone THEN Gone ELSE task]

CreateOpen(p) ==
  /\ At(p, "open")
  /\ NextId(call[p].high) \in Ids
  /\ file' = [file EXCEPT ![NextId(call[p].high)] = Torn]
  /\ call' = [call EXCEPT ![p].at = "fill", ![p].id = NextId(call[p].high)]
  /\ UNCHANGED <<mark, lockVars, calls, ghostVars>>

(* Bound: a list that has given out MaxId takes no more tasks.             *)
CreateFull(p) ==
  /\ At(p, "open")
  /\ NextId(call[p].high) \notin Ids
  /\ Finish(p)
  /\ UNCHANGED <<fileVars, taskLock, calls, ghostVars>>

CreateFill(p) ==
  /\ At(p, "fill")
  /\ file' = Filled(call[p].id, NewTask)
  /\ made' = [made EXCEPT ![call[p].id] = @ + 1]
  /\ resolved' = {i \in resolved : i = call[p].id => file[i] = Gone}
  /\ Finish(p)
  /\ UNCHANGED <<mark, taskLock, calls, holder, edges>>

-----------------------------------------------------------------------------
(* resetTaskList and deleteTask: the mark, then the unlink.                *)

AfterMark(op) == IF op = "reset" THEN "readdir" ELSE "unlink"

FindHighest(p) ==
  /\ At(p, "highest")
  /\ LET high == Highest(Present)
     IN  call' = [call EXCEPT ![p].high = high,
                              ![p].at = IF high > 0 THEN "mark" ELSE "readdir"]
  /\ UNCHANGED <<fileVars, lockVars, calls, ghostVars>>

ReadMark(p) ==
  /\ At(p, "mark")
  /\ Goto(p, IF call[p].high > mark THEN "markOpen" ELSE AfterMark(call[p].op))
  /\ UNCHANGED <<fileVars, lockVars, calls, ghostVars>>

MarkOpen(p) ==
  /\ At(p, "markOpen")
  /\ mark' = 0
  /\ Goto(p, "markFill")
  /\ UNCHANGED <<file, lockVars, calls, ghostVars>>

MarkFill(p) ==
  /\ At(p, "markFill")
  /\ mark' = call[p].high
  /\ Goto(p, AfterMark(call[p].op))
  /\ UNCHANGED <<file, lockVars, calls, ghostVars>>

(* What the unlink of i does; an absent file is no error.                  *)
Remove(i) ==
  /\ file' = [file EXCEPT ![i] = Gone]
  /\ holder' = [holder EXCEPT ![i] = Nobody]
  /\ resolved' = resolved \cup {i}
  /\ edges' = {e \in edges : i \notin {e[1], e[2]}}

Sweep(p) ==
  /\ At(p, "sweep")
  /\ \E i \in call[p].left :
       /\ Remove(i)
       /\ call' = [call EXCEPT ![p].left = @ \ {i}]
  /\ UNCHANGED <<mark, lockVars, calls, made>>

Swept(p) ==
  /\ At(p, "sweep")
  /\ call[p].left = {}
  /\ Finish(p)
  /\ UNCHANGED <<fileVars, taskLock, calls, ghostVars>>

Unlink(p) ==
  /\ At(p, "unlink")
  /\ file[call[p].id] # Gone
  /\ Remove(call[p].id)
  /\ Goto(p, "readdir")
  /\ UNCHANGED <<mark, lockVars, calls, made>>

UnlinkMissing(p) ==
  /\ At(p, "unlink")
  /\ file[call[p].id] = Gone
  /\ Finish(p)
  /\ UNCHANGED <<fileVars, taskLock, calls, ghostVars>>

-----------------------------------------------------------------------------
(* listTasks, the decision taken on what it returns, and updateTask.       *)

ReadDir(p) ==
  /\ At(p, "readdir")
  /\ call' = [call EXCEPT ![p].left = Present,
                          ![p].at = IF call[p].op = "reset" THEN "sweep"
                                                            ELSE "read"]
  /\ UNCHANGED <<fileVars, lockVars, calls, ghostVars>>

ReadOne(p) ==
  /\ At(p, "read")
  /\ \E i \in call[p].left :
       call' = [call EXCEPT ![p].left = @ \ {i}, ![p].snap[i] = Read(file[i])]
  /\ UNCHANGED <<fileVars, lockVars, calls, ghostVars>>

Listed(p, op) == At(p, "read") /\ call[p].left = {} /\ call[p].op = op

(* The call goes on to its updates.                                        *)
Plan(p, todo) ==
  call' = [call EXCEPT ![p].todo = todo, ![p].snap = Resting.snap,
                       ![p].at = "update"]

Without(task, id) == [blocks |-> task.blocks \ {id},
                      blockedBy |-> task.blockedBy \ {id}]

PlanCascade(p) ==
  /\ Listed(p, "delete")
  /\ LET snap == call[p].snap
         id == call[p].id
         mention == {i \in Ids : /\ snap[i] # Gone
                                 /\ id \in snap[i].blocks \cup snap[i].blockedBy}
     IN  Plan(p, [i \in mention |-> Without(snap[i], id)])
  /\ UNCHANGED <<fileVars, lockVars, calls, ghostVars>>

PlanUnassign(p) ==
  /\ Listed(p, "unassign")
  /\ LET snap == call[p].snap
     IN  Plan(p, [i \in {j \in Unresolved(snap) : snap[j].owner = call[p].agent}
                    |-> [owner |-> Nobody, status |-> "pending"]])
  /\ UNCHANGED <<fileVars, lockVars, calls, ghostVars>>

(* The arrays of blockTask's updates, computed before any lock is held.    *)
BlockEdge(a, b, snap) ==
  [i \in {j \in {a, b} : \/ j = a /\ b \notin snap[a].blocks
                         \/ j = b /\ a \notin snap[b].blockedBy}
     |-> IF i = a THEN [blocks |-> snap[a].blocks \cup {b}]
                  ELSE [blockedBy |-> snap[b].blockedBy \cup {a}]]

PlanBlock(p) ==
  /\ Listed(p, "block")
  /\ LET a == call[p].id
         b == call[p].other
         snap == call[p].snap
     IN  IF Gone \in {snap[a], snap[b]}
         THEN Finish(p)
         ELSE /\ Plan(p, BlockEdge(a, b, snap))
              /\ UNCHANGED listLock
  /\ UNCHANGED <<fileVars, taskLock, calls, ghostVars>>

\* Mutant of Claimable: the owner is not looked at.
ClaimableOwned(task, agent) == task # Gone /\ task.status # "completed"
Claimable(task, agent) ==
  /\ task # Gone
  /\ task.owner \in {Nobody, agent}
  /\ task.status # "completed"

Blockers(task, snap) == task.blockedBy \cap Unresolved(snap)

(* Tasks other than i that keep the agent busy.                            *)
BusyWith(agent, i, snap) ==
  {j \in Unresolved(snap) \ {i} : snap[j].owner = agent}

(* claimTask under the task's lock: the task, then the list.               *)
ClaimRead(p) ==
  /\ At(p, "claimRead")
  /\ LET i == call[p].id
         task == Read(file[i])
     IN  IF Claimable(task, p)
         THEN /\ call' = [call EXCEPT ![p].base = task, ![p].at = "readdir"]
              /\ UNCHANGED lockVars
         ELSE /\ Finish(p)
              /\ taskLock' = [taskLock EXCEPT ![i] = Nobody]
  /\ UNCHANGED <<fileVars, calls, ghostVars>>

DecideClaim(p) ==
  /\ Listed(p, "claim")
  /\ IF Blockers(call[p].base, call[p].snap) = {}
     THEN /\ call' = [call EXCEPT ![p].snap = Resting.snap, ![p].at = "reread"]
          /\ UNCHANGED lockVars
     ELSE /\ Finish(p)
          /\ taskLock' = [taskLock EXCEPT ![call[p].id] = Nobody]
  /\ UNCHANGED <<fileVars, calls, ghostVars>>

(* claimTaskWithBusyCheck under the list's lock.                           *)
DecideBusyClaim(p) ==
  /\ Listed(p, "claimBusy")
  /\ LET i == call[p].id
         snap == call[p].snap
     IN  IF /\ Claimable(snap[i], p)
            /\ Blockers(snap[i], snap) = {}
            /\ BusyWith(p, i, snap) = {}
         THEN /\ Plan(p, [j \in {i} |-> [owner |-> p]])
              /\ UNCHANGED listLock
         ELSE Finish(p)
  /\ UNCHANGED <<fileVars, taskLock, calls, ghostVars>>

-----------------------------------------------------------------------------
(* updateTask, for each task of todo: the cascade and the unassignment go  *)
(* through them in the order of readdir, blockTask takes its source first. *)

Turn(c) == IF c.op = "block" /\ c.id \in DOMAIN c.todo THEN {c.id} ELSE DOMAIN c.todo

NextUpdate(p) ==
  /\ At(p, "update")
  /\ \E i \in Turn(call[p]) :
       call' = [call EXCEPT ![p].cur = i, ![p].at = "check"]
  /\ UNCHANGED <<fileVars, lockVars, calls, ghostVars>>

(* The call returns.                                                       *)
Updated(p) ==
  /\ At(p, "update")
  /\ DOMAIN call[p].todo = {}
  /\ Finish(p)
  /\ edges' = IF call[p].op = "block"
              THEN edges \cup {<<call[p].id, call[p].other>>} ELSE edges
  /\ UNCHANGED <<fileVars, taskLock, calls, made, holder, resolved>>

\* Mutant of Dropped: the update is tried again.
DroppedNot(c) == [c EXCEPT !.base = Gone, !.at = "update"]
Dropped(c) == [c EXCEPT !.todo = [i \in DOMAIN c.todo \ {c.cur} |-> c.todo[i]],
                        !.base = Gone, !.at = "update"]

(* A claim tells its agent that it has the task once the update returns,   *)
(* with what was written or with null (`task: updated!').                  *)
Told(p) ==
  /\ call[p].op \in {"claim", "claimBusy"}
  /\ call[p].at \in {"check", "reread", "refill"} /\ call'[p].at = "update"

(* The read before the lock, so that lock() is not called for no file.     *)
Check(p) ==
  /\ At(p, "check")
  /\ LET c == call[p]
     IN  IF Read(file[c.cur]) # Gone
         THEN /\ Goto(p, IF c.op = "claimBusy" /\ c.todo = Resting.todo
                         THEN "listLock" ELSE "lock")
              /\ UNCHANGED listLock
         ELSE IF c.op = "claim" \/ c.todo = Resting.todo
              THEN Finish(p)
              ELSE /\ call' = [call EXCEPT ![p] = Dropped(c)]
                   /\ UNCHANGED listLock
  /\ UNCHANGED <<fileVars, taskLock, calls, ghostVars>>

(* updateTaskUnsafe: read, truncate, fill.                                 *)
Unlocked(p) == taskLock' = [taskLock EXCEPT ![call[p].cur] = Nobody]

Reread(p) ==
  /\ At(p, "reread")
  /\ LET task == Read(file[call[p].cur])
     IN  IF task # Gone
         THEN /\ call' = [call EXCEPT ![p].base = task, ![p].at = "write"]
              /\ UNCHANGED taskLock
         ELSE /\ call' = [call EXCEPT ![p] = Dropped(call[p])]
              /\ Unlocked(p)
  /\ UNCHANGED <<fileVars, listLock, calls, ghostVars>>

Write(p) ==
  /\ At(p, "write")
  /\ file' = [file EXCEPT ![call[p].cur] = Torn]
  /\ Goto(p, "refill")
  /\ UNCHANGED <<mark, lockVars, calls, ghostVars>>

(* Who has the task once a call writes it: the claimant, or nobody when an *)
(* unassignment or a new owner takes it from the agent that had it.        *)
HolderAfter(c, old) ==
  IF c.op \in {"claim", "claimBusy"} THEN c.agent
  ELSE IF c.op = "unassign" /\ old = c.agent THEN Nobody
  ELSE IF c.op = "update" /\ "owner" \in DOMAIN c.todo[c.cur] THEN Nobody
  ELSE old

Refill(p) ==
  /\ At(p, "refill")
  /\ LET c == call[p]
         i == c.cur
         task == Merge(c.base, c.todo[i])
     IN  /\ file' = Filled(i, task)
         /\ holder' = [holder EXCEPT ![i] = IF file[i] = Gone THEN @
                                            ELSE HolderAfter(c, @)]
         /\ resolved' = IF task.status = "completed" THEN resolved \cup {i}
                                                     ELSE resolved
         /\ call' = [call EXCEPT ![p] = Dropped(c)]
  /\ Unlocked(p)
  /\ UNCHANGED <<mark, listLock, calls, made, edges>>

-----------------------------------------------------------------------------
Call(p) == \/ CreateTask(p) \/ ResetTaskList(p) \/ UpdateTask(p)
           \/ DeleteTask(p) \/ BlockTask(p) \/ ClaimTask(p)
           \/ ClaimTaskBusy(p) \/ UnassignTeammateTasks(p)

Step(p) ==
  \/ LockList(p) \/ LockTask(p) \/ LockFails(p)
  \/ ScanFiles(p) \/ ScanMark(p) \/ CreateOpen(p) \/ CreateFull(p)
  \/ CreateFill(p)
  \/ FindHighest(p) \/ ReadMark(p) \/ MarkOpen(p) \/ MarkFill(p)
  \/ Sweep(p) \/ Swept(p) \/ Unlink(p) \/ UnlinkMissing(p)
  \/ ReadDir(p) \/ ReadOne(p) \/ PlanCascade(p) \/ PlanUnassign(p)
  \/ PlanBlock(p) \/ ClaimRead(p) \/ DecideClaim(p) \/ DecideBusyClaim(p)
  \/ NextUpdate(p) \/ Updated(p) \/ Check(p) \/ Reread(p) \/ Write(p)
  \/ Refill(p)

(* No more calls: the processes have made all they make here, or are dead. *)
Done ==
  /\ \A p \in Procs :
       \/ At(p, "dead")
       \/ At(p, "idle") /\ (calls[p].left = 0 \/ calls[p].ops = {})
  /\ UNCHANGED vars

Next == (\E p \in Procs : Call(p) \/ Step(p) \/ Crash(p)) \/ Done

Spec == Init /\ [][Next]_vars

(* The event loop of a process goes on with its calls.  Only the steps are *)
(* fair: nothing obliges an agent to call.                                 *)
FairSpec == Spec /\ \A p \in Procs : WF_vars(Step(p))

-----------------------------------------------------------------------------
(* Properties.                                                             *)

Calls == [op: Ops, at: Points, id: Ids, other: Ids, agent: Procs \cup {Nobody},
          scan: SUBSET {"files", "mark"}, high: 0 .. MaxId, left: SUBSET Ids,
          cur: Ids,
          base: Task \cup {Gone}, snap: [Ids -> Task \cup {Gone}]]

(* The types of the state; of a call, every field but the updates to make, *)
(* which only name tasks.                                                  *)
TypeOK ==
  /\ file \in [Ids -> Files] /\ mark \in 0 .. MaxId
  /\ listLock \in Procs \cup {Nobody}
  /\ taskLock \in [Ids -> Procs \cup {Nobody}]
  /\ \A p \in Procs :
       /\ [f \in DOMAIN Resting \ {"todo"} |-> call[p][f]] \in Calls
       /\ DOMAIN call[p].todo \subseteq Ids
  /\ calls \in [Procs -> [ops: SUBSET Ops, left: 0 .. MaxCalls]]
  /\ made \in [Ids -> Nat] /\ holder \in [Ids -> Procs \cup {Nobody}]
  /\ resolved \subseteq Ids /\ edges \subseteq Ids \X Ids

(* createTask never returns an id it, or a call before it, has returned:   *)
(* `Reads highest ID from disk while holding the lock'.                    *)
UniqueIds == \A i \in Ids : made[i] <= 1

(* updateTaskUnsafe puts its fields into what the file still holds, and    *)
(* nobody writes the file between its truncation and its filling: no       *)
(* update of another field is lost (the file may be deleted meanwhile).    *)
WriteIsCurrent ==
  \A p \in Procs :
    /\ At(p, "write") => file[call[p].cur] \in {call[p].base, Gone}
    /\ At(p, "refill") => file[call[p].cur] \in {Torn, Gone}

(* The files stay sound: their types, their ids, and what is put into them.*)
FilesSound == TypeOK /\ UniqueIds /\ WriteIsCurrent

(* No claim takes a task that another agent's claim has written: it goes   *)
(* from one agent to another only through an unassignment, a new owner or  *)
(* a deletion.  And an agent that is told it has the task has written it:  *)
(* the update of the claim may have found it deleted, and that of a claim  *)
(* with the busy check, which holds no lock of the task when it looks for  *)
(* it, may have found another's write under way.                           *)
ClaimExclusive ==
  [][/\ \A i \in Ids : Nobody \notin {holder[i], holder'[i]} => holder'[i] = holder[i]
     /\ \A p \in Procs : Told(p) =>
          \/ holder'[call[p].cur] = p
          \/ file[call[p].cur] = Gone
          \/ call[p].op = "claimBusy" /\ file[call[p].cur] = Torn]_vars

(* Every claim that is told it has the task has written it, unless the     *)
(* task was deleted: `performed atomically with the claim'.                *)
ToldHasWritten ==
  [][\A p \in Procs : Told(p) => holder'[call[p].cur] = p \/ file[call[p].cur] = Gone]_vars

(* A claim that goes through has seen every blocker of the task completed  *)
(* or gone: `open or in_progress tasks block'.                             *)
BlockersRespected ==
  \A p \in Procs :
    At(p, "reread") /\ call[p].op = "claim" => call[p].base.blockedBy \subseteq resolved

Quiet == \A p \in Procs : At(p, "idle") \/ At(p, "dead")

(* A caller that finds a task in the middle of another's write waits for   *)
(* the lock (`concurrent callers ... wait for the lock instead of failing  *)
(* immediately'): it does not end, or skip its update, as for no task.     *)
CallersWait ==
  [][\A p \in Procs : At(p, "check") /\ file[call[p].cur] = Torn
                       => call'[p].at \in {"check", "lock", "listLock", "dead"}]_vars

(* When no call is under way, an edge that blockTask has reported is in    *)
(* both tasks.                                                             *)
EdgesKept ==
  Quiet => \A e \in edges :
             LET a == Read(file[e[1]])
                 b == Read(file[e[2]])
             IN  Gone \notin {a, b} => e[2] \in a.blocks /\ e[1] \in b.blockedBy

(* When no call is under way, no task mentions one that is gone: deleteTask*)
(* `Remove[s] references to this task from other tasks'.                   *)
NoDangling ==
  Quiet => \A i \in Ids : LET t == Read(file[i])
                         IN  t # Gone => t.blocks \cup t.blockedBy \subseteq Present

(* Nobody waits for ever for a lock, even when its retries do not run out: *)
(* a busy claim takes a task's lock under the list's, never the reverse.   *)
CallsEnd ==
  \A p \in Procs : ~ At(p, "idle") ~> At(p, "idle") \/ At(p, "dead")
=============================================================================
