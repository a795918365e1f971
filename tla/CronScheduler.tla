--------------------------- MODULE CronScheduler ---------------------------
(***************************************************************************)
(* The scheduled tasks of a project: the file they are kept in             *)
(* (src/utils/cronTasks.ts) and the scheduler of the session that fires    *)
(* them (src/utils/cronScheduler.ts), with other sessions that create and  *)
(* delete tasks.  CronLock models how a session becomes the owner.         *)
(*                                                                         *)
(* Every change of the file is a read, a truncation and a filling with no  *)
(* lock (io); a step is the code between two file operations, and a check  *)
(* of the timer is one step.  A reload (load) reads the file in one step   *)
(* and installs what it read in another.                                   *)
(*                                                                         *)
(* Time counts the minutes of the schedules: a one-shot task is due one    *)
(* minute after its creation, a recurring one every minute.  Jitter, which *)
(* shifts a due time within its period, is left out.                       *)
(***************************************************************************)
EXTENDS Integers, FiniteSets

CONSTANTS Ids,         \* ids of tasks
          Recurring,   \* those whose schedule recurs
          Early,       \* those in the file at first; others may be created
          Gone, Torn,  \* no such task; a file truncated and not yet filled
          MaxTime,     \* bound: the clock
          MaxAge,      \* recurringMaxAgeMs, 0 for no limit
          MaxFires,    \* bound: fires of one task that are counted
          MaxStarts,   \* bound: processes the session ever has
          MayDelete,   \* another session may delete a task
          MayFail,     \* a change of the file may fail (a full or read-only disk)
          MayWait,     \* the session may start without owning the lock
          PromptWrites,  \* no check runs while a change of the file is under way
          PromptReloads  \* no check runs between a change of the file and the
                         \* reload (FILE_STABILITY_MS < CHECK_INTERVAL_MS), and
                         \* no reload starts during another one

Time == 0 .. MaxTime
Unset == -1                       \* no entry in nextFireAt
Infinity == MaxTime + 3           \* beyond every due time
Entry == [created: Time, last: Time \cup {Unset}]
Contents == [Ids -> Entry \cup {Gone}]
IoOps == {"fired", "mark", "missed", "create", "delete"}
Ios == [op: IoOps, ids: SUBSET Ids, time: Time, at: {"read", "open", "fill"},
        snap: Contents]

ASSUME IdsAssumption == Recurring \subseteq Ids /\ Early \subseteq Ids
ASSUME GoneAssumption == Gone \notin Entry /\ Torn \notin Contents
ASSUME BoundsAssumption ==
  /\ {MaxTime, MaxFires} \subseteq Nat \ {0} /\ {MaxAge, MaxStarts} \subseteq Nat
  /\ {MayDelete, MayFail, MayWait, PromptWrites, PromptReloads} \subseteq BOOLEAN

VARIABLES
  now,        \* the clock
  file,       \* scheduled_tasks.json
  io,         \* changes of the file under way
  starts,     \* processes the session has had (bounded)
  up,         \* the session's scheduler runs
  isOwner,    \* it owns the lock
  tasks,      \* its copy of the file's tasks
  nextFireAt, inFlight, missedAsked,   \* its maps and sets of the same name
  toLoad,     \* loads to begin: the initial one, one for a change event
  loads,      \* loads that have read and not yet installed
  fires,      \* how often each task has fired
  firedAt,    \* when it fired last in this process
  notified,   \* one-shot tasks the user was asked about as missed
  created,    \* tasks whose CronCreate has returned
  deleted     \* tasks whose deletion has been asked for

fileVars == <<file, io>>
schedVars == <<up, isOwner, tasks, nextFireAt, inFlight, missedAsked>>
loadVars == <<toLoad, loads>>
ghostVars == <<fires, firedAt, notified, created, deleted>>
vars == <<now, fileVars, starts, schedVars, loadVars, ghostVars>>

NoTasks == [i \in Ids |-> Gone]

Init ==
  /\ now = 1
  /\ \E f \in [Early -> {0, 1}] :
       file = [i \in Ids |-> IF i \in Early THEN [created |-> f[i], last |-> Unset]
                                            ELSE Gone]
  /\ io = {}
  /\ starts = 0
  /\ up = FALSE /\ isOwner = FALSE
  /\ tasks = NoTasks
  /\ nextFireAt = [i \in Ids |-> Unset]
  /\ inFlight = {} /\ missedAsked = {}
  /\ toLoad = {} /\ loads = {}
  /\ fires = [i \in Ids |-> 0]
  /\ firedAt = [i \in Ids |-> Unset]
  /\ notified = {}
  /\ created = Early
  /\ deleted = {}

(* readCronTasks: a missing, empty or malformed file has no tasks.         *)
Read == IF file = Torn THEN NoTasks ELSE file

In(contents) == {i \in Ids : contents[i] # Gone}

(* nextCronRunMs: strictly after the anchor.                               *)
NextRun(from) == from + 1

(* The anchor of the first sight of a task.                                *)
\* Mutant of Anchor: a task is counted from the moment it is first seen.
AnchorNow(i, e) == now
Anchor(i, e) == IF i \in Recurring /\ e.last # Unset THEN e.last ELSE e.created

-----------------------------------------------------------------------------
(* The changes of the file.                                                *)

Change(op, ids) == [op |-> op, ids |-> ids, time |-> now, at |-> "read",
                    snap |-> NoTasks]

(* What the change makes of what it has read.                              *)
Changed(c) ==
  [i \in Ids |->
     IF i \notin c.ids THEN c.snap[i]
     ELSE CASE c.op = "create" -> [created |-> c.time, last |-> Unset]
            [] c.op = "mark" -> IF c.snap[i] = Gone THEN Gone
                                ELSE [c.snap[i] EXCEPT !.last = c.time]
            [] OTHER -> Gone]

(* removeCronTasks and markCronTasksFired write only if there is something *)
(* to change.                                                              *)
\* Mutant of Matters: the comparison is missing.
MattersAlways(c, contents) == TRUE
Matters(c, contents) == c.op = "create" \/ c.ids \cap In(contents) # {}

(* The `finally` of the scheduler's own changes.                           *)
Landed(c) == IF c.op \in {"fired", "mark"} THEN inFlight \ c.ids ELSE inFlight

IoRead(c) ==
  /\ c.at = "read"
  /\ IF Matters(c, Read)
     THEN /\ io' = (io \ {c}) \cup {[c EXCEPT !.snap = Read, !.at = "open"]}
          /\ UNCHANGED inFlight
     ELSE /\ io' = io \ {c}
          /\ inFlight' = Landed(c)
  /\ UNCHANGED <<now, file, starts, up, isOwner, tasks, nextFireAt, missedAsked,
                 loadVars, ghostVars>>

IoOpen(c) ==
  /\ c.at = "open"
  /\ io' = (io \ {c}) \cup {[c EXCEPT !.at = "fill"]}
  /\ file' = Torn
  /\ UNCHANGED <<now, starts, schedVars, loadVars, ghostVars>>

(* The watcher of a running scheduler gets an event once the file is       *)
(* stable.                                                                 *)
IoFill(c) ==
  /\ c.at = "fill"
  /\ io' = io \ {c}
  /\ file' = Changed(c)
  /\ inFlight' = Landed(c)
  /\ toLoad' = IF up THEN toLoad \cup {"change"} ELSE toLoad
  /\ created' = IF c.op = "create" THEN created \cup c.ids ELSE created
  /\ UNCHANGED <<now, starts, up, isOwner, tasks, nextFireAt, missedAsked, loads,
                 fires, firedAt, notified, deleted>>

(* readCronTasks catches every error and gives no tasks, writeFile throws. *)
IoFail(c) ==
  /\ MayFail
  /\ c.at = "open"
  /\ io' = io \ {c}
  /\ inFlight' = Landed(c)
  /\ UNCHANGED <<now, file, starts, up, isOwner, tasks, nextFireAt, missedAsked,
                 loadVars, ghostVars>>

(* CronCreate and CronDelete in any session.                               *)
Create(i) ==
  /\ i \notin created
  /\ \A c \in io : c.op # "create"
  /\ io' = io \cup {Change("create", {i})}
  /\ UNCHANGED <<now, file, starts, schedVars, loadVars, ghostVars>>

Delete(i) ==
  /\ MayDelete
  /\ i \in created \ deleted
  /\ io' = io \cup {Change("delete", {i})}
  /\ deleted' = deleted \cup {i}
  /\ UNCHANGED <<now, file, starts, schedVars, loadVars, fires, firedAt, notified,
                 created>>

-----------------------------------------------------------------------------
(* The scheduler: enable, the probe that makes it the owner, a crash.      *)

Start(owner) ==
  /\ ~ up
  /\ starts < MaxStarts
  /\ owner \/ MayWait
  /\ up' = TRUE
  /\ isOwner' = owner
  /\ starts' = starts + 1
  /\ toLoad' = {"initial"}
  /\ UNCHANGED <<now, fileVars, tasks, nextFireAt, inFlight, missedAsked, loads,
                 ghostVars>>

BecomeOwner ==
  /\ up
  /\ ~ isOwner
  /\ isOwner' = TRUE
  /\ UNCHANGED <<now, fileVars, starts, up, tasks, nextFireAt, inFlight,
                 missedAsked, loadVars, ghostVars>>

(* What the process was doing is lost, a file it had truncated stays so.   *)
Crash ==
  /\ up
  /\ starts < MaxStarts
  /\ up' = FALSE /\ isOwner' = FALSE
  /\ io' = {c \in io : c.op \in {"create", "delete"}}
  /\ tasks' = NoTasks
  /\ nextFireAt' = [i \in Ids |-> Unset]
  /\ inFlight' = {} /\ missedAsked' = {}
  /\ toLoad' = {} /\ loads' = {}
  /\ firedAt' = [i \in Ids |-> Unset]
  /\ UNCHANGED <<now, file, starts, fires, notified, created, deleted>>

(* load(initial): readCronTasks ...                                        *)
LoadRead(why) ==
  /\ why \in toLoad
  /\ ~ PromptReloads \/ loads = {}
  /\ toLoad' = toLoad \ {why}
  /\ loads' = loads \cup {[initial |-> why = "initial", snap |-> Read]}
  /\ UNCHANGED <<now, fileVars, starts, schedVars, ghostVars>>

(* ... findMissedTasks: one-shot tasks whose time has passed.              *)
Missed(contents) ==
  {i \in In(contents) \ (Recurring \cup missedAsked) :
     NextRun(contents[i].created) < now}

Barred(missed) ==
  [i \in Ids |-> IF i \in missed THEN Infinity ELSE nextFireAt[i]]

Load(l) ==
  /\ tasks' = l.snap
  /\ loads' = loads \ {l}
  /\ LET missed == IF l.initial THEN Missed(l.snap) ELSE {}
     IN  /\ missedAsked' = missedAsked \cup missed
         /\ notified' = notified \cup missed
         /\ nextFireAt' = Barred(missed)
         /\ io' = IF missed = {} THEN io ELSE io \cup {Change("missed", missed)}
  /\ UNCHANGED <<now, file, starts, up, isOwner, inFlight, toLoad, fires, firedAt,
                 created, deleted>>

-----------------------------------------------------------------------------
(* check(), once a second.                                                 *)

Aged(i) == i \in Recurring /\ MaxAge # 0 /\ now - tasks[i].created >= MaxAge

Seen == IF isOwner THEN In(tasks) ELSE {}

NextOf(i) == IF nextFireAt[i] = Unset THEN NextRun(Anchor(i, tasks[i]))
                                      ELSE nextFireAt[i]

\* Mutant of Due: what is in flight is not spared.
DueAnyway == {i \in Seen : now >= NextOf(i)}
Due == {i \in Seen \ inFlight : now >= NextOf(i)}

\* Mutant of Rescheduled: the next fire is computed from the anchor again.
RescheduledNot(i) == NextOf(i)
Rescheduled(i) == NextRun(now)

Quick ==
  /\ PromptWrites => io = {}
  /\ PromptReloads => toLoad = {} /\ loads = {}

Check ==
  /\ up
  /\ Quick
  /\ LET once == {i \in Due : i \notin Recurring \/ Aged(i)}
         again == Due \ once
     IN  /\ nextFireAt' = [i \in Ids |-> CASE i \notin Seen -> Unset
                                           [] i \in Seen \cap inFlight -> nextFireAt[i]
                                           [] i \in once -> Unset
                                           [] i \in again -> Rescheduled(i)
                                           [] OTHER -> NextOf(i)]
         /\ inFlight' = inFlight \cup Due
         /\ io' = io \cup {Change("fired", {i}) : i \in once}
                     \cup (IF again = {} THEN {} ELSE {Change("mark", again)})
  /\ fires' = [i \in Ids |-> IF i \in Due /\ fires[i] < MaxFires
                            THEN fires[i] + 1 ELSE fires[i]]
  /\ firedAt' = [i \in Ids |-> IF i \in Due THEN now ELSE firedAt[i]]
  /\ UNCHANGED <<now, file, starts, up, isOwner, tasks, missedAsked, loadVars,
                 notified, created, deleted>>

Tick ==
  /\ now < MaxTime
  /\ now' = now + 1
  /\ UNCHANGED <<fileVars, starts, schedVars, loadVars, ghostVars>>

IoStep == \E c \in io : IoRead(c) \/ IoOpen(c) \/ IoFill(c) \/ IoFail(c)
LoadStep == (\E why \in toLoad : LoadRead(why)) \/ (\E l \in loads : Load(l))

Next ==
  \/ Tick \/ Check \/ IoStep \/ LoadStep
  \/ \E owner \in BOOLEAN : Start(owner)
  \/ BecomeOwner \/ Crash
  \/ \E i \in Ids : Create(i) \/ Delete(i)

Spec == Init /\ [][Next]_vars

(* The clock goes on, the process runs its timers and its file operations, *)
(* and the session is started.                                             *)
FairSpec ==
  /\ Spec
  /\ WF_vars(Tick) /\ WF_vars(Check) /\ WF_vars(IoStep) /\ WF_vars(LoadStep)
  /\ WF_vars(Start(TRUE)) /\ WF_vars(BecomeOwner)
-----------------------------------------------------------------------------
(* Properties.                                                             *)

TypeOK ==
  /\ now \in Time
  /\ file = Torn \/ \A i \in Ids : file[i] \in Entry \cup {Gone}
  /\ \A c \in io : /\ c.op \in IoOps /\ c.ids \subseteq Ids /\ c.time \in Time
                  /\ c.at \in {"read", "open", "fill"}
                  /\ \A i \in Ids : c.snap[i] \in Entry \cup {Gone}
  /\ starts \in 0 .. MaxStarts /\ up \in BOOLEAN /\ isOwner \in BOOLEAN
  /\ \A i \in Ids : tasks[i] \in Entry \cup {Gone}
  /\ nextFireAt \in [Ids -> Time \cup {Unset, MaxTime + 1, Infinity}]
  /\ inFlight \subseteq Ids /\ missedAsked \subseteq Ids
  /\ toLoad \subseteq {"initial", "change"}
  /\ \A l \in loads : /\ l.initial \in BOOLEAN
                     /\ \A i \in Ids : l.snap[i] \in Entry \cup {Gone}
  /\ fires \in [Ids -> 0 .. MaxFires] /\ firedAt \in [Ids -> Time \cup {Unset}]
  /\ {notified, created, deleted} \subseteq SUBSET Ids

(* `One-shot: fire once, then auto-delete': a process fires a one-shot     *)
(* task at most once, although it forgets its next time at the fire and    *)
(* the file and its own copy still have the task.                          *)
FireOnce ==
  [][\A i \in Ids \ Recurring : Check /\ i \in Due => firedAt[i] = Unset]_vars

(* A process fires a recurring task at most once per period, whatever      *)
(* reloads, torn reads and failing changes of the file come in between,    *)
(* until the task is aged out (it is then removed as a one-shot task is).  *)
OncePerPeriod ==
  [][\A i \in Recurring : Check /\ i \in Due /\ ~ Aged(i) => firedAt[i] < now]_vars

(* A task stays in the file until it has fired, been surfaced as missed or *)
(* been deleted: no change of the file loses what another has put there.   *)
KeptUntilFired ==
  io = {} => \A i \in created \ (notified \cup deleted) :
               fires[i] = 0 => i \in In(Read)

(* The file is sound: its type, and no task of it is lost.                 *)
FileSound == TypeOK /\ KeptUntilFired

(* CronDelete: a deleted task does not come back.                          *)
DeletedStaysDeleted == io = {} => deleted \cap In(Read) = {}

(* A missed one-shot task that the user has been asked about is not also   *)
(* run by the process that has asked.                                      *)
AskedIsNotRun == [][\A i \in missedAsked : ~ (Check /\ i \in Due)]_vars

(* A process runs a one-shot task at most once, and not at all when it has *)
(* asked the user about it.                                                *)
RunOrAsk == FireOnce /\ AskedIsNotRun

(* Every task that becomes due is fired, or the user is asked about it, or *)
(* it is deleted, although the session may die and be started again.       *)
EveryTaskHandled ==
  \A i \in Ids : i \in created /\ now < MaxTime
                  ~> fires[i] > 0 \/ i \in notified \/ i \in deleted
=============================================================================
