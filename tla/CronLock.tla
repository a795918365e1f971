------------------------------ MODULE CronLock ------------------------------
(***************************************************************************)
(* The lock that lets one session of a project run the scheduled tasks     *)
(* (src/utils/cronTasksLock.ts), with the part of the scheduler that takes *)
(* it, probes for it and gives it back (enable, the probe timer and stop   *)
(* of src/utils/cronScheduler.ts).                                         *)
(*                                                                         *)
(* A step is the code between two file operations.  writeFile with 'wx'    *)
(* first creates the file, empty, and then writes through the descriptor;  *)
(* what it writes is lost when the file has been unlinked since.           *)
(*                                                                         *)
(* No name is one of CronScheduler, so that a module can extend both.      *)
(***************************************************************************)
EXTENDS Integers, FiniteSets

CONSTANTS Processes,  \* the processes there ever are: bound; a pid is a member
          Sessions,   \* session ids
          NoFile      \* there is no lock file

ASSUME ProcessesAssumption == Processes # {} /\ IsFiniteSet(Processes)
ASSUME SessionsAssumption == Sessions # {} /\ IsFiniteSet(Sessions)

Points == {"down",       \* no process, or no scheduler in it
           "waiting",    \* not the owner; the probe timer is set
           "owning",     \* the owner; the checks run
           "create", "fill", "read", "reopen", "unlink", "recreate",
           "relread", "relunlink"}

(* The lock file: its body is the sessionId and the pid of the process     *)
(* that created it last, or nothing yet.                                   *)
Locks == [by: Sessions, full: BOOLEAN, pid: Processes]

VARIABLES
  lock,       \* the lock file
  pc,         \* where the scheduler of the process stands
  life,       \* the process is "new", "up", has "ended" in order or "died"
  sessionNow, \* getSessionId()
  sessionId,  \* the local of the last acquisition or release
  existing,   \* the stale lock that a recovery has read, or NoFile
  ownsLock,   \* the scheduler's isOwner
  stopped     \* the scheduler's stopped

lockVars == <<lock, pc, life, sessionNow, sessionId, existing, ownsLock, stopped>>

LockInit ==
  /\ lock = NoFile
  /\ pc = [p \in Processes |-> "down"]
  /\ life = [p \in Processes |-> "new"]
  /\ sessionNow \in {[p \in Processes |-> s] : s \in Sessions}
  /\ sessionId = sessionNow
  /\ existing = [p \in Processes |-> NoFile]
  /\ ownsLock = [p \in Processes |-> FALSE]
  /\ stopped = [p \in Processes |-> TRUE]

At(p, point) == pc[p] = point
Goto(p, point) == pc' = [pc EXCEPT ![p] = point]

(* readLock gives nothing for an absent, empty or torn file.               *)
Readable == lock # NoFile /\ lock.full
\* Mutant of Running: the pid is not looked at.
RunningAlways(p) == TRUE
Running(p) == life[p] = "up"

IsMine(p) == lock.by = sessionId[p]

(* tryAcquireSchedulerLock and releaseSchedulerLock read the session's id  *)
(* once, at their start.                                                   *)
TakesId(p) == sessionId' = [sessionId EXCEPT ![p] = sessionNow[p]]

-----------------------------------------------------------------------------
(* The scheduler.                                                          *)

(* A process starts, with a session of its own or one that it resumes,     *)
(* which another process had, or has; start() leads to enable(), which     *)
(* acquires.                                                               *)
Enable(p) ==
  /\ life[p] = "new"
  /\ life' = [life EXCEPT ![p] = "up"]
  /\ \E s \in Sessions : /\ sessionNow' = [sessionNow EXCEPT ![p] = s]
                         /\ sessionId' = [sessionId EXCEPT ![p] = s]
  /\ stopped' = [stopped EXCEPT ![p] = FALSE]
  /\ Goto(p, "create")
  /\ UNCHANGED <<lock, ownsLock, existing>>

(* /clear and /resume give the process another session; its scheduler goes *)
(* on, whatever it is doing.                                               *)
SwitchSession(p) ==
  /\ life[p] = "up"
  /\ \E s \in Sessions \ {sessionNow[p]} : sessionNow' = [sessionNow EXCEPT ![p] = s]
  /\ UNCHANGED <<lock, pc, life, sessionId, existing, ownsLock, stopped>>

(* The probe timer of a process that is not the owner.                     *)
Probe(p) ==
  /\ At(p, "waiting")
  /\ ~ stopped[p]
  /\ TakesId(p)
  /\ Goto(p, "create")
  /\ UNCHANGED <<lock, life, sessionNow, existing, ownsLock, stopped>>

(* tryAcquireSchedulerLock returns.  A scheduler stopped meanwhile gives   *)
(* the lock back.                                                          *)
\* Mutant of Returned: the lock is not given back.
ReturnedAnyway(p, owned) ==
  /\ ownsLock' = [ownsLock EXCEPT ![p] = owned /\ ~ stopped[p]]
  /\ Goto(p, IF stopped[p] THEN "down" ELSE IF owned THEN "owning" ELSE "waiting")
  /\ UNCHANGED sessionId
Returned(p, owned) ==
  /\ ownsLock' = [ownsLock EXCEPT ![p] = owned /\ ~ stopped[p]]
  /\ IF stopped[p] /\ owned
       THEN Goto(p, "relread") /\ TakesId(p)
       ELSE /\ Goto(p, IF stopped[p] THEN "down" ELSE IF owned THEN "owning" ELSE "waiting")
            /\ UNCHANGED sessionId

(* stop(), called when the REPL unmounts or print mode has ended.          *)
Stop(p) ==
  /\ ~ stopped[p]
  /\ stopped' = [stopped EXCEPT ![p] = TRUE]
  /\ ownsLock' = [ownsLock EXCEPT ![p] = FALSE]
  /\ CASE At(p, "owning")  -> Goto(p, "relread") /\ TakesId(p)
       [] At(p, "waiting") -> Goto(p, "down") /\ UNCHANGED sessionId
       [] OTHER            -> UNCHANGED <<pc, sessionId>>
  /\ UNCHANGED <<lock, life, sessionNow, existing>>

(* The process of a stopped scheduler ends; any process may die.           *)
Exit(p) ==
  /\ life[p] = "up"
  /\ At(p, "down")
  /\ life' = [life EXCEPT ![p] = "ended"]
  /\ UNCHANGED <<lock, pc, sessionNow, sessionId, existing, ownsLock, stopped>>

Die(p) ==
  /\ life[p] = "up"
  /\ ~ At(p, "down")
  /\ life' = [life EXCEPT ![p] = "died"]
  /\ ownsLock' = [ownsLock EXCEPT ![p] = FALSE]
  /\ stopped' = [stopped EXCEPT ![p] = TRUE]
  /\ existing' = [existing EXCEPT ![p] = NoFile]
  /\ Goto(p, "down")
  /\ UNCHANGED <<lock, sessionNow, sessionId>>

-----------------------------------------------------------------------------
(* tryAcquireSchedulerLock.                                                *)

Empty(p) == [by |-> sessionId[p], full |-> FALSE, pid |-> p]

(* tryCreateExclusive: the create of O_EXCL, then the body.                *)
TryCreateExclusive(p) ==
  /\ At(p, "create") \/ At(p, "recreate")
  /\ lock = NoFile
  /\ lock' = Empty(p)
  /\ Goto(p, "fill")
  /\ UNCHANGED <<life, sessionNow, sessionId, existing, ownsLock, stopped>>

CreateFails(p) ==
  /\ lock # NoFile
  /\ \/ At(p, "create") /\ Goto(p, "read") /\ UNCHANGED <<sessionId, ownsLock>>
     \/ At(p, "recreate") /\ Returned(p, FALSE)
  /\ UNCHANGED <<lock, life, sessionNow, existing, stopped>>

Fill(p) ==
  /\ At(p, "fill")
  /\ lock' = IF lock = Empty(p) THEN [lock EXCEPT !.full = TRUE] ELSE lock
  /\ Returned(p, TRUE)
  /\ UNCHANGED <<life, sessionNow, existing, stopped>>

(* The lock that is there: this session's, written by this process or by   *)
(* another, a live process's of another session, or stale.                 *)
ReadMine(p) ==
  /\ At(p, "read")
  /\ Readable /\ IsMine(p)
  /\ IF lock.pid = p THEN Returned(p, TRUE)
                     ELSE Goto(p, "reopen") /\ UNCHANGED <<sessionId, ownsLock>>
  /\ UNCHANGED <<lock, life, sessionNow, existing, stopped>>

ReadBlocked(p) ==
  /\ At(p, "read")
  /\ Readable /\ ~ IsMine(p) /\ Running(lock.pid)
  /\ Returned(p, FALSE)
  /\ UNCHANGED <<lock, life, sessionNow, existing, stopped>>

ReadStale(p) ==
  /\ At(p, "read")
  /\ ~ (Readable /\ (IsMine(p) \/ Running(lock.pid)))
  /\ existing' = [existing EXCEPT ![p] = IF Readable THEN lock ELSE NoFile]
  /\ Goto(p, "unlink")
  /\ UNCHANGED <<lock, life, sessionNow, sessionId, ownsLock, stopped>>

(* writeFile without 'wx' over the lock of this session's other process,   *)
(* which is not asked whether it runs.                                     *)
Reopen(p) ==
  /\ At(p, "reopen")
  /\ lock' = Empty(p)
  /\ Goto(p, "fill")
  /\ UNCHANGED <<life, sessionNow, sessionId, existing, ownsLock, stopped>>

UnlinkStale(p) ==
  /\ At(p, "unlink")
  /\ lock' = NoFile
  /\ existing' = [existing EXCEPT ![p] = NoFile]
  /\ Goto(p, "recreate")
  /\ UNCHANGED <<life, sessionNow, sessionId, ownsLock, stopped>>

-----------------------------------------------------------------------------
(* releaseSchedulerLock.                                                   *)

ReleaseRead(p) ==
  /\ At(p, "relread")
  /\ Goto(p, IF Readable /\ IsMine(p) THEN "relunlink" ELSE "down")
  /\ UNCHANGED <<lock, life, sessionNow, sessionId, existing, ownsLock, stopped>>

ReleaseUnlink(p) ==
  /\ At(p, "relunlink")
  /\ lock' = NoFile
  /\ Goto(p, "down")
  /\ UNCHANGED <<life, sessionNow, sessionId, existing, ownsLock, stopped>>

Step(p) ==
  \/ TryCreateExclusive(p) \/ CreateFails(p) \/ Fill(p) \/ ReadMine(p) \/ ReadBlocked(p)
  \/ ReadStale(p) \/ Reopen(p) \/ UnlinkStale(p) \/ ReleaseRead(p)
  \/ ReleaseUnlink(p) \/ Probe(p)

LockNext ==
  \E p \in Processes :
    Step(p) \/ Enable(p) \/ SwitchSession(p) \/ Stop(p) \/ Exit(p) \/ Die(p)

(* The event loop goes on, the timer of the probe goes off again and       *)
(* again, and a process whose scheduler was stopped, which is on its way   *)
(* out, ends.                                                              *)
LockSpec == LockInit /\ [][LockNext]_lockVars
FairLockSpec ==
  LockSpec /\ \A p \in Processes : WF_lockVars(Step(p)) /\ WF_lockVars(Exit(p))

-----------------------------------------------------------------------------
(* Properties.                                                             *)

LockTypeOK ==
  /\ lock \in Locks \cup {NoFile}
  /\ pc \in [Processes -> Points]
  /\ life \in [Processes -> {"new", "up", "ended", "died"}]
  /\ sessionNow \in [Processes -> Sessions]
  /\ sessionId \in [Processes -> Sessions]
  /\ existing \in [Processes -> Locks \cup {NoFile}]
  /\ ownsLock \in [Processes -> BOOLEAN]
  /\ stopped \in [Processes -> BOOLEAN]

(* `The lock exists to stop two DSXU sessions in the same cwd from         *)
(* double-firing the same on-disk task': two schedulers that took the lock *)
(* for two sessions are never both owners.  (Two processes of one session  *)
(* may be: a process that resumes it takes the lock from the other, dead   *)
(* or not.)                                                                *)
OneOwner ==
  \A p, q \in Processes :
    ownsLock[p] /\ ownsLock[q] /\ sessionId[p] # sessionId[q] => p = q

(* `If two sessions race to recover a stale lock, only one create          *)
(* succeeds': what a recovery unlinks is the stale lock it has read, never *)
(* the lock by which another process has recovered it already.             *)
OneRecovery ==
  [][\A p \in Processes :
       At(p, "unlink") /\ pc'[p] = "recreate" /\ existing[p] # NoFile
         => lock \in {existing[p], NoFile}]_lockVars

AllDown == \A p \in Processes : At(p, "down")

(* `sessionId in the lock file is really just a stable owner key': a lock  *)
(* left when all schedulers are down is that of a process that died, for   *)
(* one stopped in order gives its own back.                                *)
StableKey == AllDown /\ lock # NoFile => life[lock.pid] = "died"

(* A lock left behind when all schedulers are down is that of a process    *)
(* that died, or whose release was called in another session than the      *)
(* acquisition: one that is stopped in order, in the session in which it   *)
(* took the lock, gives it back, whatever it was doing, and whoever has    *)
(* recovered or taken over the lock since.                                 *)
NoLockLeft ==
  AllDown /\ lock # NoFile
    => life[lock.pid] = "died" \/ sessionId[lock.pid] # lock.by

(* The lock is sound: its type, and whose it is when all are down.         *)
LockSound == LockTypeOK /\ NoLockLeft

(* A process whose scheduler stays up does not wait for ever behind an     *)
(* owner that is gone, whether it died or left its lock under the id of an *)
(* earlier session: in the end some scheduler runs the tasks.              *)
TakeOver ==
  \A p \in Processes :
    <>[](life[p] = "up" /\ ~ stopped[p]) => <>[](\E o \in Processes : ownsLock[o])
=============================================================================
