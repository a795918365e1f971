--------------------------- MODULE TaskListProofs ---------------------------
(***************************************************************************)
(* Proofs about the shared task list, for any processes, ids and scenarios: *)
(* its locks exclude, no id is given out twice, no field of a concurrent   *)
(* update is lost, and no task is claimed twice.                           *)
(***************************************************************************)
EXTENDS TaskList, WellFoundedInduction, TLAPS

(* The updates a call makes.                                               *)
Owners == Procs \cup {Nobody}
Patches == Changes \cup [owner: Owners] \cup [owner: Owners, status: Statuses]
           \cup [blocks: SUBSET Ids, blockedBy: SUBSET Ids]
           \cup [blocks: SUBSET Ids] \cup [blockedBy: SUBSET Ids]
Todos == UNION {[D -> Patches] : D \in SUBSET Ids}

CallType ==
  [op: Ops, at: Points, id: Ids, other: Ids, agent: Owners,
   scan: SUBSET {"files", "mark"}, high: 0 .. MaxId, left: SUBSET Ids,
   cur: Ids, todo: Todos, base: Task \cup {Gone},
   snap: [Ids -> Task \cup {Gone}]]

Types ==
  /\ file \in [Ids -> Files] /\ mark \in 0 .. MaxId
  /\ listLock \in Owners /\ taskLock \in [Ids -> Owners]
  /\ call \in [Procs -> CallType]
  /\ calls \in [Procs -> [ops: SUBSET Ops, left: 0 .. MaxCalls]]
  /\ made \in [Ids -> Nat] /\ holder \in [Ids -> Owners]
  /\ resolved \subseteq Ids /\ edges \subseteq Ids \X Ids

(* The points at which a call holds the lock of the list, that of a task.  *)
HoldsList(c) ==
  \/ c.op = "create" /\ c.at \in {"scan", "open", "fill"}
  \/ c.op = "reset" /\ c.at \in {"highest", "mark", "markOpen", "markFill", "readdir", "sweep"}
  \/ c.op = "claimBusy" /\ c.at \in {"readdir", "read", "update", "lock", "reread", "write", "refill"}
  \/ c.op = "claimBusy" /\ c.at = "check" /\ DOMAIN c.todo # {}

HoldsTask(c) ==
  \/ c.at \in {"claimRead", "reread", "write", "refill"}
  \/ c.op = "claim" /\ c.at \in {"readdir", "read"}

(* The lock of the list has the call that is in its section, and that of a *)
(* task the call that is about to write it.                                *)
LocksExclude ==
  /\ \A p \in Procs : HoldsList(call[p]) => listLock = p
  /\ \A p \in Procs : HoldsTask(call[p]) => taskLock[call[p].cur] = p

(* Which call is at which point.                                           *)
Updating == {"update", "delete", "block", "claim", "claimBusy", "unassign"}
PointsOf(c) ==
  /\ c.at \in {"idle", "dead"} => c.op = "update"
  /\ c.at = "listLock" => c.op \in {"create", "reset", "claimBusy"}
  /\ c.at \in {"scan", "open", "fill"} => c.op = "create"
  /\ c.at \in {"highest", "sweep"} => c.op = "reset"
  /\ c.at \in {"mark", "markOpen", "markFill"} => c.op \in {"reset", "delete"}
  /\ c.at = "unlink" => c.op = "delete"
  /\ c.at = "readdir" => c.op \in {"reset", "claim", "claimBusy", "delete", "unassign"}
  /\ c.at = "read" => c.op \in {"block", "claim", "claimBusy", "delete", "unassign"}
  /\ c.at = "claimRead" => c.op = "claim"
  /\ c.at \in {"update", "check", "lock", "reread", "write", "refill"} => c.op \in Updating

(* What a call writes.                                                     *)
Writing(c) == c.at \in {"write", "refill"}
Planned(p, c) ==
  /\ c.at # "read" => \A i \in Ids : c.snap[i] = Gone
  /\ c.op = "create" /\ c.at = "listLock" => c.scan = {"files", "mark"}
  /\ c.at \in {"claimRead", "reread", "write", "refill"} => c.cur \in DOMAIN c.todo
  /\ c.at = "lock" => c.cur \in DOMAIN c.todo
  /\ c.at \in {"lock", "check"} /\ c.op # "claimBusy" => c.cur \in DOMAIN c.todo
  /\ Writing(c) => c.base \in Task
  /\ c.op \in {"claim", "claimBusy"} /\ c.at \notin {"idle", "dead"} =>
       /\ c.agent = p /\ DOMAIN c.todo \subseteq {c.id}
       /\ \A i \in DOMAIN c.todo : c.todo[i] = [owner |-> p]
       /\ c.at # "update" => c.cur = c.id
  /\ c.op = "claim" /\ c.at \in {"readdir", "read"} => c.base \in Task /\ c.cur \in DOMAIN c.todo
  /\ c.op = "claimBusy" /\ c.at \in {"listLock", "readdir", "read"} => DOMAIN c.todo = {}
  /\ c.op = "unassign" /\ c.at \notin {"idle", "dead"} =>
       /\ c.agent \in Procs
       /\ \A i \in DOMAIN c.todo : c.todo[i] = [owner |-> Nobody, status |-> "pending"]
       /\ c.at \in {"readdir", "read"} => DOMAIN c.todo = {}
  /\ c.op \in {"delete", "block"} => \A i \in DOMAIN c.todo : "owner" \notin DOMAIN c.todo[i]
  /\ c.op = "update" => \A i \in DOMAIN c.todo : c.todo[i] \in Changes

Shapes == \A p \in Procs : PointsOf(call[p]) /\ Planned(p, call[p])

(* A process only makes the calls of its scenario.                         *)
MakesOwnCalls ==
  \A p \in Procs : At(p, "idle") \/ At(p, "dead") \/ call[p].op \in calls[p].ops

-----------------------------------------------------------------------------
(* The ids that have been given out.                                       *)

Given(i) == made[i] >= 1
Used(i) == Given(i) \/ file[i] # Gone

(* No scenario lets tasks be deleted beside a creation.                    *)
Apart == \A p, q \in Procs : ~ ("create" \in calls[p].ops /\ "delete" \in calls[q].ops)
Creating == \E p \in Procs : "create" \in calls[p].ops

(* Who knows of a task knows one that was created.                         *)
Knows(c) ==
  /\ c.at = "lock" \/ HoldsTask(c) => Given(c.cur)
  /\ \A i \in Ids : c.snap[i] # Gone => Given(i)
  /\ c.op = "unassign" => \A i \in DOMAIN c.todo : Given(i)
KnownAreGiven ==
  /\ \A i \in Ids : file[i] \in Task => Given(i)
  /\ \A i \in Ids : ~ Given(i) => holder[i] = Nobody
  /\ \A p \in Procs : Knows(call[p])

(* The highest id on the disk is at least every id that was given out, and *)
(* a creation or a reset that has looked knows it.                         *)
HighestOnDisk ==
  Creating => \A i \in Ids : Given(i) => i <= mark \/ (\E j \in Ids : i <= j /\ file[j] # Gone)

Looked(c) ==
  /\ c.at \in {"scan", "open"} =>
       /\ "mark" \notin c.scan => mark <= c.high
       /\ "files" \notin c.scan => \A i \in Ids : Used(i) => i <= c.high \/ i <= mark
  /\ c.at = "open" => c.scan = {}
  /\ c.at = "fill" => ~ Given(c.id) /\ file[c.id] # Gone
  /\ c.op = "reset" /\ c.at \in {"mark", "markOpen", "markFill"} =>
       /\ c.high \in Ids /\ file[c.high] # Gone
       /\ \A i \in Ids : Used(i) => i <= c.high \/ (c.at = "mark" /\ i <= mark)
  /\ c.op = "reset" /\ c.at \in {"readdir", "sweep"} => \A i \in Ids : Used(i) => i <= mark
KnowsHighest == Creating => \A p \in Procs : Looked(call[p])

Sections == Types /\ Shapes /\ LocksExclude /\ MakesOwnCalls
Disk == KnownAreGiven /\ HighestOnDisk /\ KnowsHighest /\ UniqueIds /\ WriteIsCurrent
FilesInv == Sections /\ Apart /\ Disk

-----------------------------------------------------------------------------
(* Who has a task.                                                         *)

(* All claims take the same lock.                                          *)
OneWayToClaim == \A p, q \in Procs : ~ ("claim" \in calls[p].ops /\ "claimBusy" \in calls[q].ops)
KeepsOwner == \A u \in Changes : "owner" \notin DOMAIN u
(* Nobody reassigns beside an unassignment.                                *)
OneUnassigner ==
  \A p \in Procs : "unassign" \in calls[p].ops =>
    KeepsOwner /\ \A q \in Procs : "unassign" \in calls[q].ops => q = p

(* Every copy of the task i that is in the file, or will be, has an owner  *)
(* in S.                                                                   *)
OwnedBy(i, S) ==
  /\ file[i] \in Task => file[i].owner \in S
  /\ \A q \in Procs : Writing(call[q]) /\ call[q].cur = i => call[q].base.owner \in S

HolderOwns == \A i \in Ids : holder[i] # Nobody => OwnedBy(i, {holder[i]})

(* A claim that has looked at its task.                                    *)
Decided(c) ==
  \/ c.op = "claim" /\ c.at \in {"readdir", "read", "reread", "write", "refill"}
  \/ c.op = "claimBusy" /\ (DOMAIN c.todo # {} \/ (c.snap[c.id] # Gone /\ c.snap[c.id].owner \in {Nobody, c.agent}))
ClaimsStand ==
  \A p \in Procs : Decided(call[p]) =>
    /\ holder[call[p].id] \in {Nobody, p}
    /\ (KeepsOwner \/ call[p].op = "claim") => OwnedBy(call[p].id, {Nobody, p})

Takes(c, i) == i \in DOMAIN c.todo \/ (c.snap[i] # Gone /\ c.snap[i].owner = c.agent)
UnassignsStand ==
  \A p \in Procs : call[p].op = "unassign" =>
    \A i \in Ids : Takes(call[p], i) => OwnedBy(i, {call[p].agent})

(* A claim that holds the lock of its task does not find it in the middle  *)
(* of a write.                                                             *)
UnderLock(c) == c.op = "claim" /\ c.at \in {"readdir", "read", "reread"}
FindsWhole == \A p \in Procs : UnderLock(call[p]) => file[call[p].cur] # Torn

ClaimsInv == FilesInv /\ OneWayToClaim /\ OneUnassigner
             /\ HolderOwns /\ ClaimsStand /\ UnassignsStand /\ FindsWhole

-----------------------------------------------------------------------------
(* Types.                                                                  *)

LEMMA TypesOK == Types => TypeOK
<1> SUFFICES ASSUME Types, NEW p \in Procs
             PROVE /\ [f \in DOMAIN Resting \ {"todo"} |-> call[p][f]] \in Calls
                   /\ DOMAIN call[p].todo \subseteq Ids
  BY DEF Types, TypeOK, Owners
<1>1. call[p] \in CallType
  BY DEF Types
<1>2. DOMAIN call[p].todo \subseteq Ids
  BY <1>1 DEF CallType, Todos
<1>3. DOMAIN Resting \ {"todo"} = {"op", "at", "id", "other", "agent", "scan", "high", "left", "cur", "base", "snap"}
  BY DEF Resting
<1>4. [f \in DOMAIN Resting \ {"todo"} |-> call[p][f]] \in Calls
  BY <1>1, <1>3 DEF CallType, Calls, Owners
<1> QED BY <1>2, <1>4

LEMMA MergeTask ==
  ASSUME NEW t \in Task, NEW u \in Patches \ Changes
  PROVE  Merge(t, u) \in Task
  BY DEF Merge, Task, Patches, Owners
LEMMA MergeChange ==
  ASSUME NEW t \in Task, NEW u \in Changes
  PROVE  Merge(t, u) \in Task
<1>1. \A f \in DOMAIN u : \E r \in Task : f \in DOMAIN r /\ u[f] = r[f]
  BY ChangesAssumption
<1> QED BY <1>1 DEF Merge, Task

\* A step of p changes the call of p alone.
Became(p, c) == call' = [call EXCEPT ![p] = c]

LEMMA RestingType == Resting \in CallType
<1>1. [i \in {} |-> {}] \in [{} -> Patches] /\ {} \in SUBSET Ids
  OBVIOUS
<1>2. [i \in {} |-> {}] \in Todos
  BY <1>1 DEF Todos
<1> QED BY <1>2, BoundsAssumption DEF Resting, CallType, Ops, Points, Owners, Ids

LEMMA RestingSnap == \A i \in Ids : Resting.snap[i] = Gone
  BY DEF Resting

LEMMA RestingShape ==
  ASSUME NEW p, NEW c \in {Resting, [Resting EXCEPT !.at = "dead"]}
  PROVE  c \in CallType /\ PointsOf(c) /\ Planned(p, c)
<1>1. c \in CallType
  BY RestingType DEF CallType, Points
<1>2. c.at \in {"idle", "dead"} /\ c.op = "update" /\ DOMAIN c.todo = {} /\ \A i \in Ids : c.snap[i] = Gone
  BY DEF Resting
<1>3. PointsOf(c) /\ Planned(p, c)
  BY <1>2 DEF PointsOf, Planned, Writing
<1> QED BY <1>1, <1>3

(* A step of p is one of the call of p alone, and the call has its shape.   *)
Moves(p) ==
  /\ call' \in [Procs -> CallType] /\ Shapes'
  /\ \A q \in Procs \ {p} : call'[q] = call[q]

LEMMA ShapesLift ==
  ASSUME Types, Shapes, NEW p \in Procs, NEW c \in CallType, Became(p, c),
         PointsOf(c), Planned(p, c)
  PROVE  Moves(p) /\ call'[p] = c
  BY DEF Types, Shapes, Became, Moves

LEMMA EndShape ==
  ASSUME Types, Shapes, NEW p \in Procs, Finish(p)
  PROVE  Moves(p) /\ call'[p] = Resting
<1>1. Became(p, Resting)
  BY DEF Finish, Became
<1> QED BY <1>1, RestingShape, ShapesLift

LEMMA CrashShape ==
  ASSUME Types, Shapes, NEW p \in Procs, Crash(p)
  PROVE  Moves(p) /\ call'[p] = [Resting EXCEPT !.at = "dead"]
<1>1. Became(p, [Resting EXCEPT !.at = "dead"])
  BY DEF Crash, Became
<1> QED BY <1>1, RestingShape, ShapesLift

LEMMA BeginShape ==
  ASSUME Types, Shapes, NEW p \in Procs, NEW c \in CallType, Begin(p, c),
         PointsOf(c), Planned(p, c)
  PROVE  Moves(p) /\ call'[p] = c
<1>1. Became(p, c)
  BY DEF Begin, Became
<1> QED BY <1>1, ShapesLift

\* A step that only goes on.
LEMMA GotoShape ==
  ASSUME Types, Shapes, NEW p \in Procs, NEW point \in Points, Goto(p, point),
         PointsOf([call[p] EXCEPT !.at = point]),
         Planned(p, [call[p] EXCEPT !.at = point])
  PROVE  Moves(p) /\ call'[p] = [call[p] EXCEPT !.at = point]
<1>1. Became(p, [call[p] EXCEPT !.at = point])
  BY DEF Goto, Became, Types
<1>2. [call[p] EXCEPT !.at = point] \in CallType
  BY DEF Types, CallType
<1> QED BY <1>1, <1>2, ShapesLift

LEMMA LockListShape ==
  ASSUME Types, Shapes, NEW p \in Procs, LockList(p)
  PROVE  Moves(p) /\ call'[p] = [call[p] EXCEPT !.at = AfterListLock(call[p].op)]
<1> DEFINE c == [call[p] EXCEPT !.at = AfterListLock(call[p].op)]
<1>2. call[p] \in CallType /\ At(p, "listLock") /\ PointsOf(call[p]) /\ Planned(p, call[p])
  BY DEF Types, Shapes, LockList
<1>3. AfterListLock(call[p].op) \in {"scan", "highest", "readdir"}
  BY <1>2 DEF At, PointsOf, AfterListLock, CallType
<1>4. PointsOf(c) /\ Planned(p, c)
  BY <1>2, <1>3 DEF CallType, PointsOf, Planned, AfterListLock, At, Points, Writing
<1> QED BY <1>3, <1>4, GotoShape DEF LockList, Points

LEMMA LockTaskShape ==
  ASSUME Types, Shapes, NEW p \in Procs, LockTask(p)
  PROVE  Moves(p) /\ call'[p] = [call[p] EXCEPT !.at = AfterTaskLock(call[p].op)]
<1> DEFINE c == [call[p] EXCEPT !.at = AfterTaskLock(call[p].op)]
<1>2. call[p] \in CallType /\ At(p, "lock") /\ PointsOf(call[p]) /\ Planned(p, call[p])
  BY DEF Types, Shapes, LockTask
<1>4. PointsOf(c) /\ Planned(p, c)
  BY <1>2 DEF CallType, PointsOf, Planned, AfterTaskLock, At, Points, Writing
<1> QED BY <1>4, GotoShape DEF LockTask, Points, AfterTaskLock

-----------------------------------------------------------------------------
(* The calls begin with their shape.                                       *)

LEMMA OneTodo ==
  ASSUME NEW i \in Ids, NEW u \in Patches
  PROVE  [j \in {i} |-> u] \in Todos
<1>1. [j \in {i} |-> u] \in [{i} -> Patches] /\ {i} \in SUBSET Ids
  OBVIOUS
<1> QED BY <1>1 DEF Todos

LEMMA OwnerPatch == \A o \in Owners : [owner |-> o] \in Patches
  BY DEF Patches

LEMMA CallShape ==
  ASSUME Types, Shapes, NEW p \in Procs, Call(p)
  PROVE  /\ Moves(p)
         /\ \E op \in calls[p].ops :
              /\ call'[p].op = op
              /\ call'[p].at \in {"listLock", "update", "mark", "read", "check", "readdir"}
              /\ call'[p].at = "read" => op = "block"
              /\ call'[p].at = "readdir" => op = "unassign"
              /\ call'[p].at = "mark" => op = "delete"
              /\ call'[p].at = "update" => op = "update"
              /\ op = "claimBusy" => DOMAIN call'[p].todo = {}
              /\ op = "unassign" => DOMAIN call'[p].todo = {}
              /\ call'[p].snap = Resting.snap
<1>r. Resting \in CallType /\ Resting.todo = [i \in {} |-> {}] /\ DOMAIN Resting.todo = {}
  BY RestingType DEF Resting
<1>1. CASE CreateTask(p)
  <2> DEFINE c == [Resting EXCEPT !.op = "create", !.at = "listLock", !.scan = {"files", "mark"}]
  <2>1. c \in CallType /\ c.at = "listLock" /\ c.op = "create" /\ c.scan = {"files", "mark"} /\ c.snap = Resting.snap
    BY <1>r DEF CallType, Ops, Points
  <2>2. PointsOf(c) /\ Planned(p, c)
    BY <2>1, RestingSnap DEF PointsOf, Planned, Writing
  <2> QED BY <1>1, <2>1, <2>2, BeginShape DEF CreateTask, Begin
<1>2. CASE ResetTaskList(p)
  <2> DEFINE c == [Resting EXCEPT !.op = "reset", !.at = "listLock"]
  <2>1. c \in CallType /\ c.at = "listLock" /\ c.op = "reset" /\ c.snap = Resting.snap
    BY <1>r DEF CallType, Ops, Points
  <2>2. PointsOf(c) /\ Planned(p, c)
    BY <2>1, RestingSnap DEF PointsOf, Planned, Writing
  <2> QED BY <1>2, <2>1, <2>2, BeginShape DEF ResetTaskList, Begin
<1>3. CASE UpdateTask(p)
  <2>0. PICK i \in Ids, patch \in Changes :
         Begin(p, [Resting EXCEPT !.op = "update", !.at = "update", !.todo = [j \in {i} |-> patch]])
    BY <1>3 DEF UpdateTask
  <2> DEFINE t == [j \in {i} |-> patch]
             c == [Resting EXCEPT !.op = "update", !.at = "update", !.todo = t]
  <2>a. t \in Todos
    BY OneTodo DEF Patches
  <2>1. c \in CallType /\ c.at = "update" /\ c.op = "update" /\ c.todo = t /\ c.snap = Resting.snap
    BY <1>r, <2>a DEF CallType, Ops, Points
  <2>2. PointsOf(c) /\ Planned(p, c)
    BY <2>1, RestingSnap DEF PointsOf, Planned, Writing, Updating
  <2> QED BY <2>0, <2>1, <2>2, BeginShape DEF Begin
<1>4. CASE DeleteTask(p)
  <2>0. PICK i \in Ids : Begin(p, [Resting EXCEPT !.op = "delete", !.at = "mark", !.id = i, !.high = i])
    BY <1>4 DEF DeleteTask
  <2> DEFINE c == [Resting EXCEPT !.op = "delete", !.at = "mark", !.id = i, !.high = i]
  <2>a. i \in 0 .. MaxId
    BY BoundsAssumption DEF Ids
  <2>1. c \in CallType /\ c.at = "mark" /\ c.op = "delete" /\ c.todo = Resting.todo /\ c.snap = Resting.snap
    BY <1>r, <2>a DEF CallType, Ops, Points
  <2>2. PointsOf(c) /\ Planned(p, c)
    BY <1>r, <2>1, RestingSnap DEF PointsOf, Planned, Writing
  <2> QED BY <2>0, <2>1, <2>2, BeginShape DEF Begin
<1>5. CASE BlockTask(p)
  <2>0. PICK a, b \in Ids : Begin(p, [Resting EXCEPT !.op = "block", !.at = "read", !.id = a,
                                                     !.other = b, !.left = {a, b}])
    BY <1>5 DEF BlockTask
  <2> DEFINE c == [Resting EXCEPT !.op = "block", !.at = "read", !.id = a, !.other = b, !.left = {a, b}]
  <2>1. c \in CallType /\ c.at = "read" /\ c.op = "block" /\ c.todo = Resting.todo /\ c.snap = Resting.snap
    BY <1>r DEF CallType, Ops, Points
  <2>2. PointsOf(c) /\ Planned(p, c)
    BY <1>r, <2>1, RestingSnap DEF PointsOf, Planned, Writing
  <2> QED BY <2>0, <2>1, <2>2, BeginShape DEF Begin
<1>6. CASE ClaimTask(p)
  <2>0. PICK i \in Ids : Begin(p, [Resting EXCEPT !.op = "claim", !.at = "check", !.id = i,
                 !.cur = i, !.agent = p, !.todo = [j \in {i} |-> [owner |-> p]]])
    BY <1>6 DEF ClaimTask
  <2> DEFINE t == [j \in {i} |-> [owner |-> p]]
             c == [Resting EXCEPT !.op = "claim", !.at = "check", !.id = i,
                 !.cur = i, !.agent = p, !.todo = t]
  <2>a. t \in Todos /\ p \in Owners
    BY OneTodo, OwnerPatch DEF Owners
  <2>1. c \in CallType /\ c.at = "check" /\ c.op = "claim" /\ c.todo = t /\ c.id = i /\ c.cur = i /\ c.agent = p
        /\ c.snap = Resting.snap
    BY <1>r, <2>a DEF CallType, Ops, Points
  <2>2. PointsOf(c) /\ Planned(p, c)
    BY <2>1, RestingSnap DEF PointsOf, Planned, Writing, Updating
  <2> QED BY <2>0, <2>1, <2>2, BeginShape DEF Begin
<1>7. CASE ClaimTaskBusy(p)
  <2>0. PICK i \in Ids : Begin(p, [Resting EXCEPT !.op = "claimBusy", !.at = "check", !.id = i,
                             !.cur = i, !.agent = p])
    BY <1>7 DEF ClaimTaskBusy
  <2> DEFINE c == [Resting EXCEPT !.op = "claimBusy", !.at = "check", !.id = i,
                             !.cur = i, !.agent = p]
  <2>1. c \in CallType /\ c.at = "check" /\ c.op = "claimBusy" /\ c.todo = Resting.todo
        /\ c.id = i /\ c.cur = i /\ c.agent = p /\ c.snap = Resting.snap
    BY <1>r DEF CallType, Ops, Points, Owners
  <2>2. PointsOf(c) /\ Planned(p, c)
    BY <1>r, <2>1, RestingSnap DEF PointsOf, Planned, Writing, Updating
  <2> QED BY <1>r, <2>0, <2>1, <2>2, BeginShape DEF Begin
<1>8. CASE UnassignTeammateTasks(p)
  <2>0. PICK a \in Procs \ {p} : Begin(p, [Resting EXCEPT !.op = "unassign", !.at = "readdir", !.agent = a])
    BY <1>8 DEF UnassignTeammateTasks
  <2> DEFINE c == [Resting EXCEPT !.op = "unassign", !.at = "readdir", !.agent = a]
  <2>1. c \in CallType /\ c.at = "readdir" /\ c.op = "unassign" /\ c.todo = Resting.todo
        /\ c.agent = a /\ c.snap = Resting.snap
    BY <1>r DEF CallType, Ops, Points, Owners
  <2>2. PointsOf(c) /\ Planned(p, c)
    BY <1>r, <2>1, RestingSnap DEF PointsOf, Planned, Writing, Updating
  <2> QED BY <1>r, <2>0, <2>1, <2>2, BeginShape DEF Begin
<1> QED BY <1>1, <1>2, <1>3, <1>4, <1>5, <1>6, <1>7, <1>8 DEF Call

-----------------------------------------------------------------------------
(* createTask.                                                             *)

LEMMA LeastNumber ==
  ASSUME NEW S, S \subseteq Nat, S # {}
  PROVE  \E m \in S : \A n \in S : m <= n
<1>1. PICK R : IsWellFoundedOn(R, Nat) /\ \A x, y \in Nat : y < x => <<y, x>> \in R
  <2>1. \A x, y \in Nat : y < x => <<y, x>> \in OpToRel(<, Nat)
    BY DEF OpToRel
  <2> QED BY <2>1, NatLessThanWellFounded, Zenon
<1>2. PICK m \in S : \A n \in S : ~ (<<n, m>> \in R)
  BY <1>1, WFMin
<1>3. \A n \in S : ~ (n < m)
  BY <1>1, <1>2
<1> QED BY <1>3

\* The highest number of a set of ids is one of it, none is higher.
LEMMA HighestIs ==
  ASSUME NEW S \in SUBSET Ids
  PROVE  /\ Highest(S) \in 0 .. MaxId
         /\ \A i \in S : i <= Highest(S)
         /\ S = {} <=> Highest(S) = 0
         /\ S # {} => Highest(S) \in S
<1>0. MaxId \in Nat
  BY BoundsAssumption
<1>1. CASE S = {}
  BY <1>0, <1>1 DEF Highest
<1>2. CASE S # {}
  <2> DEFINE Low == {n \in Nat : MaxId - n \in S}
  <2>1. PICK i \in S : TRUE
    BY <1>2
  <2>2. MaxId - i \in Low
    BY <1>0, <2>1 DEF Ids
  <2>3. PICK m \in Low : \A n \in Low : m <= n
    <3>1. Low \subseteq Nat /\ Low # {}
      BY <2>2
    <3> HIDE DEF Low
    <3> QED BY <3>1, LeastNumber
  <2>4. \A j \in S : j <= MaxId - m
    <3> TAKE j \in S
    <3>1. MaxId - j \in Nat /\ MaxId - (MaxId - j) = j
      BY <1>0 DEF Ids
    <3>2. MaxId - j \in Low
      BY <3>1
    <3> QED BY <1>0, <2>3, <3>1, <3>2
  <2>5. \E h \in S : \A j \in S : j <= h
    BY <2>3, <2>4
  <2>6. Highest(S) \in S /\ \A j \in S : j <= Highest(S)
    BY <1>2, <2>5 DEF Highest
  <2>7. Highest(S) \in 1 .. MaxId
    BY <2>6 DEF Ids
  <2> QED BY <1>0, <1>2, <2>6, <2>7
<1> QED BY <1>1, <1>2

LEMMA PresentIds == Present \in SUBSET Ids /\ Highest(Present) \in 0 .. MaxId
<1>1. Present \in SUBSET Ids
  BY DEF Present
<1> QED BY <1>1, HighestIs

LEMMA ScannedShape ==
  ASSUME Types, Shapes, NEW p \in Procs, NEW what \in {"files", "mark"},
         NEW value \in 0 .. MaxId, Scanned(p, what, value)
  PROVE  /\ Moves(p)
         /\ call'[p].at = IF call[p].scan = {what} THEN "open" ELSE "scan"
         /\ call'[p].op = "create" /\ call'[p].snap = call[p].snap
         /\ call'[p].scan = call[p].scan \ {what}
         /\ call'[p].high = IF value > call[p].high THEN value ELSE call[p].high
<1> DEFINE h == IF value > call[p].high THEN value ELSE call[p].high
           sc == call[p].scan \ {what}
           a == IF call[p].scan = {what} THEN "open" ELSE "scan"
           c == [call[p] EXCEPT !.high = h, !.scan = sc, !.at = a]
<1>1. call[p] \in CallType /\ At(p, "scan") /\ PointsOf(call[p]) /\ Planned(p, call[p]) /\ call \in [Procs -> CallType]
  BY DEF Types, Shapes, Scanned
<1>2. h \in 0 .. MaxId /\ sc \in SUBSET {"files", "mark"} /\ a \in {"open", "scan"}
  BY <1>1 DEF CallType
<1>3. Became(p, c)
  BY <1>1 DEF Scanned, Became
<1> HIDE DEF h, sc, a
<1>4. c \in CallType /\ c.at = a /\ c.op = "create" /\ c.high = h /\ c.scan = sc /\ c.todo = call[p].todo
      /\ c.snap = call[p].snap
  BY <1>1, <1>2 DEF CallType, Points, PointsOf, At
<1>5. PointsOf(c) /\ Planned(p, c)
  BY <1>1, <1>2, <1>4 DEF PointsOf, Planned, Writing
<1>6. Moves(p) /\ call'[p] = c
  BY <1>3, <1>4, <1>5, ShapesLift
<1> QED BY <1>4, <1>6 DEF h, sc, a

LEMMA CreateOpenShape ==
  ASSUME Types, Shapes, NEW p \in Procs, CreateOpen(p)
  PROVE  /\ Moves(p)
         /\ call'[p] = [call[p] EXCEPT !.at = "fill", !.id = NextId(call[p].high)]
<1> DEFINE c == [call[p] EXCEPT !.at = "fill", !.id = NextId(call[p].high)]
<1>1. call[p] \in CallType /\ At(p, "open") /\ PointsOf(call[p]) /\ Planned(p, call[p])
      /\ call \in [Procs -> CallType] /\ NextId(call[p].high) \in Ids
  BY DEF Types, Shapes, CreateOpen
<1>2. Became(p, c)
  BY <1>1 DEF CreateOpen, Became
<1>3. c \in CallType /\ c.at = "fill" /\ c.op = "create" /\ c.todo = call[p].todo
  BY <1>1 DEF CallType, Points, PointsOf, At
<1>4. PointsOf(c) /\ Planned(p, c)
  BY <1>1, <1>3 DEF PointsOf, Planned, Writing
<1> QED BY <1>2, <1>3, <1>4, ShapesLift

-----------------------------------------------------------------------------
(* The mark, and what is removed.                                          *)

LEMMA FindHighestShape ==
  ASSUME Types, Shapes, NEW p \in Procs, FindHighest(p)
  PROVE  /\ Moves(p)
         /\ call'[p] = [call[p] EXCEPT !.high = Highest(Present),
                           !.at = IF Highest(Present) > 0 THEN "mark" ELSE "readdir"]
<1> DEFINE a == IF Highest(Present) > 0 THEN "mark" ELSE "readdir"
           c == [call[p] EXCEPT !.high = Highest(Present), !.at = a]
<1>1. call[p] \in CallType /\ At(p, "highest") /\ PointsOf(call[p]) /\ Planned(p, call[p])
      /\ call \in [Procs -> CallType] /\ Highest(Present) \in 0 .. MaxId
  BY PresentIds DEF Types, Shapes, FindHighest
<1>2. Became(p, c)
  BY <1>1 DEF FindHighest, Became
<1>3. c \in CallType /\ c.at \in {"mark", "readdir"} /\ c.op = "reset" /\ c.todo = call[p].todo
  BY <1>1 DEF CallType, Points, PointsOf, At
<1>4. PointsOf(c) /\ Planned(p, c)
  BY <1>1, <1>3 DEF PointsOf, Planned, Writing
<1> QED BY <1>2, <1>3, <1>4, ShapesLift

LEMMA MarkShape ==
  ASSUME Types, Shapes, NEW p \in Procs, ReadMark(p) \/ MarkOpen(p) \/ MarkFill(p) \/ Unlink(p)
  PROVE  /\ Moves(p)
         /\ \E a \in {"markOpen", "markFill", "readdir", "unlink"} :
              call'[p] = [call[p] EXCEPT !.at = a]
<1>1. call[p] \in CallType /\ PointsOf(call[p]) /\ Planned(p, call[p])
      /\ call[p].at \in {"mark", "markOpen", "markFill", "unlink"}
  BY DEF Types, Shapes, ReadMark, MarkOpen, MarkFill, Unlink, At
<1>2. call[p].op \in {"reset", "delete"} /\ (call[p].at = "unlink" => call[p].op = "delete")
  BY <1>1 DEF PointsOf
<1>3. PICK a \in {"markOpen", "markFill", "readdir", "unlink"} :
        Goto(p, a) /\ (a = "unlink" => call[p].op = "delete")
  BY <1>1, <1>2 DEF ReadMark, MarkOpen, MarkFill, Unlink, AfterMark
<1> DEFINE c == [call[p] EXCEPT !.at = a]
<1>4. c.at = a /\ c.op = call[p].op /\ c.todo = call[p].todo
  BY <1>1 DEF CallType
<1>5. PointsOf(c) /\ Planned(p, c)
  BY <1>1, <1>2, <1>3, <1>4 DEF PointsOf, Planned, Writing
<1> QED BY <1>3, <1>5, GotoShape DEF Points

LEMMA SweepShape ==
  ASSUME Types, Shapes, NEW p \in Procs, Sweep(p)
  PROVE  /\ Moves(p) /\ call[p].op = "reset"
         /\ \E i \in call[p].left : /\ Remove(i)
                                    /\ call'[p] = [call[p] EXCEPT !.left = @ \ {i}]
<1>1. PICK i \in call[p].left : Remove(i) /\ call' = [call EXCEPT ![p].left = @ \ {i}]
  BY DEF Sweep
<1> DEFINE c == [call[p] EXCEPT !.left = @ \ {i}]
<1>2. call[p] \in CallType /\ At(p, "sweep") /\ PointsOf(call[p]) /\ Planned(p, call[p])
      /\ call \in [Procs -> CallType]
  BY DEF Types, Shapes, Sweep
<1>3. Became(p, c)
  BY <1>1, <1>2 DEF Became
<1>4. c \in CallType /\ c.at = "sweep" /\ call[p].op = "reset" /\ c.op = "reset" /\ c.todo = call[p].todo
  BY <1>2 DEF CallType, PointsOf, At
<1>5. PointsOf(c) /\ Planned(p, c)
  BY <1>2, <1>4 DEF PointsOf, Planned, Writing
<1> QED BY <1>1, <1>3, <1>4, <1>5, ShapesLift

-----------------------------------------------------------------------------
(* The lists, and what is decided on them.                                 *)

LEMMA ReadDirShape ==
  ASSUME Types, Shapes, NEW p \in Procs, ReadDir(p)
  PROVE  /\ Moves(p)
         /\ call'[p] = [call[p] EXCEPT !.left = Present,
                           !.at = IF call[p].op = "reset" THEN "sweep" ELSE "read"]
<1> DEFINE a == IF call[p].op = "reset" THEN "sweep" ELSE "read"
           c == [call[p] EXCEPT !.left = Present, !.at = a]
<1>1. call[p] \in CallType /\ At(p, "readdir") /\ PointsOf(call[p]) /\ Planned(p, call[p])
      /\ call \in [Procs -> CallType] /\ Present \in SUBSET Ids
  BY PresentIds DEF Types, Shapes, ReadDir
<1>2. Became(p, c)
  BY <1>1 DEF ReadDir, Became
<1>3. c \in CallType /\ c.at = a /\ c.op = call[p].op /\ c.todo = call[p].todo
      /\ c.agent = call[p].agent /\ c.cur = call[p].cur /\ c.id = call[p].id /\ c.base = call[p].base
  BY <1>1 DEF CallType, Points
<1>4. PointsOf(c) /\ Planned(p, c)
  BY <1>1, <1>3 DEF PointsOf, Planned, Writing, At
<1> QED BY <1>2, <1>3, <1>4, ShapesLift

LEMMA ReadOneShape ==
  ASSUME Types, Shapes, NEW p \in Procs, ReadOne(p)
  PROVE  /\ Moves(p)
         /\ call[p].op \in {"block", "claim", "claimBusy", "delete", "unassign"}
         /\ \E i \in Ids :
              call'[p] = [call[p] EXCEPT !.left = @ \ {i}, !.snap[i] = Read(file[i])]
<1>1. call[p] \in CallType /\ At(p, "read") /\ PointsOf(call[p]) /\ Planned(p, call[p])
      /\ call \in [Procs -> CallType] /\ call[p].left \in SUBSET Ids
  BY DEF Types, Shapes, ReadOne, CallType
<1>2. PICK i \in call[p].left : call' = [call EXCEPT ![p].left = @ \ {i}, ![p].snap[i] = Read(file[i])]
  BY DEF ReadOne
<1> DEFINE c == [call[p] EXCEPT !.left = @ \ {i}, !.snap[i] = Read(file[i])]
<1>3. Became(p, c)
  BY <1>1, <1>2 DEF Became
<1>4. Read(file[i]) \in Task \cup {Gone}
  BY <1>1 DEF Types, Files, Read
<1>5. c \in CallType /\ c.at = "read" /\ c.op = call[p].op /\ c.todo = call[p].todo
      /\ c.agent = call[p].agent /\ c.cur = call[p].cur /\ c.id = call[p].id /\ c.base = call[p].base
  BY <1>1, <1>4 DEF CallType, At
<1>6. PointsOf(c) /\ Planned(p, c)
  BY <1>1, <1>5 DEF PointsOf, Planned, Writing, At
<1>7. call[p].op \in {"block", "claim", "claimBusy", "delete", "unassign"}
  BY <1>1 DEF PointsOf, At
<1> QED BY <1>1, <1>3, <1>5, <1>6, <1>7, ShapesLift

\* A call that plans its updates.
LEMMA PlanShape ==
  ASSUME Types, Shapes, NEW p \in Procs, NEW todo \in Todos, Plan(p, todo),
         call[p].at = "read", call[p].op \in Updating \ {"update", "claim"},
         call[p].op = "claimBusy" =>
           /\ DOMAIN todo \subseteq {call[p].id}
           /\ \A i \in DOMAIN todo : todo[i] = [owner |-> p],
         call[p].op = "unassign" =>
           \A i \in DOMAIN todo : todo[i] = [owner |-> Nobody, status |-> "pending"],
         call[p].op \in {"delete", "block"} => \A i \in DOMAIN todo : "owner" \notin DOMAIN todo[i]
  PROVE  /\ Moves(p)
         /\ call'[p] = [call[p] EXCEPT !.todo = todo, !.snap = Resting.snap, !.at = "update"]
<1> DEFINE c == [call[p] EXCEPT !.todo = todo, !.snap = Resting.snap, !.at = "update"]
<1>1. call[p] \in CallType /\ PointsOf(call[p]) /\ Planned(p, call[p])
      /\ call \in [Procs -> CallType] /\ Resting.snap \in [Ids -> Task \cup {Gone}]
  BY RestingType DEF Types, Shapes, CallType
<1>2. Became(p, c)
  BY <1>1 DEF Plan, Became
<1>3. c \in CallType /\ c.at = "update" /\ c.op = call[p].op /\ c.todo = todo /\ c.snap = Resting.snap
      /\ c.agent = call[p].agent /\ c.id = call[p].id
  BY <1>1 DEF CallType, Points
<1>4. PointsOf(c) /\ Planned(p, c)
  BY <1>1, <1>3, RestingSnap DEF PointsOf, Planned, Writing, At, Updating
<1> QED BY <1>2, <1>3, <1>4, ShapesLift

LEMMA SnapType ==
  ASSUME Types, NEW p \in Procs
  PROVE  /\ call[p].snap \in [Ids -> Task \cup {Gone}] /\ call[p].id \in Ids /\ call[p].other \in Ids
         /\ call[p].agent \in Owners
  BY DEF Types, CallType

LEMMA PlanCascadeShape ==
  ASSUME Types, Shapes, NEW p \in Procs, PlanCascade(p)
  PROVE  Moves(p) /\ \E todo \in Todos :
           call'[p] = [call[p] EXCEPT !.todo = todo, !.snap = Resting.snap, !.at = "update"]
<1> DEFINE snap == call[p].snap
           mention == {i \in Ids : snap[i] # Gone /\ call[p].id \in snap[i].blocks \cup snap[i].blockedBy}
           todo == [i \in mention |-> Without(snap[i], call[p].id)]
<1>1. Plan(p, todo) /\ call[p].at = "read" /\ call[p].op = "delete"
  BY DEF PlanCascade, Listed, At
<1>2. \A i \in mention : /\ Without(snap[i], call[p].id) \in Patches
                         /\ "owner" \notin DOMAIN Without(snap[i], call[p].id)
  BY SnapType DEF Without, Patches, Task
<1>3. todo \in [mention -> Patches]
  BY <1>2
<1>4. todo \in Todos /\ \A i \in DOMAIN todo : "owner" \notin DOMAIN todo[i]
  <2>1. mention \in SUBSET Ids
    OBVIOUS
  <2> QED BY <1>2, <1>3, <2>1 DEF Todos
<1> HIDE DEF todo
<1> QED BY <1>1, <1>4, PlanShape DEF Updating

LEMMA PlanUnassignShape ==
  ASSUME Types, Shapes, NEW p \in Procs, PlanUnassign(p)
  PROVE  Moves(p) /\ call[p].op = "unassign" /\ \E todo \in Todos :
           /\ call'[p] = [call[p] EXCEPT !.todo = todo, !.snap = Resting.snap, !.at = "update"]
           /\ \A i \in DOMAIN todo : /\ i \in Ids /\ call[p].snap[i] # Gone
                                     /\ call[p].snap[i].owner = call[p].agent
<1> DEFINE snap == call[p].snap
           theirs == {j \in Unresolved(snap) : snap[j].owner = call[p].agent}
           todo == [i \in theirs |-> [owner |-> Nobody, status |-> "pending"]]
<1>1. Plan(p, todo) /\ call[p].at = "read" /\ call[p].op = "unassign"
  BY DEF PlanUnassign, Listed, At
<1>2. [owner |-> Nobody, status |-> "pending"] \in Patches
  BY DEF Patches, Owners, Statuses
<1>3. todo \in [theirs -> Patches]
  BY <1>2
<1>4. theirs \in SUBSET Ids /\ \A i \in theirs : snap[i] # Gone
  BY DEF Unresolved
<1>5. todo \in Todos /\ \A i \in DOMAIN todo : todo[i] = [owner |-> Nobody, status |-> "pending"]
  BY <1>3, <1>4 DEF Todos
<1>6. \A i \in DOMAIN todo : i \in Ids /\ snap[i] # Gone /\ snap[i].owner = call[p].agent
  BY <1>4
<1> HIDE DEF todo
<1> QED BY <1>1, <1>5, <1>6, PlanShape DEF Updating

LEMMA PlanBlockShape ==
  ASSUME Types, Shapes, NEW p \in Procs, PlanBlock(p)
  PROVE  /\ Moves(p)
         /\ \/ Finish(p) /\ call'[p] = Resting
            \/ /\ UNCHANGED listLock
               /\ \E todo \in Todos :
                    call'[p] = [call[p] EXCEPT !.todo = todo, !.snap = Resting.snap, !.at = "update"]
<1> DEFINE snap == call[p].snap
           a == call[p].id
           b == call[p].other
           todo == BlockEdge(a, b, snap)
<1>1. call[p].at = "read" /\ call[p].op = "block"
  BY DEF PlanBlock, Listed, At
<1>2. CASE Gone \in {snap[a], snap[b]}
  BY <1>2, EndShape DEF PlanBlock
<1>3. CASE Gone \notin {snap[a], snap[b]}
  <2>1. Plan(p, todo) /\ UNCHANGED listLock
    BY <1>3 DEF PlanBlock
  <2>2. a \in Ids /\ b \in Ids /\ snap[a] \in Task /\ snap[b] \in Task
    BY <1>3, SnapType
  <2> DEFINE D == {j \in {a, b} : \/ j = a /\ b \notin snap[a].blocks
                                  \/ j = b /\ a \notin snap[b].blockedBy}
  <2>3. DOMAIN todo = D /\ D \in SUBSET Ids
    BY <2>2 DEF BlockEdge
  <2>4. \A i \in D : todo[i] \in [blocks: SUBSET Ids] \cup [blockedBy: SUBSET Ids]
    BY <2>2 DEF BlockEdge, Task
  <2>5. todo \in [D -> Patches]
    BY <2>3, <2>4 DEF BlockEdge, Patches
  <2>6. todo \in Todos /\ \A i \in DOMAIN todo : "owner" \notin DOMAIN todo[i]
    BY <2>3, <2>4, <2>5 DEF Todos
  <2> HIDE DEF todo
  <2> QED BY <1>1, <2>1, <2>6, PlanShape DEF Updating
<1> QED BY <1>2, <1>3

LEMMA ClaimReadShape ==
  ASSUME Types, Shapes, NEW p \in Procs, ClaimRead(p)
  PROVE  /\ Moves(p) /\ call[p].op = "claim" /\ call[p].at = "claimRead" /\ call[p].cur = call[p].id
         /\ \/ /\ UNCHANGED lockVars
               /\ Claimable(Read(file[call[p].id]), p) /\ file[call[p].id] \in Task
               /\ call'[p] = [call[p] EXCEPT !.base = file[call[p].id], !.at = "readdir"]
            \/ /\ Finish(p) /\ call'[p] = Resting
               /\ taskLock' = [taskLock EXCEPT ![call[p].id] = Nobody]
<1> DEFINE i == call[p].id
           task == Read(file[i])
           c == [call[p] EXCEPT !.base = task, !.at = "readdir"]
<1>1. call[p] \in CallType /\ At(p, "claimRead") /\ PointsOf(call[p]) /\ Planned(p, call[p])
      /\ call \in [Procs -> CallType]
  BY DEF Types, Shapes, ClaimRead
<1>2. call[p].op = "claim" /\ call[p].cur = i
  BY <1>1 DEF PointsOf, Planned, At
<1>3. CASE Claimable(task, p)
  <2>1. call' = [call EXCEPT ![p].base = task, ![p].at = "readdir"] /\ UNCHANGED lockVars
    BY <1>3 DEF ClaimRead
  <2>2. task = file[i] /\ file[i] \in Task
    BY <1>1, <1>3 DEF Claimable, Read, Types, Files, CallType
  <2>3. Became(p, c)
    BY <1>1, <2>1 DEF Became
  <2>4. c \in CallType /\ c.at = "readdir" /\ c.op = "claim" /\ c.todo = call[p].todo
        /\ c.agent = call[p].agent /\ c.cur = call[p].cur /\ c.id = call[p].id /\ c.base = task
    BY <1>1, <1>2, <2>2 DEF CallType, Points
  <2>5. PointsOf(c) /\ Planned(p, c)
    BY <1>1, <1>2, <2>2, <2>4 DEF PointsOf, Planned, Writing, At
  <2> QED BY <1>1, <1>2, <1>3, <2>1, <2>2, <2>3, <2>4, <2>5, ShapesLift DEF At
<1>4. CASE ~ Claimable(task, p)
  BY <1>1, <1>2, <1>4, EndShape DEF ClaimRead, At
<1> QED BY <1>3, <1>4

LEMMA DecideClaimShape ==
  ASSUME Types, Shapes, NEW p \in Procs, DecideClaim(p)
  PROVE  /\ Moves(p) /\ call[p].op = "claim" /\ call[p].at = "read" /\ call[p].cur = call[p].id
         /\ \/ /\ UNCHANGED lockVars
               /\ call'[p] = [call[p] EXCEPT !.snap = Resting.snap, !.at = "reread"]
            \/ /\ Finish(p) /\ call'[p] = Resting
               /\ taskLock' = [taskLock EXCEPT ![call[p].id] = Nobody]
<1> DEFINE c == [call[p] EXCEPT !.snap = Resting.snap, !.at = "reread"]
<1>1. call[p] \in CallType /\ PointsOf(call[p]) /\ Planned(p, call[p])
      /\ call \in [Procs -> CallType] /\ call[p].at = "read" /\ call[p].op = "claim"
      /\ Resting.snap \in [Ids -> Task \cup {Gone}]
  BY RestingType DEF Types, Shapes, DecideClaim, Listed, At, CallType
<1>2. call[p].cur = call[p].id
  BY <1>1 DEF Planned
<1>3. CASE Blockers(call[p].base, call[p].snap) = {}
  <2>1. Became(p, c) /\ UNCHANGED lockVars
    BY <1>1, <1>3 DEF DecideClaim, Became
  <2>2. c \in CallType /\ c.at = "reread" /\ c.op = "claim" /\ c.todo = call[p].todo
        /\ c.agent = call[p].agent /\ c.cur = call[p].cur /\ c.id = call[p].id /\ c.snap = Resting.snap
    BY <1>1, <1>2 DEF CallType, Points
  <2>3. PointsOf(c) /\ Planned(p, c)
    BY <1>1, <1>2, <2>2, RestingSnap DEF PointsOf, Planned, Writing, At, Updating
  <2> QED BY <1>1, <1>2, <2>1, <2>2, <2>3, ShapesLift
<1>4. CASE Blockers(call[p].base, call[p].snap) # {}
  BY <1>1, <1>2, <1>4, EndShape DEF DecideClaim
<1> QED BY <1>3, <1>4

LEMMA DecideBusyShape ==
  ASSUME Types, Shapes, NEW p \in Procs, DecideBusyClaim(p)
  PROVE  /\ Moves(p) /\ call[p].op = "claimBusy" /\ call[p].at = "read"
         /\ \/ /\ UNCHANGED listLock
               /\ Claimable(call[p].snap[call[p].id], p)
               /\ \E todo \in Todos :
                    call'[p] = [call[p] EXCEPT !.todo = todo, !.snap = Resting.snap, !.at = "update"]
            \/ Finish(p) /\ call'[p] = Resting
<1> DEFINE i == call[p].id
           snap == call[p].snap
           todo == [j \in {i} |-> [owner |-> p]]
<1>1. call[p].at = "read" /\ call[p].op = "claimBusy"
  BY DEF DecideBusyClaim, Listed, At
<1>2. CASE /\ Claimable(snap[i], p)
           /\ Blockers(snap[i], snap) = {}
           /\ BusyWith(p, i, snap) = {}
  <2>1. Plan(p, todo) /\ UNCHANGED listLock
    BY <1>2 DEF DecideBusyClaim
  <2>2. todo \in Todos
    BY OneTodo, OwnerPatch, SnapType DEF Owners
  <2>3. DOMAIN todo = {i} /\ \A j \in DOMAIN todo : todo[j] = [owner |-> p]
    OBVIOUS
  <2> HIDE DEF todo
  <2>4. Moves(p) /\ call'[p] = [call[p] EXCEPT !.todo = todo, !.snap = Resting.snap, !.at = "update"]
    BY <1>1, <2>1, <2>2, <2>3, PlanShape DEF Updating
  <2> QED BY <1>1, <1>2, <2>1, <2>2, <2>4
<1>3. CASE ~ (/\ Claimable(snap[i], p)
              /\ Blockers(snap[i], snap) = {}
              /\ BusyWith(p, i, snap) = {})
  BY <1>1, <1>3, EndShape DEF DecideBusyClaim
<1> QED BY <1>2, <1>3

-----------------------------------------------------------------------------
(* updateTask.                                                             *)

LEMMA NextUpdateShape ==
  ASSUME Types, Shapes, NEW p \in Procs, NextUpdate(p)
  PROVE  /\ Moves(p) /\ call[p].at = "update"
         /\ \E i \in DOMAIN call[p].todo : call'[p] = [call[p] EXCEPT !.cur = i, !.at = "check"]
<1>1. call[p] \in CallType /\ At(p, "update") /\ PointsOf(call[p]) /\ Planned(p, call[p])
      /\ call \in [Procs -> CallType] /\ DOMAIN call[p].todo \in SUBSET Ids
  BY DEF Types, Shapes, NextUpdate, CallType, Todos
<1>2. PICK i \in Turn(call[p]) : call' = [call EXCEPT ![p].cur = i, ![p].at = "check"]
  BY DEF NextUpdate
<1>3. i \in DOMAIN call[p].todo /\ i \in Ids
  BY <1>1 DEF Turn
<1> DEFINE c == [call[p] EXCEPT !.cur = i, !.at = "check"]
<1>4. Became(p, c)
  BY <1>1, <1>2 DEF Became
<1>5. c \in CallType /\ c.at = "check" /\ c.op = call[p].op /\ c.todo = call[p].todo
      /\ c.agent = call[p].agent /\ c.cur = i /\ c.id = call[p].id /\ c.base = call[p].base
  BY <1>1, <1>3 DEF CallType, Points
<1>6. PointsOf(c) /\ Planned(p, c)
  BY <1>1, <1>3, <1>5 DEF PointsOf, Planned, Writing, At
<1> QED BY <1>1, <1>3, <1>4, <1>5, <1>6, ShapesLift DEF At

LEMMA DroppedIs ==
  ASSUME NEW c \in CallType
  PROVE  /\ Dropped(c) \in CallType
         /\ Dropped(c).at = "update" /\ Dropped(c).op = c.op /\ Dropped(c).snap = c.snap
         /\ Dropped(c).id = c.id /\ Dropped(c).cur = c.cur /\ Dropped(c).agent = c.agent
         /\ DOMAIN Dropped(c).todo = DOMAIN c.todo \ {c.cur}
         /\ \A i \in DOMAIN Dropped(c).todo : Dropped(c).todo[i] = c.todo[i]
<1> DEFINE D == DOMAIN c.todo \ {c.cur}
           t == [i \in D |-> c.todo[i]]
<1>1. PICK E \in SUBSET Ids : c.todo \in [E -> Patches]
  BY DEF CallType, Todos
<1>2. t \in [D -> Patches] /\ D \in SUBSET Ids
  BY <1>1
<1>3. t \in Todos /\ DOMAIN t = D /\ \A i \in D : t[i] = c.todo[i]
  BY <1>2 DEF Todos
<1>4. Dropped(c) = [c EXCEPT !.todo = t, !.base = Gone, !.at = "update"]
  BY DEF Dropped
<1> HIDE DEF t
<1> QED BY <1>3, <1>4 DEF CallType, Points

LEMMA DroppedShape ==
  ASSUME Types, Shapes, NEW p \in Procs, call' = [call EXCEPT ![p] = Dropped(call[p])],
         call[p].op \in Updating, call[p].at \notin {"idle", "dead", "read"}
  PROVE  Moves(p) /\ call'[p] = Dropped(call[p])
<1> DEFINE c == Dropped(call[p])
<1>1. call[p] \in CallType /\ Planned(p, call[p])
  BY DEF Types, Shapes
<1>2. Became(p, c)
  BY DEF Became
<1>3. /\ c \in CallType
      /\ c.at = "update" /\ c.op = call[p].op
      /\ c.id = call[p].id /\ c.snap = call[p].snap /\ c.agent = call[p].agent
      /\ DOMAIN c.todo \subseteq DOMAIN call[p].todo
      /\ \A i \in DOMAIN c.todo : c.todo[i] = call[p].todo[i]
  BY <1>1, DroppedIs
<1> HIDE DEF c
<1>4. PointsOf(c) /\ Planned(p, c)
  BY <1>1, <1>3 DEF PointsOf, Planned, Writing, Updating
<1> QED BY <1>2, <1>3, <1>4, ShapesLift DEF c

LEMMA CheckShape ==
  ASSUME Types, Shapes, NEW p \in Procs, Check(p)
  PROVE  /\ Moves(p) /\ call[p].at = "check"
         /\ \/ /\ UNCHANGED listLock /\ file[call[p].cur] \in Task
               /\ \/ /\ call[p].op = "claimBusy" /\ DOMAIN call[p].todo = {}
                     /\ call'[p] = [call[p] EXCEPT !.at = "listLock"]
                  \/ /\ ~ (call[p].op = "claimBusy" /\ DOMAIN call[p].todo = {})
                     /\ call'[p] = [call[p] EXCEPT !.at = "lock"]
            \/ Finish(p) /\ call'[p] = Resting
            \/ /\ UNCHANGED listLock /\ call'[p] = Dropped(call[p])
               /\ call[p].op # "claim" /\ DOMAIN call[p].todo # {}
               /\ file[call[p].cur] \in {Gone, Torn}
<1> DEFINE c == call[p]
           a == IF c.op = "claimBusy" /\ c.todo = Resting.todo THEN "listLock" ELSE "lock"
           d == [call[p] EXCEPT !.at = a]
<1>1. c \in CallType /\ c.at = "check" /\ PointsOf(c) /\ Planned(p, c)
      /\ call \in [Procs -> CallType]
  BY DEF Types, Shapes, Check, At
<1>2. c.op \in Updating
  BY <1>1 DEF PointsOf
<1>t. c.todo = Resting.todo <=> DOMAIN c.todo = {}
  <2>1. Resting.todo = [i \in {} |-> {}]
    BY DEF Resting
  <2>2. PICK E \in SUBSET Ids : c.todo \in [E -> Patches]
    BY <1>1 DEF CallType, Todos
  <2> QED BY <2>1, <2>2
<1>3. CASE Read(file[c.cur]) # Gone
  <2>1. Goto(p, a) /\ UNCHANGED listLock
    BY <1>3 DEF Check
  <2>2. file[c.cur] \in Task
    BY <1>1, <1>3 DEF Types, Read, Files, CallType
  <2>3. d.at = a /\ d.op = c.op /\ d.todo = c.todo /\ d.cur = c.cur /\ d.id = c.id
        /\ d.agent = c.agent /\ d.base = c.base
    BY <1>1 DEF CallType
  <2>4. c.op = "claimBusy" /\ DOMAIN c.todo # {} => c.cur \in DOMAIN c.todo
    BY <1>1 DEF Planned
  <2>5. PointsOf(d) /\ Planned(p, d)
    BY <1>1, <1>2, <1>t, <2>3, <2>4 DEF PointsOf, Planned, Writing
  <2>6. Moves(p) /\ call'[p] = d
    BY <2>1, <2>5, GotoShape DEF Points
  <2> QED BY <1>1, <1>t, <2>1, <2>2, <2>6
<1>4. CASE Read(file[c.cur]) = Gone /\ (c.op = "claim" \/ c.todo = Resting.todo)
  BY <1>1, <1>4, EndShape DEF Check
<1>5. CASE Read(file[c.cur]) = Gone /\ ~ (c.op = "claim" \/ c.todo = Resting.todo)
  <2>1. call' = [call EXCEPT ![p] = Dropped(call[p])] /\ UNCHANGED listLock
    BY <1>5 DEF Check
  <2>2. file[c.cur] \in {Gone, Torn}
    BY <1>5 DEF Read
  <2> QED BY <1>1, <1>2, <1>t, <1>5, <2>1, <2>2, DroppedShape
<1> QED BY <1>3, <1>4, <1>5

LEMMA RereadShape ==
  ASSUME Types, Shapes, NEW p \in Procs, Reread(p)
  PROVE  /\ Moves(p) /\ call[p].at = "reread"
         /\ \/ /\ UNCHANGED taskLock /\ file[call[p].cur] \in Task
               /\ call'[p] = [call[p] EXCEPT !.base = file[call[p].cur], !.at = "write"]
            \/ Unlocked(p) /\ call'[p] = Dropped(call[p]) /\ file[call[p].cur] \in {Gone, Torn}
<1> DEFINE c == call[p]
           task == Read(file[c.cur])
           d == [call[p] EXCEPT !.base = task, !.at = "write"]
<1>1. c \in CallType /\ c.at = "reread" /\ PointsOf(c) /\ Planned(p, c)
      /\ call \in [Procs -> CallType]
  BY DEF Types, Shapes, Reread, At
<1>2. c.op \in Updating
  BY <1>1 DEF PointsOf
<1>3. CASE task # Gone
  <2>1. call' = [call EXCEPT ![p].base = task, ![p].at = "write"] /\ UNCHANGED taskLock
    BY <1>3 DEF Reread
  <2>2. Became(p, d)
    BY <1>1, <2>1 DEF Became
  <2>3. task = file[c.cur] /\ task \in Task
    BY <1>1, <1>3 DEF Types, Read, Files, CallType
  <2>4. d \in CallType /\ d.at = "write" /\ d.op = c.op /\ d.todo = c.todo /\ d.cur = c.cur /\ d.id = c.id
        /\ d.agent = c.agent /\ d.base = task
    BY <1>1, <2>3 DEF CallType, Points
  <2>5. PointsOf(d) /\ Planned(p, d)
    BY <1>1, <1>2, <2>3, <2>4 DEF PointsOf, Planned, Writing
  <2> QED BY <1>1, <2>1, <2>2, <2>3, <2>4, <2>5, ShapesLift
<1>4. CASE task = Gone
  <2>1. call' = [call EXCEPT ![p] = Dropped(call[p])] /\ Unlocked(p)
    BY <1>4 DEF Reread
  <2>2. file[c.cur] \in {Gone, Torn}
    BY <1>4 DEF Read
  <2> QED BY <1>1, <1>2, <2>1, <2>2, DroppedShape
<1> QED BY <1>3, <1>4

LEMMA WriteShape ==
  ASSUME Types, Shapes, NEW p \in Procs, Write(p)
  PROVE  Moves(p) /\ call[p].at = "write" /\ call'[p] = [call[p] EXCEPT !.at = "refill"]
<1> DEFINE c == call[p]
           d == [call[p] EXCEPT !.at = "refill"]
<1>1. c \in CallType /\ c.at = "write" /\ PointsOf(c) /\ Planned(p, c) /\ Goto(p, "refill")
  BY DEF Types, Shapes, Write, At
<1>2. d.at = "refill" /\ d.op = c.op /\ d.todo = c.todo /\ d.cur = c.cur /\ d.id = c.id
        /\ d.agent = c.agent /\ d.base = c.base
  BY <1>1 DEF CallType
<1>3. PointsOf(d) /\ Planned(p, d)
  BY <1>1, <1>2 DEF PointsOf, Planned, Writing
<1> QED BY <1>1, <1>3, GotoShape DEF Points

LEMMA RefillShape ==
  ASSUME Types, Shapes, NEW p \in Procs, Refill(p)
  PROVE  /\ Moves(p) /\ call[p].at = "refill" /\ call'[p] = Dropped(call[p])
         /\ call[p].base \in Task /\ Merge(call[p].base, call[p].todo[call[p].cur]) \in Task
         /\ call[p].cur \in DOMAIN call[p].todo /\ call[p].op \in Updating
<1> DEFINE c == call[p]
<1>1. c \in CallType /\ c.at = "refill" /\ PointsOf(c) /\ Planned(p, c)
      /\ call' = [call EXCEPT ![p] = Dropped(call[p])]
  BY DEF Types, Shapes, Refill, At
<1>2. c.op \in Updating /\ c.base \in Task /\ c.cur \in DOMAIN c.todo
  BY <1>1 DEF PointsOf, Planned, Writing
<1>3. c.todo[c.cur] \in Patches
  BY <1>1, <1>2 DEF CallType, Todos
<1>4. Merge(c.base, c.todo[c.cur]) \in Task
  BY <1>2, <1>3, MergeTask, MergeChange
<1> QED BY <1>1, <1>2, <1>4, DroppedShape

-----------------------------------------------------------------------------
(* Types and shapes.                                                       *)

\* A step of p that only changes its call, and the locks.
LEMMA LocalTypes ==
  ASSUME Types, NEW p \in Procs, Moves(p),
         UNCHANGED <<fileVars, ghostVars, calls>>,
         listLock' \in {listLock, p, Nobody},
         taskLock' = taskLock \/ \E i \in Ids : taskLock' = [taskLock EXCEPT ![i] = p]
                              \/ taskLock' = [taskLock EXCEPT ![i] = Nobody]
  PROVE  Types' /\ Shapes'
  BY DEF Types, Moves, fileVars, ghostVars, Owners

LEMMA EndLock == ASSUME NEW p, Finish(p) PROVE listLock' \in {listLock, Nobody}
  BY DEF Finish

LEMMA TypeStep ==
  ASSUME Types, Shapes, Next
  PROVE  Types' /\ Shapes'
<1>0. \A p \in Procs : call[p].cur \in Ids /\ call[p].id \in Ids /\ call[p].agent \in Owners
                       /\ call[p].high \in 0 .. MaxId
  BY DEF Types, CallType
<1>m. mark \in 0 .. MaxId /\ file \in [Ids -> Files] /\ made \in [Ids -> Nat] /\ holder \in [Ids -> Owners]
  BY DEF Types
<1>1. ASSUME NEW p \in Procs, Call(p) PROVE Types' /\ Shapes'
  <2>1. PICK c : Begin(p, c)
    BY <1>1 DEF Call, CreateTask, ResetTaskList, UpdateTask, DeleteTask, BlockTask,
       ClaimTask, ClaimTaskBusy, UnassignTeammateTasks
  <2>2. Moves(p)
    BY <1>1, CallShape
  <2>3. calls' \in [Procs -> [ops: SUBSET Ops, left: 0 .. MaxCalls]]
    BY <2>1, BoundsAssumption DEF Begin, Types
  <2> QED BY <2>1, <2>2, <2>3 DEF Begin, Types, Moves, fileVars, lockVars, ghostVars
<1>2. ASSUME NEW p \in Procs, Crash(p) PROVE Types' /\ Shapes'
  BY <1>2, CrashShape DEF Crash, Types, Moves, fileVars, ghostVars, Owners
<1>3. ASSUME NEW p \in Procs, LockList(p) PROVE Types' /\ Shapes'
  <2>1. Moves(p)
    BY <1>3, LockListShape
  <2> QED BY <1>3, <2>1, LocalTypes DEF LockList
<1>4. ASSUME NEW p \in Procs, LockTask(p) PROVE Types' /\ Shapes'
  <2>1. Moves(p)
    BY <1>4, LockTaskShape
  <2> QED BY <1>0, <1>4, <2>1, LocalTypes DEF LockTask
<1>5. ASSUME NEW p \in Procs, LockFails(p) \/ CreateFull(p) \/ Swept(p) \/ UnlinkMissing(p)
      PROVE Types' /\ Shapes'
  <2>1. Finish(p) /\ UNCHANGED <<fileVars, taskLock, calls, ghostVars>>
    BY <1>5 DEF LockFails, CreateFull, Swept, UnlinkMissing
  <2> QED BY <2>1, EndShape, EndLock, LocalTypes
<1>6. ASSUME NEW p \in Procs, ScanFiles(p) PROVE Types' /\ Shapes'
  <2>1. Scanned(p, "files", Highest(Present))
    BY <1>6 DEF ScanFiles
  <2>2. Moves(p)
    BY <2>1, PresentIds, ScannedShape
  <2> QED BY <2>1, <2>2, LocalTypes DEF Scanned, lockVars
<1>7. ASSUME NEW p \in Procs, ScanMark(p) PROVE Types' /\ Shapes'
  <2>1. Scanned(p, "mark", mark)
    BY <1>7 DEF ScanMark
  <2>2. Moves(p)
    BY <1>m, <2>1, ScannedShape
  <2> QED BY <2>1, <2>2, LocalTypes DEF Scanned, lockVars
<1>8. ASSUME NEW p \in Procs, CreateOpen(p) PROVE Types' /\ Shapes'
  <2>1. Moves(p)
    BY <1>8, CreateOpenShape
  <2> QED BY <1>8, <2>1 DEF CreateOpen, Types, Moves, lockVars, ghostVars, Files
<1>9. ASSUME NEW p \in Procs, CreateFill(p) PROVE Types' /\ Shapes'
  <2>1. Moves(p) /\ listLock' \in {listLock, Nobody}
    BY <1>9, EndShape, EndLock DEF CreateFill
  <2>2. NewTask \in Files
    BY DEF NewTask, Files, Task, Statuses
  <2>3. file' \in [Ids -> Files]
    BY <1>0, <1>9, <2>2 DEF CreateFill, Filled, Types, Files
  <2> QED BY <1>0, <1>9, <2>1, <2>3 DEF CreateFill, Types, Moves, Owners
<1>10. ASSUME NEW p \in Procs, FindHighest(p) PROVE Types' /\ Shapes'
  <2>1. Moves(p)
    BY <1>10, FindHighestShape
  <2> QED BY <1>10, <2>1, LocalTypes DEF FindHighest, lockVars
<1>11. ASSUME NEW p \in Procs, ReadMark(p) PROVE Types' /\ Shapes'
  <2>1. Moves(p)
    BY <1>11, MarkShape
  <2> QED BY <1>11, <2>1, LocalTypes DEF ReadMark, lockVars
<1>12. ASSUME NEW p \in Procs, MarkOpen(p) \/ MarkFill(p) PROVE Types' /\ Shapes'
  <2>1. Moves(p)
    BY <1>12, MarkShape
  <2>2. mark' \in 0 .. MaxId /\ UNCHANGED <<file, lockVars, calls, ghostVars>>
    BY <1>0, <1>12, BoundsAssumption DEF MarkOpen, MarkFill
  <2> QED BY <2>1, <2>2 DEF Types, Moves, lockVars, ghostVars
<1>13. ASSUME NEW p \in Procs, NEW i \in Ids, Remove(i), Moves(p), UNCHANGED <<mark, lockVars, calls, made>>
       PROVE Types' /\ Shapes'
  BY <1>13 DEF Remove, Types, Moves, lockVars, Files, Owners
<1>14. ASSUME NEW p \in Procs, Sweep(p) PROVE Types' /\ Shapes'
  <2>1. call[p].left \in SUBSET Ids
    BY DEF Types, CallType
  <2> QED BY <1>13, <1>14, <2>1, SweepShape DEF Sweep
<1>15. ASSUME NEW p \in Procs, Unlink(p) PROVE Types' /\ Shapes'
  BY <1>0, <1>13, <1>15, MarkShape DEF Unlink
<1>16. ASSUME NEW p \in Procs, ReadDir(p) PROVE Types' /\ Shapes'
  <2>1. Moves(p)
    BY <1>16, ReadDirShape
  <2> QED BY <1>16, <2>1, LocalTypes DEF ReadDir, lockVars
<1>17. ASSUME NEW p \in Procs, ReadOne(p) PROVE Types' /\ Shapes'
  <2>1. Moves(p)
    BY <1>17, ReadOneShape
  <2> QED BY <1>17, <2>1, LocalTypes DEF ReadOne, lockVars
<1>18. ASSUME NEW p \in Procs, PlanCascade(p) PROVE Types' /\ Shapes'
  <2>1. Moves(p)
    BY <1>18, PlanCascadeShape
  <2> QED BY <1>18, <2>1, LocalTypes DEF PlanCascade, lockVars
<1>19. ASSUME NEW p \in Procs, PlanUnassign(p) PROVE Types' /\ Shapes'
  <2>1. Moves(p)
    BY <1>19, PlanUnassignShape
  <2> QED BY <1>19, <2>1, LocalTypes DEF PlanUnassign, lockVars
<1>20. ASSUME NEW p \in Procs, PlanBlock(p) PROVE Types' /\ Shapes'
  <2>1. Moves(p) /\ listLock' \in {listLock, Nobody}
    BY <1>20, PlanBlockShape, EndLock
  <2> QED BY <1>20, <2>1, LocalTypes DEF PlanBlock
<1>21. ASSUME NEW p \in Procs, ClaimRead(p) PROVE Types' /\ Shapes'
  <2>1. Moves(p) /\ listLock' \in {listLock, Nobody}
        /\ (taskLock' = taskLock \/ taskLock' = [taskLock EXCEPT ![call[p].id] = Nobody])
    BY <1>21, ClaimReadShape, EndLock DEF lockVars
  <2> QED BY <1>0, <1>21, <2>1, LocalTypes DEF ClaimRead
<1>22. ASSUME NEW p \in Procs, DecideClaim(p) PROVE Types' /\ Shapes'
  <2>1. Moves(p) /\ listLock' \in {listLock, Nobody}
        /\ (taskLock' = taskLock \/ taskLock' = [taskLock EXCEPT ![call[p].id] = Nobody])
    BY <1>22, DecideClaimShape, EndLock DEF lockVars
  <2> QED BY <1>0, <1>22, <2>1, LocalTypes DEF DecideClaim
<1>23. ASSUME NEW p \in Procs, DecideBusyClaim(p) PROVE Types' /\ Shapes'
  <2>1. Moves(p) /\ listLock' \in {listLock, Nobody}
    BY <1>23, DecideBusyShape, EndLock
  <2> QED BY <1>23, <2>1, LocalTypes DEF DecideBusyClaim
<1>24. ASSUME NEW p \in Procs, NextUpdate(p) PROVE Types' /\ Shapes'
  <2>1. Moves(p)
    BY <1>24, NextUpdateShape
  <2> QED BY <1>24, <2>1, LocalTypes DEF NextUpdate, lockVars
<1>25. ASSUME NEW p \in Procs, Updated(p) PROVE Types' /\ Shapes'
  <2>1. Moves(p) /\ listLock' \in {listLock, Nobody}
    BY <1>25, EndShape, EndLock DEF Updated
  <2>2. <<call[p].id, call[p].other>> \in Ids \X Ids
    BY DEF Types, CallType
  <2> QED BY <1>25, <2>1, <2>2 DEF Updated, Types, Moves, fileVars, Owners
<1>26. ASSUME NEW p \in Procs, Check(p) PROVE Types' /\ Shapes'
  <2>1. Moves(p) /\ listLock' \in {listLock, Nobody}
    BY <1>26, CheckShape, EndLock
  <2> QED BY <1>26, <2>1, LocalTypes DEF Check
<1>27. ASSUME NEW p \in Procs, Reread(p) PROVE Types' /\ Shapes'
  <2>1. Moves(p) /\ (taskLock' = taskLock \/ taskLock' = [taskLock EXCEPT ![call[p].cur] = Nobody])
    BY <1>27, RereadShape DEF Unlocked
  <2> QED BY <1>0, <1>27, <2>1, LocalTypes DEF Reread
<1>28. ASSUME NEW p \in Procs, Write(p) PROVE Types' /\ Shapes'
  <2>1. Moves(p)
    BY <1>28, WriteShape
  <2> QED BY <1>28, <2>1 DEF Write, Types, Moves, lockVars, ghostVars, Files
<1>29. ASSUME NEW p \in Procs, Refill(p) PROVE Types' /\ Shapes'
  <2>1. Moves(p) /\ Merge(call[p].base, call[p].todo[call[p].cur]) \in Files
    BY <1>29, RefillShape DEF Files
  <2>2. HolderAfter(call[p], holder[call[p].cur]) \in Owners
    BY <1>0, <1>m DEF HolderAfter, Owners
  <2>3. file' \in [Ids -> Files]
    BY <1>0, <1>29, <2>1 DEF Refill, Filled, Types, Files
  <2> QED BY <1>0, <1>29, <2>1, <2>2, <2>3 DEF Refill, Unlocked, Types, Moves, Owners
<1>30. CASE Done
  BY <1>30 DEF Done, vars, Types, Shapes, fileVars, lockVars, ghostVars
<1> QED BY <1>1, <1>2, <1>3, <1>4, <1>5, <1>6, <1>7, <1>8, <1>9, <1>10, <1>11, <1>12,
           <1>14, <1>15, <1>16, <1>17, <1>18, <1>19, <1>20, <1>21, <1>22, <1>23, <1>24,
           <1>25, <1>26, <1>27, <1>28, <1>29, <1>30 DEF Next, Step

-----------------------------------------------------------------------------
(* The locks exclude.                                                      *)

(* What a step of p may do to the locks.                                   *)
LockStep(p) ==
  /\ listLock' # listLock => listLock \in {p, Nobody}
  /\ \A i \in Ids : taskLock'[i] # taskLock[i] => taskLock[i] \in {p, Nobody}
  /\ HoldsList(call'[p]) => listLock' = p
  /\ HoldsTask(call'[p]) => taskLock'[call'[p].cur] = p

LEMMA LocksLift ==
  ASSUME Types, LocksExclude, NEW p \in Procs, Moves(p), LockStep(p)
  PROVE  LocksExclude'
<1> SUFFICES ASSUME NEW q \in Procs
             PROVE  /\ HoldsList(call'[q]) => listLock' = q
                    /\ HoldsTask(call'[q]) => taskLock'[call'[q].cur] = q
  BY DEF LocksExclude, HoldsList, HoldsTask
<1>1. CASE q = p
  BY <1>1 DEF LockStep
<1>2. CASE q # p
  <2>1. call'[q] = call[q] /\ q # Nobody /\ call[q].cur \in Ids
    BY <1>2, NobodyAssumption DEF Moves, Types, CallType
  <2> QED BY <1>2, <2>1 DEF LockStep, LocksExclude
<1> QED BY <1>1, <1>2

LEMMA RestingHolds ==
  ~ HoldsList(Resting) /\ ~ HoldsTask(Resting)
  /\ ~ HoldsList([Resting EXCEPT !.at = "dead"]) /\ ~ HoldsTask([Resting EXCEPT !.at = "dead"])
  BY DEF Resting, HoldsList, HoldsTask

\* A call that ends, and one that holds the locks it held.
LEMMA EndLocks ==
  ASSUME Types, Shapes, NEW p \in Procs, Finish(p),
         \/ UNCHANGED taskLock
         \/ \E i \in Ids : taskLock[i] = p /\ taskLock' = [taskLock EXCEPT ![i] = Nobody]
  PROVE  LockStep(p)
<1>1. call'[p] = Resting
  BY EndShape
<1> QED BY <1>1, RestingHolds DEF LockStep, Finish, Types

LEMMA KeepLocks ==
  ASSUME LocksExclude, NEW p \in Procs, UNCHANGED lockVars,
         HoldsList(call'[p]) => HoldsList(call[p]),
         HoldsTask(call'[p]) => HoldsTask(call[p]) /\ call'[p].cur = call[p].cur
  PROVE  LockStep(p)
  BY DEF LockStep, LocksExclude, lockVars

LEMMA LocksOfStep ==
  ASSUME Types, Shapes, LocksExclude, NEW p \in Procs, Call(p) \/ Step(p) \/ Crash(p)
  PROVE  LockStep(p)
<1>0. call[p] \in CallType /\ PointsOf(call[p]) /\ Planned(p, call[p])
  BY DEF Types, Shapes
<1>1. CASE Call(p)
  <2>1. UNCHANGED lockVars
    BY <1>1 DEF Call, CreateTask, ResetTaskList, UpdateTask, DeleteTask, BlockTask,
       ClaimTask, ClaimTaskBusy, UnassignTeammateTasks, Begin
  <2>2. ~ HoldsList(call'[p]) /\ ~ HoldsTask(call'[p])
    <3>1. /\ call'[p].at \in {"listLock", "update", "mark", "read", "check", "readdir"}
          /\ call'[p].at = "read" => call'[p].op = "block"
          /\ call'[p].at = "readdir" => call'[p].op = "unassign"
          /\ call'[p].at = "mark" => call'[p].op = "delete"
          /\ call'[p].at = "update" => call'[p].op # "claimBusy"
          /\ call'[p].op = "claimBusy" => DOMAIN call'[p].todo = {}
      BY <1>1, CallShape
    <3> QED BY <3>1 DEF HoldsList, HoldsTask
  <2> QED BY <2>1, <2>2, KeepLocks
<1>2. CASE Crash(p)
  BY <1>2, CrashShape, RestingHolds DEF Crash, LockStep, Types
<1>3. CASE LockList(p)
  <2>1. call'[p] = [call[p] EXCEPT !.at = AfterListLock(call[p].op)]
    BY <1>3, LockListShape
  <2>2. ~ HoldsTask(call'[p])
    BY <1>0, <1>3, <2>1 DEF LockList, AfterListLock, HoldsTask, PointsOf, CallType, At
  <2> QED BY <1>3, <2>2 DEF LockList, LockStep, LockFree
<1>4. CASE LockTask(p)
  <2>1. call'[p] = [call[p] EXCEPT !.at = AfterTaskLock(call[p].op)]
    BY <1>4, LockTaskShape
  <2>2. call'[p].cur = call[p].cur /\ call[p].cur \in Ids
        /\ (HoldsList(call'[p]) => HoldsList(call[p]))
    BY <1>0, <1>4, <2>1 DEF LockTask, AfterTaskLock, HoldsList, PointsOf, CallType, At
  <2> QED BY <1>4, <2>2 DEF LockTask, LockStep, LockFree, LocksExclude, Types
<1>5. CASE LockFails(p) \/ CreateFull(p) \/ Swept(p) \/ UnlinkMissing(p) \/ CreateFill(p) \/ Updated(p)
  <2>1. Finish(p) /\ UNCHANGED taskLock
    BY <1>5 DEF LockFails, CreateFull, Swept, UnlinkMissing, CreateFill, Updated
  <2> QED BY <2>1, EndLocks
<1>6. CASE ScanFiles(p) \/ ScanMark(p)
  <2>1. PICK what \in {"files", "mark"}, value \in 0 .. MaxId : Scanned(p, what, value)
    BY <1>6, PresentIds DEF ScanFiles, ScanMark, Types
  <2>2. call'[p].op = "create" /\ call'[p].at \in {"open", "scan"} /\ UNCHANGED lockVars /\ call[p].at = "scan"
    BY <2>1, ScannedShape DEF Scanned, At
  <2>3. call[p].op = "create"
    BY <1>0, <2>2 DEF PointsOf
  <2> QED BY <2>2, <2>3, KeepLocks DEF HoldsList, HoldsTask
<1>8. CASE CreateOpen(p)
  <2>1. call'[p] = [call[p] EXCEPT !.at = "fill", !.id = NextId(call[p].high)]
    BY <1>8, CreateOpenShape
  <2>2. call[p].at = "open" /\ call[p].op = "create" /\ UNCHANGED lockVars
    BY <1>0, <1>8 DEF CreateOpen, At, PointsOf
  <2> QED BY <1>0, <2>1, <2>2, KeepLocks DEF HoldsList, HoldsTask, CallType
<1>10. CASE FindHighest(p)
  <2>1. call'[p] = [call[p] EXCEPT !.high = Highest(Present),
                           !.at = IF Highest(Present) > 0 THEN "mark" ELSE "readdir"]
    BY <1>10, FindHighestShape
  <2>2. call[p].at = "highest" /\ call[p].op = "reset" /\ UNCHANGED lockVars
    BY <1>0, <1>10 DEF FindHighest, At, PointsOf
  <2>3. call'[p].at \in {"mark", "readdir"} /\ call'[p].op = "reset"
    BY <1>0, <2>1, <2>2 DEF CallType
  <2> QED BY <2>2, <2>3, KeepLocks DEF HoldsList, HoldsTask
<1>11. CASE ReadMark(p) \/ MarkOpen(p) \/ MarkFill(p) \/ Unlink(p)
  <2>1. PICK a \in {"markOpen", "markFill", "readdir", "unlink"} : call'[p] = [call[p] EXCEPT !.at = a]
    BY <1>11, MarkShape
  <2>2. call[p].op \in {"reset", "delete"} /\ UNCHANGED lockVars
        /\ call[p].at \in {"mark", "markOpen", "markFill", "unlink"}
        /\ (call[p].at = "unlink" => call[p].op = "delete")
    BY <1>0, <1>11 DEF ReadMark, MarkOpen, MarkFill, Unlink, At, PointsOf
  <2> QED BY <1>0, <2>1, <2>2, KeepLocks DEF HoldsList, HoldsTask, CallType
<1>14. CASE Sweep(p)
  <2>1. PICK i : call'[p] = [call[p] EXCEPT !.left = @ \ {i}]
    BY <1>14, SweepShape
  <2> QED BY <1>0, <1>14, <2>1, KeepLocks DEF Sweep, HoldsList, HoldsTask, CallType
<1>16. CASE ReadDir(p)
  <2>1. call'[p] = [call[p] EXCEPT !.left = Present,
                           !.at = IF call[p].op = "reset" THEN "sweep" ELSE "read"]
    BY <1>16, ReadDirShape
  <2>2. call[p].at = "readdir" /\ UNCHANGED lockVars
    BY <1>16 DEF ReadDir, At
  <2>3. /\ call'[p].at = IF call[p].op = "reset" THEN "sweep" ELSE "read"
        /\ call'[p].op = call[p].op /\ call'[p].cur = call[p].cur
    BY <1>0, <2>1 DEF CallType
  <2> QED BY <2>2, <2>3, KeepLocks DEF HoldsList, HoldsTask
<1>17. CASE ReadOne(p)
  <2>1. PICK i : call'[p] = [call[p] EXCEPT !.left = @ \ {i}, !.snap[i] = Read(file[i])]
    BY <1>17, ReadOneShape
  <2> QED BY <1>0, <1>17, <2>1, KeepLocks DEF ReadOne, HoldsList, HoldsTask, CallType
<1>18. CASE PlanCascade(p) \/ PlanUnassign(p) \/ PlanBlock(p) \/ DecideBusyClaim(p)
  <2>1. CASE Finish(p)
    BY <1>18, <2>1, EndLocks DEF PlanCascade, PlanUnassign, PlanBlock, DecideBusyClaim,
       lockVars
  <2>2. CASE ~ Finish(p)
    <3>1. \E todo \in Todos :
             call'[p] = [call[p] EXCEPT !.todo = todo, !.snap = Resting.snap, !.at = "update"]
      BY <1>18, <2>2, PlanCascadeShape, PlanUnassignShape, PlanBlockShape, DecideBusyShape
    <3>2. UNCHANGED lockVars /\ call[p].at = "read"
      BY <1>18, <2>2, PlanBlockShape, DecideBusyShape
      DEF PlanCascade, PlanUnassign, PlanBlock, DecideBusyClaim, lockVars, Listed, At
    <3> QED BY <1>0, <3>1, <3>2, KeepLocks DEF HoldsList, HoldsTask, CallType
  <2> QED BY <2>1, <2>2
<1>21. CASE ClaimRead(p)
  <2>1. call[p].id \in Ids /\ call[p].cur = call[p].id /\ call[p].at = "claimRead" /\ call[p].op = "claim"
    BY <1>0, <1>21, ClaimReadShape DEF CallType
  <2>2. taskLock[call[p].id] = p
    BY <2>1 DEF LocksExclude, HoldsTask
  <2>3. CASE Finish(p) /\ taskLock' = [taskLock EXCEPT ![call[p].id] = Nobody]
    BY <2>1, <2>2, <2>3, EndLocks
  <2>4. CASE UNCHANGED lockVars /\ call'[p] = [call[p] EXCEPT !.base = file[call[p].id], !.at = "readdir"]
    BY <1>0, <2>1, <2>4, KeepLocks DEF HoldsList, HoldsTask, CallType
  <2> QED BY <1>21, <2>3, <2>4, ClaimReadShape
<1>22. CASE DecideClaim(p)
  <2>1. call[p].id \in Ids /\ call[p].cur = call[p].id /\ call[p].at = "read" /\ call[p].op = "claim"
    BY <1>0, <1>22, DecideClaimShape DEF CallType
  <2>2. taskLock[call[p].id] = p
    BY <2>1 DEF LocksExclude, HoldsTask
  <2>3. CASE Finish(p) /\ taskLock' = [taskLock EXCEPT ![call[p].id] = Nobody]
    BY <2>1, <2>2, <2>3, EndLocks
  <2>4. CASE UNCHANGED lockVars /\ call'[p] = [call[p] EXCEPT !.snap = Resting.snap, !.at = "reread"]
    BY <1>0, <2>1, <2>4, KeepLocks DEF HoldsList, HoldsTask, CallType
  <2> QED BY <1>22, <2>3, <2>4, DecideClaimShape
<1>24. CASE NextUpdate(p)
  <2>1. PICK i \in DOMAIN call[p].todo : call'[p] = [call[p] EXCEPT !.cur = i, !.at = "check"]
    BY <1>24, NextUpdateShape
  <2>2. UNCHANGED lockVars /\ call[p].at = "update"
    BY <1>24 DEF NextUpdate, At
  <2> QED BY <1>0, <2>1, <2>2, KeepLocks DEF HoldsList, HoldsTask, CallType
<1>26. CASE Check(p)
  <2>0. UNCHANGED taskLock /\ call[p].at = "check"
    BY <1>26 DEF Check, At
  <2>1. CASE Finish(p)
    BY <2>0, <2>1, EndLocks
  <2>2. CASE ~ Finish(p)
    <3>1. UNCHANGED lockVars
      BY <1>26, <2>0, <2>2, CheckShape DEF lockVars
    <3>2. CASE call'[p] = Dropped(call[p]) /\ call[p].op # "claim" /\ DOMAIN call[p].todo # {}
      <4>1. call'[p].at = "update" /\ call'[p].op = call[p].op
        BY <1>0, <3>2, DroppedIs
      <4> QED BY <2>0, <3>1, <3>2, <4>1, KeepLocks DEF HoldsList, HoldsTask
    <3>3. CASE call[p].op = "claimBusy" /\ DOMAIN call[p].todo = {} /\ call'[p] = [call[p] EXCEPT !.at = "listLock"]
      BY <1>0, <2>0, <3>1, <3>3, KeepLocks DEF HoldsList, HoldsTask, CallType
    <3>4. CASE ~ (call[p].op = "claimBusy" /\ DOMAIN call[p].todo = {}) /\ call'[p] = [call[p] EXCEPT !.at = "lock"]
      BY <1>0, <2>0, <3>1, <3>4, KeepLocks DEF HoldsList, HoldsTask, CallType
    <3> QED BY <1>26, <2>2, <3>2, <3>3, <3>4, CheckShape
  <2> QED BY <2>1, <2>2
<1>27. ASSUME Unlocked(p), UNCHANGED listLock, HoldsTask(call[p]), call'[p] = Dropped(call[p]),
              call[p].at \in {"reread", "refill"}
       PROVE  LockStep(p)
  <2>1. taskLock[call[p].cur] = p /\ call[p].cur \in Ids
    BY <1>0, <1>27 DEF LocksExclude, CallType
  <2>2. ~ HoldsTask(call'[p]) /\ (HoldsList(call'[p]) => HoldsList(call[p]))
    BY <1>0, <1>27, DroppedIs DEF HoldsList, HoldsTask
  <2> QED BY <1>27, <2>1, <2>2 DEF Unlocked, LockStep, LocksExclude, Types
<1>28. CASE Reread(p)
  <2>1. HoldsTask(call[p]) /\ UNCHANGED listLock
    BY <1>28 DEF Reread, HoldsTask, At
  <2>2. CASE UNCHANGED taskLock /\ call'[p] = [call[p] EXCEPT !.base = file[call[p].cur], !.at = "write"]
    BY <1>0, <1>28, <2>1, <2>2, KeepLocks DEF HoldsList, HoldsTask, CallType, lockVars,
       Reread, At
  <2> QED BY <1>27, <1>28, <2>1, <2>2, RereadShape
<1>29. CASE Write(p)
  <2>1. call[p].at = "write" /\ call'[p] = [call[p] EXCEPT !.at = "refill"] /\ UNCHANGED lockVars
    BY <1>29, WriteShape DEF Write
  <2> QED BY <1>0, <2>1, KeepLocks DEF HoldsList, HoldsTask, CallType
<1>30. CASE Refill(p)
  <2>1. call[p].at = "refill" /\ call'[p] = Dropped(call[p]) /\ Unlocked(p) /\ UNCHANGED listLock
    BY <1>30, RefillShape DEF Refill
  <2> QED BY <1>27, <2>1 DEF HoldsTask
<1> QED BY <1>1, <1>2, <1>3, <1>4, <1>5, <1>6, <1>8, <1>10, <1>11, <1>14, <1>16, <1>17,
           <1>18, <1>21, <1>22, <1>24, <1>26, <1>28, <1>29, <1>30 DEF Step

-----------------------------------------------------------------------------
(* What holds of every list: the types, the locks, whose calls are made.   *)

LEMMA OpsSame ==
  ASSUME Types, [Next]_vars
  PROVE  \A q \in Procs : calls'[q].ops = calls[q].ops
<1>1. CASE \E p \in Procs : Call(p)
  <2>1. PICK p \in Procs : \E c : Begin(p, c)
    BY <1>1 DEF Call, CreateTask, ResetTaskList, UpdateTask, DeleteTask, BlockTask,
                ClaimTask, ClaimTaskBusy, UnassignTeammateTasks
  <2> QED BY <2>1 DEF Begin, Types
<1>2. CASE UNCHANGED calls
  BY <1>2
<1>3. ASSUME NEW p \in Procs, Step(p) \/ Crash(p) PROVE UNCHANGED calls
  BY <1>3 DEF Step, Crash, LockList, LockTask, LockFails, ScanFiles, ScanMark, Scanned,
     CreateOpen, CreateFull, CreateFill, FindHighest, ReadMark, MarkOpen, MarkFill,
     Sweep, Swept, Unlink, UnlinkMissing, ReadDir, ReadOne, PlanCascade, PlanUnassign,
     PlanBlock, ClaimRead, DecideClaim, DecideBusyClaim, NextUpdate, Updated, Check,
     Reread, Write, Refill
<1> QED BY <1>1, <1>2, <1>3 DEF Next, Done, vars

LEMMA OpOfStep ==
  ASSUME Types, Shapes, NEW p \in Procs, Step(p)
  PROVE  call'[p].at = "idle" \/ (call'[p].op = call[p].op /\ call[p].at \notin {"idle", "dead"})
<1>0. call[p] \in CallType /\ PointsOf(call[p])
  BY DEF Types, Shapes
<1>1. CASE Finish(p)
  <2>1. call'[p] = Resting
    BY <1>1, EndShape
  <2> QED BY <2>1 DEF Resting
<1>2. CASE ScanFiles(p) \/ ScanMark(p)
  <2>1. PICK what \in {"files", "mark"}, value \in 0 .. MaxId : Scanned(p, what, value)
    BY <1>2, PresentIds DEF ScanFiles, ScanMark, Types
  <2>2. call'[p].op = "create" /\ call[p].at = "scan"
    BY <2>1, ScannedShape DEF Scanned, At
  <2> QED BY <1>0, <2>2 DEF PointsOf
<1>3. CASE \E a \in Points : call'[p] = [call[p] EXCEPT !.at = a] /\ call[p].at \notin {"idle", "dead"}
  BY <1>0, <1>3 DEF CallType
<1>4. CASE LockList(p) \/ LockTask(p)
  <2>1. call[p].at \notin {"idle", "dead"}
    BY <1>4 DEF LockList, LockTask, At
  <2>2. \E a : call'[p] = [call[p] EXCEPT !.at = a]
    BY <1>4, LockListShape, LockTaskShape
  <2> QED BY <1>0, <2>1, <2>2 DEF CallType
<1>5. CASE CreateOpen(p) \/ FindHighest(p) \/ ReadDir(p)
  <2>1. call[p].at \notin {"idle", "dead"}
    BY <1>5 DEF CreateOpen, FindHighest, ReadDir, At
  <2>2. call'[p] \in {[call[p] EXCEPT !.at = "fill", !.id = NextId(call[p].high)],
          [call[p] EXCEPT !.high = Highest(Present), !.at = IF Highest(Present) > 0 THEN "mark" ELSE "readdir"],
          [call[p] EXCEPT !.left = Present, !.at = IF call[p].op = "reset" THEN "sweep" ELSE "read"]}
    BY <1>5, CreateOpenShape, FindHighestShape, ReadDirShape
  <2> QED BY <1>0, <2>1, <2>2 DEF CallType
<1>6. CASE ReadMark(p) \/ MarkOpen(p) \/ MarkFill(p) \/ Unlink(p)
  BY <1>0, <1>6, MarkShape DEF ReadMark, MarkOpen, MarkFill, Unlink, At, CallType
<1>7. CASE Sweep(p)
  <2>1. PICK i : call'[p] = [call[p] EXCEPT !.left = @ \ {i}]
    BY <1>7, SweepShape
  <2> QED BY <1>0, <1>7, <2>1 DEF Sweep, At, CallType
<1>8. CASE ReadOne(p)
  <2>1. PICK i : call'[p] = [call[p] EXCEPT !.left = @ \ {i}, !.snap[i] = Read(file[i])]
    BY <1>8, ReadOneShape
  <2> QED BY <1>0, <1>8, <2>1 DEF ReadOne, At, CallType
<1>9. CASE (PlanCascade(p) \/ PlanUnassign(p) \/ PlanBlock(p) \/ DecideBusyClaim(p)) /\ ~ Finish(p)
  <2>1. \E todo \in Todos :
           call'[p] = [call[p] EXCEPT !.todo = todo, !.snap = Resting.snap, !.at = "update"]
    BY <1>9, PlanCascadeShape, PlanUnassignShape, PlanBlockShape, DecideBusyShape
  <2>2. call[p].at = "read"
    BY <1>9 DEF PlanCascade, PlanUnassign, PlanBlock, DecideBusyClaim, Listed, At
  <2> QED BY <1>0, <2>1, <2>2 DEF CallType
<1>10. CASE (ClaimRead(p) \/ DecideClaim(p)) /\ ~ Finish(p)
  BY <1>0, <1>10, ClaimReadShape, DecideClaimShape DEF CallType
<1>11. CASE NextUpdate(p)
  BY <1>0, <1>11, NextUpdateShape DEF CallType
<1>12. CASE call'[p] = Dropped(call[p]) /\ call[p].at \notin {"idle", "dead"}
  BY <1>0, <1>12, DroppedIs
<1>13. CASE Check(p) /\ ~ Finish(p)
  BY <1>3, <1>12, <1>13, CheckShape DEF Points
<1>14. CASE Write(p) \/ Refill(p)
  BY <1>0, <1>12, <1>14, WriteShape, RefillShape DEF CallType
<1>16. CASE Reread(p)
  <2>1. call[p].at = "reread" /\ \/ call'[p] = [call[p] EXCEPT !.base = file[call[p].cur], !.at = "write"]
                                 \/ call'[p] = Dropped(call[p])
    BY <1>0, <1>16, RereadShape
  <2> QED BY <1>0, <1>12, <2>1 DEF CallType
<1>15. ASSUME LockFails(p) \/ CreateFull(p) \/ Swept(p) \/ UnlinkMissing(p) \/ CreateFill(p) \/ Updated(p)
       PROVE Finish(p)
  BY <1>15 DEF LockFails, CreateFull, Swept, UnlinkMissing, CreateFill, Updated
<1> QED BY <1>1, <1>2, <1>4, <1>5, <1>6, <1>7, <1>8, <1>9, <1>10, <1>11, <1>13, <1>14,
           <1>15, <1>16 DEF Step

LEMMA MovesOfStep ==
  ASSUME Sections, NEW p \in Procs, Call(p) \/ Step(p) \/ Crash(p)
  PROVE  Moves(p) /\ LockStep(p)
<1>0. Types /\ Shapes /\ LocksExclude
  BY DEF Sections
<1>1. LockStep(p)
  BY <1>0, LocksOfStep
<1>2. Types' /\ Shapes'
  BY <1>0, TypeStep DEF Next
<1>3. \A q \in Procs \ {p} : call'[q] = call[q]
  <2>1. \E c : call' = [call EXCEPT ![p] = c]
    <3>1. CASE Call(p)
      BY <3>1 DEF Call, CreateTask, ResetTaskList, UpdateTask, DeleteTask, BlockTask,
         ClaimTask, ClaimTaskBusy, UnassignTeammateTasks, Begin
    <3>2. CASE Crash(p)
      BY <3>2 DEF Crash
    <3>3. CASE Step(p)
      BY <3>3 DEF Step, LockList, LockTask, LockFails, ScanFiles, ScanMark, Scanned,
         CreateOpen, CreateFull, CreateFill, FindHighest, ReadMark, MarkOpen, MarkFill,
         Sweep, Swept, Unlink, UnlinkMissing, ReadDir, ReadOne, PlanCascade,
         PlanUnassign, PlanBlock, ClaimRead, DecideClaim, DecideBusyClaim, NextUpdate,
         Updated, Check, Reread, Write, Refill, Goto, Finish, Plan
    <3> QED BY <3>1, <3>2, <3>3
  <2> QED BY <1>0, <2>1 DEF Types
<1> QED BY <1>1, <1>2, <1>3 DEF Moves, Types

LEMMA SectionsInit == Init => Sections
<1> SUFFICES ASSUME Init PROVE Sections
  OBVIOUS
<1>1. PICK s \in Scenarios : file = s.start /\ calls = [p \in Procs |-> [ops |-> s.roles[p], left |-> s.calls]]
  BY DEF Init
<1>2. s.roles \in [Procs -> SUBSET Ops] /\ s.calls \in 0 .. MaxCalls /\ s.start \in [Ids -> Task \cup {Gone}]
  BY ScenariosAssumption
<1>3. call = [p \in Procs |-> Resting]
  BY DEF Init
<1>4. Types
  <2>1. \A i \in Ids : file[i] # Gone => file[i].owner \in Owners
    BY <1>1, <1>2 DEF Task, Owners
  <2>2. holder \in [Ids -> Owners]
    BY <2>1 DEF Init, Owners
  <2>3. mark \in 0 .. MaxId
    BY BoundsAssumption DEF Init
  <2>4. file \in [Ids -> Files] /\ calls \in [Procs -> [ops: SUBSET Ops, left: 0 .. MaxCalls]]
    BY <1>1, <1>2 DEF Files
  <2> QED BY <1>3, <2>2, <2>3, <2>4, RestingType DEF Init, Types, Owners
<1>5. Shapes /\ LocksExclude /\ MakesOwnCalls
  BY <1>3, RestingShape, RestingHolds DEF Shapes, LocksExclude, MakesOwnCalls, At, Resting
<1> QED BY <1>4, <1>5 DEF Sections

LEMMA SectionsStep ==
  ASSUME Sections, [Next]_vars
  PROVE  Sections'
<1>0. Types /\ Shapes /\ LocksExclude
  BY DEF Sections
<1>o. \A q \in Procs : calls'[q].ops = calls[q].ops
  BY <1>0, OpsSame
<1>1. ASSUME NEW p \in Procs, Call(p) \/ Step(p) \/ Crash(p) PROVE Sections'
  <2>1. Types' /\ Shapes'
    BY <1>0, <1>1, TypeStep DEF Next
  <2>2. Moves(p) /\ LockStep(p)
    BY <1>1, MovesOfStep
  <2>3. LocksExclude'
    BY <1>0, <2>2, LocksLift
  <2>4. call'[p].at \in {"idle", "dead"} \/ call'[p].op \in calls[p].ops
    <3>1. CASE Step(p)
      BY <3>1, <1>0, OpOfStep DEF Sections, MakesOwnCalls, At
    <3>2. CASE Call(p)
      BY <3>2, <1>0, CallShape
    <3>3. CASE Crash(p)
      <4>1. call'[p] = [Resting EXCEPT !.at = "dead"]
        BY <1>0, <3>3, CrashShape
      <4> QED BY <4>1 DEF Resting
    <3> QED BY <1>1, <3>1, <3>2, <3>3
  <2>5. MakesOwnCalls'
    BY <1>o, <2>2, <2>4 DEF Sections, MakesOwnCalls, At, Moves
  <2> QED BY <2>1, <2>3, <2>5 DEF Sections
<1>2. CASE UNCHANGED vars
  BY <1>2 DEF Sections, vars, fileVars, lockVars, ghostVars, Types, Shapes, LocksExclude,
     MakesOwnCalls, At
<1> QED BY <1>1, <1>2 DEF Next, Done

(* The state always has its types: whatever the scenarios, no step leaves a *)
(* file, a mark, a lock or a call outside of them.                         *)
THEOREM TypeCorrect == Spec => []TypeOK
<1>1. Init => Sections
  BY SectionsInit
<1>2. Sections /\ [Next]_vars => Sections'
  BY SectionsStep
<1>3. Sections => TypeOK
  BY TypesOK DEF Sections
<1> QED BY <1>1, <1>2, <1>3, PTL DEF Spec

(* At most one call is in a section of the list's lock, and at most one    *)
(* between the lock of a task and its release (proper-lockfile).           *)
THEOREM LocksAreExclusive == Spec => []LocksExclude
<1>1. Init => Sections
  BY SectionsInit
<1>2. Sections /\ [Next]_vars => Sections'
  BY SectionsStep
<1>3. Sections => LocksExclude
  BY DEF Sections
<1> QED BY <1>1, <1>2, <1>3, PTL DEF Spec

-----------------------------------------------------------------------------
(* The files stay sound.                                                   *)

LEMMA AloneWithList ==
  ASSUME Sections, NEW p \in Procs, HoldsList(call[p]), NEW q \in Procs \ {p}, Moves(p)
  PROVE  Looked(call[q])'
<1>1. ~ HoldsList(call[q])
  BY DEF Sections, LocksExclude
<1>2. call'[q] = call[q] /\ PointsOf(call[q])
  BY DEF Moves, Sections, Shapes
<1>3. call[q].at \notin {"scan", "open", "fill"}
      /\ (call[q].op = "reset" => call[q].at \notin {"mark", "markOpen", "markFill", "readdir", "sweep"})
  BY <1>1, <1>2 DEF HoldsList, PointsOf
<1> QED BY <1>2, <1>3 DEF Looked

LEMMA AloneWithTask ==
  ASSUME Sections, NEW p \in Procs, HoldsTask(call[p]), NEW q \in Procs \ {p},
         call[q].cur = call[p].cur
  PROVE  ~ HoldsTask(call[q])
  BY DEF Sections, LocksExclude

\* A creation, a reset and a deletion are calls that were meant to be made.
LEMMA MeantCalls ==
  ASSUME FilesInv, NEW p \in Procs
  PROVE  /\ call[p].op = "create" => Creating
         /\ call[p].op = "delete" => ~ Creating
         /\ call[p].op # "update" => call[p].op \in calls[p].ops
<1>1. call[p].op # "update" => call[p].op \in calls[p].ops
  BY DEF FilesInv, Sections, MakesOwnCalls, At, Shapes, PointsOf
<1> QED BY <1>1 DEF FilesInv, Apart, Creating

\* A step that leaves the files as they are.
LEMMA QuietFiles ==
  ASSUME FilesInv, NEW p \in Procs, Moves(p), UNCHANGED <<file, mark, made, holder>>,
         \A q \in Procs : calls'[q].ops = calls[q].ops,
         Knows(call'[p]), Creating => Looked(call'[p]),
         call'[p].at # "refill",
         call'[p].at = "write" => file[call'[p].cur] = call'[p].base
  PROVE  Disk'
<1>1. \A i \in Ids : Given(i)' = Given(i) /\ Used(i)' = Used(i)
  BY DEF Given, Used
<1>2. KnownAreGiven'
  <2>1. \A q \in Procs : Knows(call'[q])
    BY DEF FilesInv, Disk, KnownAreGiven, Moves
  <2>2. \A q \in Procs : Knows(call[q])'
    BY <2>1 DEF Knows, Given, HoldsTask
  <2> QED BY <2>2 DEF FilesInv, Disk, KnownAreGiven, Given
<1>3. HighestOnDisk' /\ UniqueIds' /\ (Creating' <=> Creating)
  BY DEF FilesInv, Disk, HighestOnDisk, UniqueIds, Creating, Given
<1>4. KnowsHighest'
  <2>1. Creating => \A q \in Procs : Looked(call'[q])
    BY DEF FilesInv, Disk, KnowsHighest, Moves
  <2>2. Creating => \A q \in Procs : Looked(call[q])'
    BY <2>1 DEF Looked, Used, Given
  <2> QED BY <1>3, <2>2 DEF KnowsHighest
<1>5. WriteIsCurrent'
  BY DEF FilesInv, Disk, WriteIsCurrent, Moves, At
<1> QED BY <1>2, <1>3, <1>4, <1>5 DEF Disk

LEMMA UnusedId ==
  ASSUME FilesInv, NEW p \in Procs, CreateOpen(p)
  PROVE  ~ Used(NextId(call[p].high))
<1> DEFINE n == NextId(call[p].high)
<1>0. Types /\ Shapes /\ call[p] \in CallType /\ call[p].at = "open" /\ n \in Ids
  BY DEF FilesInv, Sections, Types, CreateOpen, At
<1>1. call[p].op = "create" /\ Creating
  BY <1>0, MeantCalls DEF Shapes, PointsOf
<1>2. Looked(call[p])
  BY <1>1 DEF FilesInv, Disk, KnowsHighest
<1>3. \A i \in Ids : Used(i) => i <= call[p].high \/ i <= mark
  BY <1>0, <1>2 DEF Looked
<1>4. mark <= call[p].high
  BY <1>0, <1>2 DEF Looked
<1>5. mark \in Int /\ call[p].high \in Int /\ Ids \subseteq Int
  BY <1>0, BoundsAssumption DEF Types, CallType, Ids
<1> HIDE DEF n
<1>6. n = call[p].high + 1
  BY DEF n, NextId
<1> QED BY <1>0, <1>3, <1>4, <1>5, <1>6 DEF n

LEMMA CreateOpenFiles ==
  ASSUME FilesInv, NEW p \in Procs, CreateOpen(p), Moves(p)
  PROVE  Disk'
<1> DEFINE n == NextId(call[p].high)
<1>0. Types /\ Shapes /\ call[p] \in CallType /\ call[p].at = "open" /\ n \in Ids
  BY DEF FilesInv, Sections, Types, CreateOpen, At
<1>1. call'[p] = [call[p] EXCEPT !.at = "fill", !.id = n]
  BY <1>0, CreateOpenShape
<1>2. file' = [file EXCEPT ![n] = Torn] /\ UNCHANGED <<mark, lockVars, calls, ghostVars>>
  BY DEF CreateOpen
<1>3. HoldsList(call[p]) /\ call[p].op = "create" /\ Creating
  BY <1>0, MeantCalls DEF Shapes, PointsOf, HoldsList
<1>4. ~ Used(n)
  BY UnusedId
<1>5. file[n] = Gone /\ ~ Given(n) /\ file \in [Ids -> Files]
  BY <1>0, <1>4 DEF Used, Types
<1> HIDE DEF n
<1>6. KnownAreGiven'
  <2>1. Knows(call[p])'
    <3>1. ~ HoldsTask(call'[p]) /\ call'[p].at = "fill" /\ call'[p].snap = call[p].snap /\ call'[p].op = "create"
      BY <1>0, <1>1, <1>3 DEF HoldsTask, CallType
    <3> QED BY <1>2, <3>1 DEF FilesInv, Disk, KnownAreGiven, Knows, Given, ghostVars,
               HoldsTask
  <2>2. \A q \in Procs \ {p} : Knows(call[q])'
    BY <1>2 DEF FilesInv, Disk, KnownAreGiven, Knows, Given, ghostVars, HoldsTask, Moves
  <2>3. \A i \in Ids : file'[i] \in Task => Given(i)'
    BY <1>2, <1>5, FilesAssumption DEF FilesInv, Disk, KnownAreGiven, Given, ghostVars
  <2> QED BY <1>2, <2>1, <2>2, <2>3 DEF FilesInv, Disk, KnownAreGiven, Given, ghostVars
<1>7. HighestOnDisk'
  BY <1>2, <1>5, FilesAssumption DEF FilesInv, Disk, HighestOnDisk, Given, ghostVars,
     Creating
<1>8. KnowsHighest'
  <2>1. Looked(call[p])'
    <3>1. call'[p].at = "fill" /\ call'[p].op = "create" /\ call'[p].id = n
      BY <1>0, <1>1, <1>3 DEF CallType
    <3> QED BY <1>0, <1>2, <1>5, <3>1, FilesAssumption DEF Looked, Given, ghostVars
  <2> QED BY <1>3, <2>1, AloneWithList DEF FilesInv, KnowsHighest
<1>9. WriteIsCurrent'
  <2> SUFFICES ASSUME NEW q \in Procs, call'[q].at \in {"write", "refill"}
               PROVE  /\ At(q, "write")' => file'[call'[q].cur] \in {call'[q].base, Gone}
                      /\ At(q, "refill")' => file'[call'[q].cur] \in {Torn, Gone}
    BY DEF WriteIsCurrent, At
  <2>1. q # p
    BY <1>0, <1>1 DEF CallType
  <2>2. call'[q] = call[q] /\ Given(call[q].cur)
    BY <2>1 DEF FilesInv, Disk, KnownAreGiven, Knows, HoldsTask, Moves
  <2> QED BY <1>2, <1>5, <2>2 DEF FilesInv, Disk, WriteIsCurrent, At
<1>10. UniqueIds'
  BY <1>2 DEF FilesInv, Disk, UniqueIds, ghostVars
<1> QED BY <1>6, <1>7, <1>8, <1>9, <1>10 DEF Disk

LEMMA CreateFillFiles ==
  ASSUME FilesInv, NEW p \in Procs, CreateFill(p), Moves(p)
  PROVE  Disk'
<1> DEFINE n == call[p].id
<1>0. Types /\ Shapes /\ call[p] \in CallType /\ call[p].at = "fill" /\ n \in Ids
  BY DEF FilesInv, Sections, Types, CreateFill, At, CallType
<1>1. call'[p] = Resting
  BY <1>0, EndShape DEF CreateFill
<1>3. HoldsList(call[p]) /\ call[p].op = "create" /\ Creating
  BY <1>0, MeantCalls DEF Shapes, PointsOf, HoldsList
<1>4. ~ Given(n) /\ file[n] # Gone
  BY <1>0, <1>3 DEF FilesInv, Disk, KnowsHighest, Looked
<1>2. file' = [file EXCEPT ![n] = NewTask] /\ made' = [made EXCEPT ![n] = @ + 1]
      /\ UNCHANGED <<mark, calls, holder>>
  BY <1>0, <1>4 DEF CreateFill, Filled, Types
<1>5. made[n] = 0 /\ file \in [Ids -> Files] /\ made \in [Ids -> Nat] /\ NewTask # Gone
  <2>1. NewTask \in Task
    BY DEF NewTask, Task, Statuses
  <2> QED BY <1>0, <1>4, <2>1, FilesAssumption DEF Types, Given
<1> HIDE DEF n
<1>6. \A i \in Ids : Given(i)' <=> Given(i) \/ i = n
  BY <1>0, <1>2, <1>5 DEF Given
<1>7. KnownAreGiven'
  <2>1. Knows(Resting)'
    BY RestingHolds DEF Knows, Resting
  <2>2. \A q \in Procs \ {p} : Knows(call[q])'
    <3> TAKE q \in Procs \ {p}
    <3>1. call'[q] = call[q] /\ Knows(call[q]) /\ call[q] \in CallType
      BY <1>0 DEF FilesInv, Disk, KnownAreGiven, Moves, Types
    <3>2. call[q].cur \in Ids /\ DOMAIN call[q].todo \subseteq Ids
      BY <3>1 DEF CallType, Todos
    <3> QED BY <1>6, <3>1, <3>2 DEF Knows, HoldsTask
  <2>3. \A i \in Ids : file'[i] \in Task => Given(i)'
    BY <1>2, <1>5, <1>6 DEF FilesInv, Disk, KnownAreGiven
  <2>4. Knows(call[p])'
    BY <1>1, <2>1 DEF Knows, HoldsTask
  <2> QED BY <1>2, <1>6, <2>2, <2>3, <2>4 DEF FilesInv, Disk, KnownAreGiven
<1>8. HighestOnDisk'
  <2>1. \A i \in Ids : file[i] # Gone => file'[i] # Gone
    BY <1>2, <1>5
  <2>2. file'[n] # Gone /\ n <= n
    BY <1>0, <1>2, <1>5 DEF Ids
  <2> QED BY <1>0, <1>2, <1>3, <1>6, <2>1, <2>2 DEF FilesInv, Disk, HighestOnDisk
<1>9. KnowsHighest'
  <2>1. Looked(call[p])'
    BY <1>1 DEF Looked, Resting
  <2> QED BY <1>3, <2>1, AloneWithList DEF FilesInv, KnowsHighest
<1>10. WriteIsCurrent'
  <2> SUFFICES ASSUME NEW q \in Procs, call'[q].at \in {"write", "refill"}
               PROVE  /\ At(q, "write")' => file'[call'[q].cur] \in {call'[q].base, Gone}
                      /\ At(q, "refill")' => file'[call'[q].cur] \in {Torn, Gone}
    BY DEF WriteIsCurrent, At
  <2>1. q # p
    BY <1>1 DEF Resting
  <2>2. call'[q] = call[q] /\ Given(call[q].cur)
    BY <2>1 DEF FilesInv, Disk, KnownAreGiven, Knows, HoldsTask, Moves
  <2> QED BY <1>2, <1>4, <2>2 DEF FilesInv, Disk, WriteIsCurrent, At
<1>11. UniqueIds'
  BY <1>0, <1>2, <1>5 DEF FilesInv, Disk, UniqueIds
<1> QED BY <1>7, <1>8, <1>9, <1>10, <1>11 DEF Disk

\* A step that writes the mark; only a reset may, in a scenario that creates.
LEMMA MarkFiles ==
  ASSUME FilesInv, NEW p \in Procs, MarkOpen(p) \/ MarkFill(p), Moves(p)
  PROVE  Disk'
<1>0. Types /\ Shapes /\ call[p] \in CallType /\ call[p].at \in {"markOpen", "markFill"}
  BY DEF FilesInv, Sections, Types, MarkOpen, MarkFill, At
<1>1. PICK a \in {"markOpen", "markFill", "readdir", "unlink"} : call'[p] = [call[p] EXCEPT !.at = a]
  BY <1>0, MarkShape
<1>2. UNCHANGED <<file, lockVars, calls, ghostVars>>
  BY DEF MarkOpen, MarkFill
<1>3. call'[p].at = a /\ call'[p].op = call[p].op /\ call'[p].snap = call[p].snap
      /\ call'[p].todo = call[p].todo /\ call'[p].high = call[p].high
  BY <1>0, <1>1 DEF CallType
<1>a. MarkOpen(p) => a = "markFill"
  BY <1>0, <1>3 DEF MarkOpen, Goto, Types
<1>b. MarkFill(p) => a = AfterMark(call[p].op)
  BY <1>0, <1>3 DEF MarkFill, Goto, Types
<1>4. KnownAreGiven'
  <2>1. Knows(call[p])'
    <3>1. ~ HoldsTask(call'[p]) /\ call'[p].at # "lock"
      BY <1>0, <1>1, <1>3 DEF HoldsTask, Shapes, PointsOf
    <3> QED BY <1>2, <1>3, <3>1 DEF FilesInv, Disk, KnownAreGiven, Knows, Given, ghostVars,
               HoldsTask
  <2>2. \A q \in Procs \ {p} : Knows(call[q])'
    BY <1>2 DEF FilesInv, Disk, KnownAreGiven, Knows, Given, ghostVars, HoldsTask, Moves
  <2> QED BY <1>2, <2>1, <2>2 DEF FilesInv, Disk, KnownAreGiven, Given, ghostVars
<1>5. ASSUME Creating PROVE HighestOnDisk' /\ KnowsHighest'
  <2>1. call[p].op = "reset"
    BY <1>0, <1>5, MeantCalls DEF Shapes, PointsOf
  <2>2. HoldsList(call[p]) /\ Looked(call[p])
    BY <1>0, <1>5, <2>1 DEF HoldsList, FilesInv, Disk, KnowsHighest
  <2>3. call[p].high \in Ids /\ file[call[p].high] # Gone /\ \A i \in Ids : Used(i) => i <= call[p].high
    BY <1>0, <2>1, <2>2 DEF Looked
  <2>4. \A i \in Ids : Given(i)' = Given(i) /\ Used(i)' = Used(i)
    BY <1>2 DEF Used, Given, ghostVars
  <2>5. HighestOnDisk'
    BY <1>2, <2>3, <2>4 DEF HighestOnDisk, Used
  <2>6. Looked(call[p])'
    <3>1. CASE MarkOpen(p)
      BY <1>2, <1>3, <1>a, <2>1, <2>3, <2>4, <3>1 DEF Looked
    <3>2. CASE MarkFill(p)
      <4>1. mark' = call[p].high /\ call'[p].at = "readdir"
        BY <1>3, <1>b, <2>1, <3>2 DEF MarkFill, AfterMark
      <4> QED BY <1>3, <2>1, <2>3, <2>4, <4>1 DEF Looked
    <3> QED BY <3>1, <3>2
  <2> QED BY <2>2, <2>5, <2>6, AloneWithList DEF FilesInv, KnowsHighest
<1>6. (Creating' <=> Creating) /\ (~ Creating => HighestOnDisk' /\ KnowsHighest')
  BY <1>2 DEF Creating, HighestOnDisk, KnowsHighest
<1>7. WriteIsCurrent' /\ UniqueIds'
  BY <1>1, <1>2, <1>3 DEF FilesInv, Disk, WriteIsCurrent, UniqueIds, At, Moves, ghostVars
<1> QED BY <1>4, <1>5, <1>6, <1>7 DEF Disk

\* A step that removes a file.
LEMMA RemoveFiles ==
  ASSUME FilesInv, NEW p \in Procs, Sweep(p) \/ Unlink(p), Moves(p)
  PROVE  Disk'
<1>0. Types /\ Shapes /\ call[p] \in CallType /\ call[p].at \in {"sweep", "unlink"}
  BY DEF FilesInv, Sections, Types, Sweep, Unlink, At
<1>1. PICK i \in Ids : Remove(i)
  BY <1>0 DEF Sweep, Unlink, CallType
<1>2. UNCHANGED <<mark, lockVars, calls, made>>
  BY DEF Sweep, Unlink
<1>3. /\ file' = [file EXCEPT ![i] = Gone] /\ holder' = [holder EXCEPT ![i] = Nobody]
      /\ file \in [Ids -> Files] /\ holder \in [Ids -> Owners]
  BY <1>0, <1>1 DEF Remove, Types
<1>4. call'[p].at \in {"sweep", "readdir"} /\ call'[p].op = call[p].op /\ call'[p].snap = call[p].snap
      /\ call'[p].todo = call[p].todo
      /\ call[p].op = IF Sweep(p) THEN "reset" ELSE "delete"
  <2>1. CASE Sweep(p)
    <3>1. PICK j : call'[p] = [call[p] EXCEPT !.left = @ \ {j}] /\ call[p].op = "reset"
      BY <1>0, <2>1, SweepShape
    <3>2. call[p].at = "sweep"
      BY <2>1 DEF Sweep, At
    <3> QED BY <1>0, <2>1, <3>1, <3>2 DEF CallType
  <2>2. CASE ~ Sweep(p) /\ Unlink(p)
    <3>1. call' = [call EXCEPT ![p].at = "readdir"] /\ call[p].at = "unlink"
      BY <2>2 DEF Unlink, Goto, At
    <3> QED BY <1>0, <2>2, <3>1 DEF Types, CallType, Shapes, PointsOf
  <2> QED BY <2>1, <2>2
<1>5. KnownAreGiven'
  <2>1. Knows(call[p])'
    <3>1. ~ HoldsTask(call'[p]) /\ call'[p].at # "lock" /\ call[p].op # "unassign"
      BY <1>0, <1>4 DEF HoldsTask, Shapes, PointsOf
    <3> QED BY <1>2, <1>4, <3>1 DEF FilesInv, Disk, KnownAreGiven, Knows, Given, HoldsTask
  <2>2. \A q \in Procs \ {p} : Knows(call[q])'
    BY <1>2 DEF FilesInv, Disk, KnownAreGiven, Knows, Given, HoldsTask, Moves
  <2>3. \A j \in Ids : file'[j] \in Task => Given(j)'
    BY <1>2, <1>3, FilesAssumption DEF FilesInv, Disk, KnownAreGiven, Given
  <2>4. \A j \in Ids : ~ Given(j)' => holder'[j] = Nobody
    BY <1>2, <1>3 DEF FilesInv, Disk, KnownAreGiven, Given
  <2> QED BY <2>1, <2>2, <2>3, <2>4 DEF KnownAreGiven
<1>6. ASSUME Creating PROVE HighestOnDisk' /\ KnowsHighest'
  <2>1. call[p].op = "reset" /\ call[p].at = "sweep"
    BY <1>0, <1>4, <1>6, MeantCalls DEF Shapes, PointsOf
  <2>2. HoldsList(call[p]) /\ Looked(call[p])
    BY <1>6, <2>1 DEF HoldsList, FilesInv, Disk, KnowsHighest
  <2>3. \A j \in Ids : Used(j) => j <= mark
    BY <2>1, <2>2 DEF Looked
  <2>4. \A j \in Ids : Given(j)' = Given(j) /\ (Used(j)' => Used(j))
    BY <1>2, <1>3 DEF Used, Given
  <2>5. HighestOnDisk'
    BY <1>2, <2>3, <2>4 DEF HighestOnDisk, Used
  <2>6. Looked(call[p])'
    BY <1>2, <1>4, <2>1, <2>3, <2>4 DEF Looked
  <2> QED BY <2>2, <2>5, <2>6, AloneWithList DEF FilesInv, KnowsHighest
<1>7. (Creating' <=> Creating) /\ (~ Creating => HighestOnDisk' /\ KnowsHighest')
  BY <1>2 DEF Creating, HighestOnDisk, KnowsHighest
<1>8. WriteIsCurrent'
  BY <1>3, <1>4 DEF FilesInv, Disk, WriteIsCurrent, At, Moves
<1>9. UniqueIds'
  BY <1>2 DEF FilesInv, Disk, UniqueIds
<1> QED BY <1>5, <1>6, <1>7, <1>8, <1>9 DEF Disk

\* The two steps that write a task under its lock.
LEMMA WriteFiles ==
  ASSUME FilesInv, NEW p \in Procs, Write(p) \/ Refill(p), Moves(p)
  PROVE  Disk'
<1> DEFINE n == call[p].cur
<1>0. Types /\ Shapes /\ call[p] \in CallType /\ n \in Ids /\ HoldsTask(call[p]) /\ call[p].at \in {"write", "refill"}
  BY DEF FilesInv, Sections, Types, Write, Refill, At, CallType, HoldsTask
<1>1. PICK f : file' = [file EXCEPT ![n] = f] /\ (f \in Task \cup {Torn} \/ f = file[n])
  BY <1>0, RefillShape DEF Write, Refill, Filled
<1>2. UNCHANGED <<mark, calls, made>>
  BY DEF Write, Refill, ghostVars
<1>3. /\ f # Gone \/ f = file[n]
      /\ Given(n) /\ file \in [Ids -> Files] /\ holder \in [Ids -> Owners]
  BY <1>0, <1>1, FilesAssumption DEF FilesInv, Disk, KnownAreGiven, Knows, Types
<1>4. \A i \in Ids : Given(i)' = Given(i) /\ Used(i)' = Used(i) /\ (file[i] # Gone => file'[i] # Gone)
  BY <1>1, <1>2, <1>3 DEF Given, Used
<1>5. /\ call'[p].op = call[p].op /\ call'[p].snap = call[p].snap /\ call'[p].op \in Updating
      /\ DOMAIN call'[p].todo \subseteq DOMAIN call[p].todo
      /\ Write(p) => call'[p].at = "refill" /\ call'[p].cur = n
      /\ ~ Write(p) => call'[p].at = "update"
  <2>1. call[p].op \in Updating
    BY <1>0 DEF Shapes, PointsOf
  <2>2. CASE Write(p)
    <3>1. call'[p] = [call[p] EXCEPT !.at = "refill"]
      BY <1>0, <2>2, WriteShape
    <3> QED BY <1>0, <2>1, <2>2, <3>1 DEF CallType
  <2>3. CASE ~ Write(p) /\ Refill(p)
    BY <1>0, <2>1, <2>3, RefillShape, DroppedIs
  <2> QED BY <2>2, <2>3
<1> HIDE DEF n
<1>6. KnownAreGiven'
  <2>1. Knows(call[p])'
    <3>1. Knows(call[p]) /\ DOMAIN call[p].todo \subseteq Ids
      BY <1>0 DEF FilesInv, Disk, KnownAreGiven, CallType, Todos
    <3>2. call'[p].at = "lock" \/ HoldsTask(call'[p]) => call'[p].cur = n
      BY <1>5 DEF HoldsTask, Updating
    <3> QED BY <1>0, <1>3, <1>4, <1>5, <3>1, <3>2 DEF Knows, HoldsTask
  <2>2. \A q \in Procs \ {p} : Knows(call[q])'
    BY <1>2 DEF FilesInv, Disk, KnownAreGiven, Knows, Given, HoldsTask, Moves
  <2>3. \A j \in Ids : file'[j] \in Task => Given(j)'
    BY <1>1, <1>3, <1>4 DEF FilesInv, Disk, KnownAreGiven
  <2>4. \A j \in Ids : ~ Given(j)' => holder'[j] = Nobody
    <3>1. \A j \in Ids : j # n => holder'[j] = holder[j]
      BY <1>3 DEF Write, Refill, ghostVars, n
    <3> QED BY <1>3, <1>4, <3>1 DEF FilesInv, Disk, KnownAreGiven
  <2> QED BY <2>1, <2>2, <2>3, <2>4 DEF KnownAreGiven
<1>7. Creating' <=> Creating
  BY <1>2 DEF Creating
<1>8. HighestOnDisk'
  BY <1>2, <1>4, <1>7 DEF FilesInv, Disk, HighestOnDisk
<1>9. KnowsHighest'
  <2> SUFFICES ASSUME Creating, NEW q \in Procs
               PROVE  Looked(call[q])'
    BY <1>7 DEF KnowsHighest
  <2>1. CASE q = p
    BY <1>5, <2>1 DEF Looked, Updating
  <2>2. CASE q # p
    <3>1. call'[q] = call[q] /\ Looked(call[q]) /\ call[q] \in CallType
      BY <1>0, <2>2 DEF FilesInv, Disk, KnowsHighest, Moves, Types
    <3>2. call[q].id \in Ids
      BY <3>1 DEF CallType
    <3> QED BY <1>2, <1>4, <3>1, <3>2 DEF Looked
  <2> QED BY <2>1, <2>2
<1>10. WriteIsCurrent'
  <2> SUFFICES ASSUME NEW q \in Procs, call'[q].at \in {"write", "refill"}
               PROVE  /\ At(q, "write")' => file'[call'[q].cur] \in {call'[q].base, Gone}
                      /\ At(q, "refill")' => file'[call'[q].cur] \in {Torn, Gone}
    BY DEF WriteIsCurrent, At
  <2>1. CASE q = p
    <3>1. Write(p)
      BY <1>5, <2>1
    <3>2. call'[p].at = "refill" /\ call'[p].cur = n /\ file' = [file EXCEPT ![n] = Torn]
      BY <1>5, <3>1 DEF Write, n
    <3> QED BY <1>0, <1>3, <2>1, <3>2 DEF At, n
  <2>2. CASE q # p
    <3>1. call'[q] = call[q] /\ HoldsTask(call[q])
      BY <2>2 DEF Moves, HoldsTask
    <3>2. call[q].cur # n
      BY <1>0, <2>2, <3>1, AloneWithTask DEF FilesInv, n
    <3> QED BY <1>1, <3>1, <3>2 DEF FilesInv, Disk, WriteIsCurrent, At
  <2> QED BY <2>1, <2>2
<1>11. UniqueIds'
  BY <1>2 DEF FilesInv, Disk, UniqueIds
<1> QED BY <1>6, <1>8, <1>9, <1>10, <1>11 DEF Disk

(* What a call that leaves the files knows next.                           *)
Learns(p) ==
  /\ UNCHANGED <<file, mark, made, holder>>
  /\ Knows(call'[p]) /\ (Creating => Looked(call'[p]))
  /\ call'[p].at # "refill"
  /\ call'[p].at = "write" => file[call'[p].cur] = call'[p].base

\* A call that has ended knows nothing, one outside of the list's lock need not look.
LEMMA RestingLearns ==
  ASSUME NEW c \in {Resting, [Resting EXCEPT !.at = "dead"]}
  PROVE  Knows(c) /\ Looked(c)
<1>1. c.at \in {"idle", "dead"} /\ c.op = "update" /\ \A i \in Ids : c.snap[i] = Gone
  BY DEF Resting
<1> QED BY <1>1 DEF Knows, Looked, HoldsTask

LEMMA OutsideLooks ==
  ASSUME NEW c, PointsOf(c), ~ HoldsList(c)
  PROVE  Looked(c)
<1>1. c.at \notin {"scan", "open", "fill"}
      /\ (c.op = "reset" => c.at \notin {"mark", "markOpen", "markFill", "readdir", "sweep"})
  BY DEF HoldsList, PointsOf
<1> QED BY <1>1 DEF Looked

LEMMA UpdatingLooks ==
  ASSUME NEW c, PointsOf(c), c.op \in Updating
  PROVE  Looked(c)
<1>1. c.at \notin {"scan", "open", "fill"} /\ c.op # "reset"
  BY DEF PointsOf, Updating
<1> QED BY <1>1 DEF Looked

LEMMA EndLearns ==
  ASSUME FilesInv, NEW p \in Procs, Finish(p), UNCHANGED <<file, mark, made, holder>>
  PROVE  Learns(p)
<1>1. call'[p] = Resting
  BY EndShape DEF FilesInv, Sections
<1> QED BY <1>1, RestingLearns DEF Learns, Resting

\* What a call that goes on knew, it knows.
LEMMA SameKnown ==
  ASSUME FilesInv, NEW p \in Procs, call'[p].snap = call[p].snap, call'[p].op = call[p].op,
         DOMAIN call'[p].todo \subseteq DOMAIN call[p].todo,
         call'[p].at = "lock" \/ HoldsTask(call'[p]) => Given(call'[p].cur)
  PROVE  Knows(call'[p])
  BY DEF FilesInv, Disk, KnownAreGiven, Knows

LEMMA CreateLearns ==
  ASSUME FilesInv, NEW p \in Procs, Moves(p), ScanFiles(p) \/ ScanMark(p)
  PROVE  Learns(p)
<1>0. Types /\ Shapes /\ call[p] \in CallType /\ PointsOf(call[p]) /\ call[p].at = "scan" /\ mark \in 0 .. MaxId
  BY DEF FilesInv, Sections, Types, Shapes, ScanFiles, ScanMark, Scanned, At
<1>1. PICK what \in {"files", "mark"}, value \in 0 .. MaxId :
        /\ Scanned(p, what, value)
        /\ IF what = "files" THEN value = Highest(Present) ELSE value = mark
  BY <1>0, PresentIds DEF ScanFiles, ScanMark
<1> DEFINE c == call'[p]
<1>2. /\ c.at = IF call[p].scan = {what} THEN "open" ELSE "scan"
      /\ c.op = "create" /\ c.snap = call[p].snap
      /\ c.scan = call[p].scan \ {what}
      /\ c.high = IF value > call[p].high THEN value ELSE call[p].high
  BY <1>0, <1>1, ScannedShape
<1>3. UNCHANGED <<file, mark, made, holder>>
  BY <1>1 DEF Scanned, fileVars, ghostVars
<1>4. call[p].op = "create" /\ Creating
  BY <1>0, MeantCalls DEF PointsOf
<1>5. Looked(call[p]) /\ HighestOnDisk
  BY <1>4 DEF FilesInv, Disk, KnowsHighest
<1>6. /\ value \in Int /\ call[p].high \in Int /\ mark \in Int /\ Ids \subseteq Int
  BY <1>0, <1>1, BoundsAssumption DEF CallType, Ids
<1>7. c.high \in Int /\ call[p].high <= c.high /\ value <= c.high
  BY <1>2, <1>6
<1>8. "mark" \notin c.scan => mark <= c.high
  <2>1. CASE what = "mark"
    BY <1>1, <1>7, <2>1
  <2>2. CASE what = "files" /\ "mark" \notin c.scan
    <3>1. mark <= call[p].high
      BY <1>0, <1>2, <1>5, <2>2 DEF Looked
    <3> QED BY <1>6, <1>7, <3>1
  <2> QED BY <2>1, <2>2
<1>9. "files" \notin c.scan => \A i \in Ids : Used(i) => i <= c.high \/ i <= mark
  <2>1. CASE what = "files"
    <3> SUFFICES ASSUME NEW i \in Ids, Used(i) PROVE i <= value \/ i <= mark
      BY <1>6, <1>7
    <3>1. \A j \in Present : j <= value
      BY <1>1, <2>1, PresentIds, HighestIs
    <3>2. CASE file[i] # Gone
      BY <3>1, <3>2 DEF Present
    <3>3. CASE Given(i)
      <4>1. CASE i <= mark
        BY <4>1
      <4>2. CASE \E j \in Ids : i <= j /\ file[j] # Gone
        <5>1. PICK j \in Ids : i <= j /\ file[j] # Gone
          BY <4>2
        <5>2. j <= value
          BY <3>1, <5>1 DEF Present
        <5> QED BY <1>6, <5>1, <5>2
      <4> QED BY <1>4, <1>5, <3>3, <4>1, <4>2 DEF HighestOnDisk
    <3> QED BY <3>2, <3>3 DEF Used
  <2>2. CASE what = "mark" /\ "files" \notin c.scan
    <3>1. \A i \in Ids : Used(i) => i <= call[p].high \/ i <= mark
      BY <1>0, <1>2, <1>5, <2>2 DEF Looked
    <3> QED BY <1>6, <1>7, <3>1
  <2> QED BY <1>1, <2>1, <2>2
<1>10. c.at \in {"scan", "open"} /\ (c.at = "open" => c.scan = {})
  BY <1>2
<1> HIDE DEF c
<1>11. Looked(c)
  BY <1>2, <1>8, <1>9, <1>10 DEF Looked
<1>12. Knows(c)
  BY <1>2, <1>10 DEF FilesInv, Disk, KnownAreGiven, Knows, HoldsTask, c
<1> QED BY <1>3, <1>10, <1>11, <1>12 DEF Learns, c

LEMMA ResetLearns ==
  ASSUME FilesInv, NEW p \in Procs, Moves(p), FindHighest(p) \/ ReadMark(p)
  PROVE  Learns(p)
<1>0. Types /\ Shapes /\ call[p] \in CallType /\ PointsOf(call[p]) /\ call[p].at \in {"highest", "mark"}
      /\ mark \in 0 .. MaxId /\ UNCHANGED <<file, mark, made, holder>>
  BY DEF FilesInv, Sections, Types, Shapes, FindHighest, ReadMark, At, fileVars, ghostVars
<1>i. /\ call[p].high \in Int /\ mark \in Int /\ Ids \subseteq Int /\ Highest(Present) \in Int
  BY <1>0, PresentIds, BoundsAssumption DEF CallType, Ids
<1>1. CASE FindHighest(p)
  <2>1. call'[p] = [call[p] EXCEPT !.high = Highest(Present),
                           !.at = IF Highest(Present) > 0 THEN "mark" ELSE "readdir"]
    BY <1>0, <1>1, FindHighestShape
  <2>2. /\ call'[p].high = Highest(Present) /\ call'[p].snap = call[p].snap
        /\ call'[p].op = call[p].op /\ call'[p].todo = call[p].todo
        /\ call'[p].at = IF Highest(Present) > 0 THEN "mark" ELSE "readdir"
    BY <1>0, <2>1 DEF CallType
  <2>3. call[p].op = "reset"
    BY <1>0, <1>1 DEF FindHighest, At, PointsOf
  <2>4. ASSUME Creating PROVE Looked(call'[p])
    <3>1. \A j \in Present : j <= Highest(Present)
      BY PresentIds, HighestIs
    <3>2. \A i \in Ids : Used(i) => i <= Highest(Present) \/ i <= mark
      <4> SUFFICES ASSUME NEW i \in Ids, Used(i), ~ (i <= mark) PROVE i <= Highest(Present)
        OBVIOUS
      <4>1. PICK j \in Ids : i <= j /\ file[j] # Gone
        BY <1>i, <2>4 DEF FilesInv, Disk, HighestOnDisk, Used
      <4>2. j <= Highest(Present)
        BY <3>1, <4>1 DEF Present
      <4> QED BY <1>i, <4>1, <4>2
    <3>3. CASE Highest(Present) > 0
      <4>1. Highest(Present) \in Present
        BY <1>i, <3>3, PresentIds, HighestIs
      <4>2. Highest(Present) \in Ids /\ file[Highest(Present)] # Gone
        BY <4>1 DEF Present
      <4> QED BY <2>2, <2>3, <3>2, <3>3, <4>2 DEF Looked
    <3>4. CASE ~ (Highest(Present) > 0)
      <4>1. \A i \in Ids : i > 0
        BY BoundsAssumption DEF Ids
      <4>2. \A i \in Ids : Used(i) => i <= mark
        BY <1>i, <3>2, <3>4, <4>1
      <4> QED BY <2>2, <2>3, <3>4, <4>2 DEF Looked
    <3> QED BY <3>3, <3>4
  <2>5. ~ HoldsTask(call'[p]) /\ call'[p].at \in {"mark", "readdir"}
    BY <2>2, <2>3 DEF HoldsTask
  <2>6. Knows(call'[p])
    BY <2>2, <2>5, SameKnown
  <2> QED BY <1>0, <2>4, <2>5, <2>6 DEF Learns
<1>2. CASE ReadMark(p)
  <2> DEFINE a == IF call[p].high > mark THEN "markOpen" ELSE AfterMark(call[p].op)
  <2>1. call' = [call EXCEPT ![p].at = a] /\ call[p].at = "mark"
    BY <1>2 DEF ReadMark, Goto, At
  <2>2. /\ call'[p].high = call[p].high /\ call'[p].snap = call[p].snap
        /\ call'[p].op = call[p].op /\ call'[p].todo = call[p].todo
        /\ call'[p].at = a
    BY <1>0, <2>1 DEF CallType, Types
  <2>3. call[p].op \in {"reset", "delete"}
    BY <1>0, <2>1 DEF PointsOf
  <2>4. ASSUME Creating PROVE Looked(call'[p])
    <3>1. call[p].op = "reset" /\ Looked(call[p])
      BY <2>3, <2>4, MeantCalls DEF FilesInv, Disk, KnowsHighest
    <3>2. /\ call[p].high \in Ids /\ file[call[p].high] # Gone
          /\ \A i \in Ids : Used(i) => i <= call[p].high \/ i <= mark
      BY <2>1, <3>1 DEF Looked
    <3>3. CASE call[p].high > mark
      <4>1. call'[p].at = "markOpen" /\ \A i \in Ids : Used(i) => i <= call[p].high
        BY <1>i, <2>2, <3>2, <3>3
      <4> QED BY <2>2, <3>1, <3>2, <4>1 DEF Looked
    <3>4. CASE ~ (call[p].high > mark)
      <4>1. call'[p].at = "readdir" /\ \A i \in Ids : Used(i) => i <= mark
        BY <1>i, <2>2, <3>1, <3>2, <3>4 DEF AfterMark
      <4> QED BY <2>2, <3>1, <4>1 DEF Looked
    <3> QED BY <3>3, <3>4
  <2>5. ~ HoldsTask(call'[p]) /\ call'[p].at \in {"markOpen", "readdir", "unlink"}
    BY <2>2, <2>3 DEF HoldsTask, AfterMark
  <2>6. Knows(call'[p])
    BY <2>2, <2>5, SameKnown
  <2> QED BY <1>0, <2>4, <2>5, <2>6 DEF Learns
<1> QED BY <1>1, <1>2

LEMMA ListLearns ==
  ASSUME FilesInv, NEW p \in Procs, Moves(p), LockList(p) \/ ReadDir(p) \/ ReadOne(p)
  PROVE  Learns(p)
<1>0. Types /\ Shapes /\ call[p] \in CallType /\ PointsOf(call[p]) /\ Planned(p, call[p]) /\ Knows(call[p])
      /\ UNCHANGED <<file, mark, made, holder>> /\ call \in [Procs -> CallType]
  BY DEF FilesInv, Sections, Types, Shapes, LockList, ReadDir, ReadOne, fileVars,
     ghostVars, Disk, KnownAreGiven
<1>p. PointsOf(call'[p])
  BY DEF Moves, Shapes
<1>1. CASE LockList(p)
  <2>1. call'[p] = [call[p] EXCEPT !.at = AfterListLock(call[p].op)] /\ call[p].at = "listLock"
    BY <1>0, <1>1, LockListShape DEF LockList, At
  <2>2. call[p].op \in {"create", "reset", "claimBusy"}
    BY <1>0, <2>1 DEF PointsOf
  <2>3. /\ call'[p].snap = call[p].snap /\ call'[p].op = call[p].op /\ call'[p].todo = call[p].todo
        /\ call'[p].scan = call[p].scan
        /\ call'[p].at = AfterListLock(call[p].op)
    BY <1>0, <2>1 DEF CallType
  <2>4. call[p].op = "create" => call[p].scan = {"files", "mark"}
    BY <1>0, <2>1 DEF Planned
  <2>5. Looked(call'[p])
    BY <2>2, <2>3, <2>4 DEF Looked, AfterListLock
  <2>6. ~ HoldsTask(call'[p]) /\ call'[p].at \in {"scan", "highest", "readdir"}
    BY <2>2, <2>3 DEF HoldsTask, AfterListLock
  <2>7. Knows(call'[p])
    BY <2>3, <2>6, SameKnown
  <2> QED BY <1>0, <2>5, <2>6, <2>7 DEF Learns
<1>2. CASE ReadDir(p)
  <2>1. call'[p] = [call[p] EXCEPT !.left = Present,
                           !.at = IF call[p].op = "reset" THEN "sweep" ELSE "read"] /\ call[p].at = "readdir"
    BY <1>0, <1>2, ReadDirShape DEF ReadDir, At
  <2>3. /\ call'[p].snap = call[p].snap /\ call'[p].op = call[p].op /\ call'[p].todo = call[p].todo
        /\ call'[p].cur = call[p].cur /\ call'[p].at = IF call[p].op = "reset" THEN "sweep" ELSE "read"
    BY <1>0, <2>1 DEF CallType
  <2>4. ASSUME Creating PROVE Looked(call'[p])
    <3>1. Looked(call[p])
      BY <2>4 DEF FilesInv, Disk, KnowsHighest
    <3> QED BY <2>1, <2>3, <3>1 DEF Looked
  <2>5. HoldsTask(call'[p]) => HoldsTask(call[p])
    BY <2>1, <2>3 DEF HoldsTask
  <2>6. Knows(call'[p])
    BY <1>0, <2>3, <2>5, SameKnown DEF Knows
  <2> QED BY <1>0, <2>3, <2>4, <2>6 DEF Learns
<1>3. CASE ReadOne(p)
  <2>1. PICK i \in Ids : call'[p] = [call[p] EXCEPT !.left = @ \ {i}, !.snap[i] = Read(file[i])]
    BY <1>0, <1>3, ReadOneShape
  <2>2. call[p].at = "read"
    BY <1>3 DEF ReadOne, At
  <2>3. /\ call'[p].snap = [call[p].snap EXCEPT ![i] = Read(file[i])]
        /\ call'[p].op = call[p].op /\ call'[p].todo = call[p].todo
        /\ call'[p].cur = call[p].cur /\ call'[p].at = "read"
    BY <1>0, <2>1, <2>2 DEF CallType
  <2>4. Looked(call'[p])
    BY <2>3 DEF Looked
  <2>5. Read(file[i]) # Gone => Given(i)
    BY <1>0 DEF FilesInv, Disk, KnownAreGiven, Read, Types, Files
  <2>6. call[p].snap \in [Ids -> Task \cup {Gone}]
    BY <1>0 DEF CallType
  <2>7. \A j \in Ids : call'[p].snap[j] # Gone => Given(j)
    BY <1>0, <2>3, <2>5, <2>6 DEF Knows
  <2>8. Knows(call'[p])
    BY <1>0, <2>2, <2>3, <2>7 DEF Knows, HoldsTask
  <2> QED BY <1>0, <2>3, <2>4, <2>8 DEF Learns
<1> QED BY <1>1, <1>2, <1>3

LEMMA PlanLearns ==
  ASSUME FilesInv, NEW p \in Procs, Moves(p),
         PlanCascade(p) \/ PlanUnassign(p) \/ PlanBlock(p) \/ DecideBusyClaim(p)
  PROVE  Learns(p)
<1>0. Types /\ Shapes /\ call[p] \in CallType /\ PointsOf(call[p]) /\ Knows(call[p])
      /\ UNCHANGED <<file, mark, made, holder>>
  BY DEF FilesInv, Sections, Types, Shapes, PlanCascade, PlanUnassign, PlanBlock,
     DecideBusyClaim, fileVars, ghostVars, Disk, KnownAreGiven
<1>1. CASE Finish(p)
  BY <1>0, <1>1, EndLearns
<1>2. CASE ~ Finish(p)
  <2>1. PICK todo \in Todos :
          /\ call'[p] = [call[p] EXCEPT !.todo = todo, !.snap = Resting.snap, !.at = "update"]
          /\ PlanUnassign(p) => \A i \in DOMAIN todo : i \in Ids /\ call[p].snap[i] # Gone
    <3>1. CASE PlanUnassign(p)
      <4>1. PICK todo \in Todos :
              /\ call'[p] = [call[p] EXCEPT !.todo = todo, !.snap = Resting.snap, !.at = "update"]
              /\ \A i \in DOMAIN todo : /\ i \in Ids /\ call[p].snap[i] # Gone
                                        /\ call[p].snap[i].owner = call[p].agent
        BY <1>0, <3>1, PlanUnassignShape, Zenon
      <4> QED BY <4>1
    <3>2. CASE ~ PlanUnassign(p)
      BY <1>0, <1>2, <3>2, PlanCascadeShape, PlanBlockShape, DecideBusyShape
    <3> QED BY <3>1, <3>2
  <2>2. /\ call'[p].todo = todo /\ call'[p].snap = Resting.snap /\ call'[p].at = "update"
        /\ call'[p].op = call[p].op
    BY <1>0, <2>1 DEF CallType
  <2>3. call[p].op = "unassign" => PlanUnassign(p)
    BY DEF PlanCascade, PlanUnassign, PlanBlock, DecideBusyClaim, Listed
  <2>4. Knows(call'[p])
    BY <1>0, <2>1, <2>2, <2>3, RestingSnap DEF Knows, HoldsTask
  <2>5. Looked(call'[p])
    BY <2>2 DEF Looked
  <2> QED BY <1>0, <2>2, <2>4, <2>5 DEF Learns
<1> QED BY <1>1, <1>2

LEMMA ClaimLearns ==
  ASSUME FilesInv, NEW p \in Procs, Moves(p), ClaimRead(p) \/ DecideClaim(p)
  PROVE  Learns(p)
<1>0. Types /\ Shapes /\ call[p] \in CallType /\ PointsOf(call[p]) /\ Knows(call[p])
      /\ UNCHANGED <<file, mark, made, holder>>
  BY DEF FilesInv, Sections, Types, Shapes, ClaimRead, DecideClaim, fileVars, ghostVars,
     Disk, KnownAreGiven
<1>1. CASE Finish(p)
  BY <1>0, <1>1, EndLearns
<1>2. CASE ~ Finish(p)
  <2>0. call[p].op = "claim" /\ call[p].at \in {"claimRead", "read"}
    BY <1>0, ClaimReadShape, DecideClaimShape
  <2>1. \/ call'[p] = [call[p] EXCEPT !.base = file[call[p].id], !.at = "readdir"]
        \/ call'[p] = [call[p] EXCEPT !.snap = Resting.snap, !.at = "reread"]
    BY <1>0, <1>2, ClaimReadShape, DecideClaimShape
  <2>2. /\ call'[p].op = "claim" /\ call'[p].todo = call[p].todo /\ call'[p].cur = call[p].cur
        /\ call'[p].snap \in {call[p].snap, Resting.snap} /\ call'[p].at \in {"readdir", "reread"}
    BY <1>0, <2>0, <2>1 DEF CallType
  <2>3. Given(call[p].cur)
    BY <1>0, <2>0 DEF Knows, HoldsTask
  <2>4. Knows(call'[p])
    BY <1>0, <2>2, <2>3, RestingSnap DEF Knows
  <2>5. Looked(call'[p])
    BY <2>2 DEF Looked
  <2> QED BY <1>0, <2>2, <2>4, <2>5 DEF Learns
<1> QED BY <1>1, <1>2

LEMMA UpdateLearns ==
  ASSUME FilesInv, NEW p \in Procs, Moves(p), LockTask(p) \/ NextUpdate(p) \/ Check(p) \/ Reread(p)
  PROVE  Learns(p)
<1>0. Types /\ Shapes /\ call[p] \in CallType /\ PointsOf(call[p]) /\ Knows(call[p])
      /\ UNCHANGED <<file, mark, made, holder>>
  BY DEF FilesInv, Sections, Types, Shapes, LockTask, NextUpdate, Check, Reread,
     fileVars, ghostVars, Disk, KnownAreGiven
<1>p. PointsOf(call'[p])
  BY DEF Moves, Shapes
<1>1. CASE Finish(p)
  BY <1>0, <1>1, EndLearns
<1>2. CASE ~ Finish(p)
  <2>0. call[p].at \in {"lock", "update", "check", "reread"} /\ call[p].op \in Updating
    BY <1>0 DEF LockTask, NextUpdate, Check, Reread, At, PointsOf
  <2>1. \/ call'[p] = Dropped(call[p])
        \/ LockTask(p) /\ call'[p] = [call[p] EXCEPT !.at = AfterTaskLock(call[p].op)]
        \/ \E i : call'[p] = [call[p] EXCEPT !.cur = i, !.at = "check"]
        \/ file[call[p].cur] \in Task /\ \E a \in {"listLock", "lock"} : call'[p] = [call[p] EXCEPT !.at = a]
        \/ file[call[p].cur] \in Task /\ call'[p] = [call[p] EXCEPT !.base = file[call[p].cur], !.at = "write"]
    BY <1>0, <1>2, LockTaskShape, NextUpdateShape, CheckShape, RereadShape
  <2>2. /\ call'[p].snap = call[p].snap /\ call'[p].op = call[p].op
        /\ DOMAIN call'[p].todo \subseteq DOMAIN call[p].todo
        /\ call'[p].at \in {"update", "claimRead", "reread", "check", "listLock", "lock", "write"}
        /\ call'[p].at \in {"claimRead", "reread"} => call[p].at = "lock" /\ call'[p].cur = call[p].cur
        /\ call'[p].at \in {"lock", "write"} => file[call[p].cur] \in Task /\ call'[p].cur = call[p].cur
        /\ call'[p].at = "write" => call'[p].base = file[call[p].cur]
    <3>1. CASE call'[p] = Dropped(call[p])
      BY <1>0, <3>1, DroppedIs
    <3>2. CASE LockTask(p) /\ call'[p] = [call[p] EXCEPT !.at = AfterTaskLock(call[p].op)]
      BY <1>0, <3>2 DEF CallType, AfterTaskLock, LockTask, At
    <3>3. CASE \E i : call'[p] = [call[p] EXCEPT !.cur = i, !.at = "check"]
      BY <1>0, <3>3 DEF CallType
    <3>4. CASE file[call[p].cur] \in Task /\ \E a \in {"listLock", "lock"} : call'[p] = [call[p] EXCEPT !.at = a]
      BY <1>0, <3>4 DEF CallType
    <3>5. CASE file[call[p].cur] \in Task /\ call'[p] = [call[p] EXCEPT !.base = file[call[p].cur], !.at = "write"]
      BY <1>0, <3>5 DEF CallType
    <3> QED BY <2>1, <3>1, <3>2, <3>3, <3>4, <3>5
  <2>3. file[call[p].cur] \in Task \/ call[p].at = "lock" => Given(call[p].cur)
    BY <1>0 DEF FilesInv, Disk, KnownAreGiven, Knows, CallType
  <2>4. call'[p].at = "lock" \/ HoldsTask(call'[p]) => Given(call'[p].cur)
    BY <2>2, <2>3 DEF HoldsTask
  <2>5. Knows(call'[p])
    BY <2>2, <2>4, SameKnown
  <2>6. Looked(call'[p])
    BY <1>p, <2>0, <2>2, UpdatingLooks
  <2> QED BY <1>0, <2>2, <2>5, <2>6 DEF Learns
<1> QED BY <1>1, <1>2

LEMMA CallLearns ==
  ASSUME FilesInv, NEW p \in Procs, Moves(p), Call(p) \/ Crash(p)
  PROVE  Learns(p)
<1>0. Types /\ Shapes /\ UNCHANGED <<file, mark, made, holder>>
  BY DEF FilesInv, Sections, Call, Crash, CreateTask, ResetTaskList, UpdateTask,
     DeleteTask, BlockTask, ClaimTask, ClaimTaskBusy, UnassignTeammateTasks, Begin,
     fileVars, ghostVars
<1>1. CASE Crash(p)
  <2>1. call'[p] = [Resting EXCEPT !.at = "dead"]
    BY <1>0, <1>1, CrashShape
  <2> QED BY <1>0, <2>1, RestingLearns DEF Learns, Resting
<1>2. CASE Call(p)
  <2>1. /\ call'[p].at \in {"listLock", "update", "mark", "read", "check", "readdir"}
        /\ call'[p].at = "read" => call'[p].op = "block"
        /\ call'[p].at = "readdir" => call'[p].op = "unassign"
        /\ call'[p].at = "mark" => call'[p].op = "delete"
        /\ call'[p].op = "unassign" => DOMAIN call'[p].todo = {}
        /\ call'[p].snap = Resting.snap
    BY <1>0, <1>2, CallShape
  <2>2. Knows(call'[p])
    BY <2>1, RestingSnap DEF Knows, HoldsTask
  <2>3. Looked(call'[p])
    BY <2>1 DEF Looked
  <2> QED BY <1>0, <2>1, <2>2, <2>3 DEF Learns
<1> QED BY <1>1, <1>2

LEMMA DiskStep ==
  ASSUME FilesInv, NEW p \in Procs, Call(p) \/ Step(p) \/ Crash(p)
  PROVE  Disk'
<1>1. Moves(p)
  BY MovesOfStep DEF FilesInv
<1>2. \A q \in Procs : calls'[q].ops = calls[q].ops
  BY OpsSame DEF FilesInv, Sections, Next
<1>3. ASSUME Learns(p) PROVE Disk'
  BY <1>1, <1>2, <1>3, QuietFiles DEF Learns
<1>4. ASSUME LockFails(p) \/ CreateFull(p) \/ Swept(p) \/ UnlinkMissing(p) \/ Updated(p) PROVE Learns(p)
  <2>1. Finish(p) /\ UNCHANGED <<file, mark, made, holder>>
    BY <1>4 DEF LockFails, CreateFull, Swept, UnlinkMissing, Updated, fileVars, ghostVars
  <2> QED BY <2>1, EndLearns
<1> QED BY <1>1, <1>3, <1>4, CreateOpenFiles, CreateFillFiles, MarkFiles, RemoveFiles,
           WriteFiles, CreateLearns, ResetLearns, ListLearns, PlanLearns, ClaimLearns,
           UpdateLearns, CallLearns DEF Step

(* The scenarios in which no file is deleted beside a creation: deleteTask *)
(* takes no lock of the list, so that an id that is being created may be   *)
(* read as free again.                                                     *)
NoDeletionBesideCreation ==
  \A s \in Scenarios : \A p, q \in Procs : ~ ("create" \in s.roles[p] /\ "delete" \in s.roles[q])

LEMMA FilesInit ==
  ASSUME NoDeletionBesideCreation, Init
  PROVE  FilesInv
<1>0. Sections
  BY SectionsInit
<1>1. PICK s \in Scenarios : file = s.start /\ calls = [p \in Procs |-> [ops |-> s.roles[p], left |-> s.calls]]
  BY DEF Init
<1>2. s.start \in [Ids -> Task \cup {Gone}]
  BY ScenariosAssumption
<1>3. Apart
  BY <1>1 DEF NoDeletionBesideCreation, Apart
<1>4. /\ made = [i \in Ids |-> IF file[i] = Gone THEN 0 ELSE 1]
      /\ holder = [i \in Ids |-> IF file[i] = Gone THEN Nobody ELSE file[i].owner]
      /\ call = [p \in Procs |-> Resting]
  BY DEF Init
<1>5. \A i \in Ids : Given(i) <=> file[i] # Gone
  BY <1>4 DEF Given
<1>6. KnownAreGiven
  BY <1>4, <1>5, FilesAssumption, RestingLearns DEF KnownAreGiven
<1>7. HighestOnDisk
  <2>1. \A i \in Ids : i <= i
    BY BoundsAssumption DEF Ids
  <2> QED BY <1>5, <2>1 DEF HighestOnDisk
<1>8. KnowsHighest
  BY <1>4, RestingLearns DEF KnowsHighest
<1>9. UniqueIds /\ WriteIsCurrent
  BY <1>4 DEF UniqueIds, WriteIsCurrent, At, Resting
<1> QED BY <1>0, <1>3, <1>6, <1>7, <1>8, <1>9 DEF FilesInv, Disk

LEMMA FilesStep ==
  ASSUME FilesInv, [Next]_vars
  PROVE  FilesInv'
<1>1. Sections'
  BY SectionsStep DEF FilesInv
<1>2. Apart'
  BY OpsSame DEF FilesInv, Sections, Apart
<1>3. CASE UNCHANGED vars
  <2>1. Disk'
    BY <1>3 DEF FilesInv, Disk, vars, fileVars, lockVars, ghostVars, KnownAreGiven,
       HighestOnDisk, KnowsHighest, UniqueIds, WriteIsCurrent, Knows, Looked, Given,
       Used, Creating, HoldsTask, At
  <2> QED BY <1>1, <1>2, <2>1 DEF FilesInv
<1>4. CASE \E p \in Procs : Call(p) \/ Step(p) \/ Crash(p)
  BY <1>1, <1>2, <1>4, DiskStep DEF FilesInv
<1> QED BY <1>3, <1>4 DEF Next, Done

(* Where no task is deleted beside a creation, createTask gives out no id  *)
(* twice, under any crashes, resets and creations of others; and no update *)
(* overwrites a field that another has written: what is filled in is what  *)
(* the file held when it was truncated.                                    *)
THEOREM FilesAreSound == NoDeletionBesideCreation => (Spec => []FilesSound)
<1> SUFFICES ASSUME NoDeletionBesideCreation PROVE Spec => []FilesSound
  OBVIOUS
<1>1. Init => FilesInv
  BY FilesInit
<1>2. FilesInv /\ [Next]_vars => FilesInv'
  BY FilesStep
<1>3. FilesInv => FilesSound
  BY TypesOK DEF FilesInv, Sections, Disk, FilesSound
<1> QED BY <1>1, <1>2, <1>3, PTL DEF Spec

-----------------------------------------------------------------------------
(* Claims are exclusive.                                                   *)

(* A step of p that puts no other owner into a file, or into a copy of it.  *)
Copies(p) ==
  /\ \A i \in Ids : file'[i] \in Task => file'[i] = file[i]
  /\ Writing(call'[p]) =>
       \/ /\ Writing(call[p])
          /\ call'[p].base = call[p].base /\ call'[p].cur = call[p].cur
       \/ call'[p].base = file[call'[p].cur] /\ file[call'[p].cur] \in Task

(* What p has decided after it, it had decided, or reads from the file.     *)
Settles(p) ==
  LET c == call[p]
      d == call'[p]
  IN  /\ Decided(d) => \/ Decided(c) /\ d.op = c.op /\ d.id = c.id
                       \/ file[d.id] \in Task /\ file[d.id].owner \in {Nobody, p}
      /\ d.op = "unassign" => \A i \in Ids : Takes(d, i) =>
           \/ c.op = "unassign" /\ d.agent = c.agent /\ Takes(c, i)
           \/ file[i] \in Task /\ file[i].owner = d.agent

(* It makes nobody the holder of a task.                                    *)
Releases == \A i \in Ids : holder'[i] \in {holder[i], Nobody}

Claims == HolderOwns /\ ClaimsStand /\ UnassignsStand

LEMMA ReadOwns ==
  ASSUME FilesInv, NEW i \in Ids, NEW S, file[i] \in Task, file[i].owner \in S
  PROVE  OwnedBy(i, S)
<1> SUFFICES ASSUME NEW q \in Procs, Writing(call[q]), call[q].cur = i
             PROVE  call[q].base.owner \in S
  BY DEF OwnedBy
<1>1. call[q].at = "write" => file[i] \in {call[q].base, Gone}
  BY DEF FilesInv, Disk, WriteIsCurrent, At
<1>2. call[q].at = "refill" => file[i] \in {Torn, Gone}
  BY DEF FilesInv, Disk, WriteIsCurrent, At
<1> QED BY <1>1, <1>2, FilesAssumption DEF Writing

(* The same of the state after the step.                                    *)
OwnedThen(i, S) ==
  /\ file'[i] \in Task => file'[i].owner \in S
  /\ \A q \in Procs : Writing(call'[q]) /\ call'[q].cur = i => call'[q].base.owner \in S

LEMMA OwnedLift ==
  ASSUME NEW p \in Procs, Moves(p), Copies(p), NEW i \in Ids, NEW S, OwnedBy(i, S)
  PROVE  OwnedThen(i, S)
<1>1. file'[i] \in Task => file'[i].owner \in S
  BY DEF Copies, OwnedBy
<1>2. ASSUME NEW q \in Procs, Writing(call'[q]), call'[q].cur = i
      PROVE  call'[q].base.owner \in S
  <2>1. CASE q = p
    BY <1>2, <2>1 DEF Copies, OwnedBy
  <2>2. CASE q # p
    BY <1>2, <2>2 DEF Moves, OwnedBy
  <2> QED BY <2>1, <2>2
<1> QED BY <1>1, <1>2 DEF OwnedThen

\* The claims of the state after the step, part by part.
LEMMA HolderOwnsThen ==
  ASSUME \A i \in Ids : holder'[i] # Nobody => OwnedThen(i, {holder'[i]})
  PROVE  HolderOwns'
  BY DEF HolderOwns, OwnedBy, OwnedThen, Writing
LEMMA ClaimsStandThen ==
  ASSUME \A q \in Procs : Decided(call'[q]) =>
           /\ holder'[call'[q].id] \in {Nobody, q}
           /\ KeepsOwner \/ call'[q].op = "claim" => OwnedThen(call'[q].id, {Nobody, q})
  PROVE  ClaimsStand'
  BY DEF ClaimsStand, Decided, OwnedBy, OwnedThen, Writing, KeepsOwner
LEMMA UnassignsStandThen ==
  ASSUME \A q \in Procs : call'[q].op = "unassign" =>
           \A i \in Ids : Takes(call'[q], i) => OwnedThen(i, {call'[q].agent})
  PROVE  UnassignsStand'
  BY DEF UnassignsStand, Takes, OwnedBy, OwnedThen, Writing

\* A step that settles what it decides keeps the claims.
LEMMA ClaimsLift ==
  ASSUME FilesInv, Claims, NEW p \in Procs, Moves(p), Copies(p), Settles(p), Releases
  PROVE  Claims'
<1>t. /\ call \in [Procs -> CallType] /\ call' \in [Procs -> CallType] /\ holder \in [Ids -> Owners]
  BY DEF FilesInv, Sections, Types, Moves
<1>1. HolderOwns'
  <2>1. ASSUME NEW i \in Ids, holder'[i] # Nobody PROVE OwnedThen(i, {holder'[i]})
    <3>1. holder'[i] = holder[i] /\ OwnedBy(i, {holder[i]})
      BY <2>1 DEF Releases, Claims, HolderOwns
    <3> QED BY <3>1, OwnedLift
  <2> QED BY <2>1, HolderOwnsThen
<1>2. ClaimsStand'
  <2>1. ASSUME NEW q \in Procs, Decided(call'[q])
        PROVE  /\ holder'[call'[q].id] \in {Nobody, q}
               /\ KeepsOwner \/ call'[q].op = "claim" => OwnedThen(call'[q].id, {Nobody, q})
    <3> DEFINE i == call'[q].id
    <3>1. i \in Ids
      BY <1>t DEF CallType
    <3>2. CASE Decided(call[q]) /\ call'[q].op = call[q].op /\ i = call[q].id
      <4>1. /\ holder[i] \in {Nobody, q}
            /\ KeepsOwner \/ call[q].op = "claim" => OwnedBy(i, {Nobody, q})
        BY <3>2 DEF Claims, ClaimsStand
      <4> HIDE DEF i
      <4>2. OwnedBy(i, {Nobody, q}) => OwnedThen(i, {Nobody, q})
        BY <3>1, OwnedLift
      <4>3. holder'[i] \in {Nobody, q}
        BY <3>1, <4>1 DEF Releases
      <4> QED BY <3>2, <4>1, <4>2, <4>3 DEF i
    <3>3. CASE q = p /\ file[i] \in Task /\ file[i].owner \in {Nobody, p}
      <4> HIDE DEF i
      <4>1. OwnedBy(i, {Nobody, p})
        BY <3>1, <3>3, ReadOwns
      <4>2. OwnedThen(i, {Nobody, p})
        BY <3>1, <4>1, OwnedLift
      <4>3. holder[i] \in {Nobody, p}
        BY <3>1, <3>3 DEF Claims, HolderOwns, OwnedBy
      <4>4. holder'[i] \in {Nobody, p}
        BY <3>1, <4>3 DEF Releases
      <4> QED BY <3>3, <4>2, <4>4 DEF i
    <3>4. CASE q # p
      <4>1. call'[q] = call[q]
        BY <3>4 DEF Moves
      <4> QED BY <2>1, <3>2, <4>1
    <3> QED BY <2>1, <3>2, <3>3, <3>4 DEF Settles
  <2> QED BY <2>1, ClaimsStandThen
<1>3. UnassignsStand'
  <2>1. ASSUME NEW q \in Procs, call'[q].op = "unassign", NEW i \in Ids, Takes(call'[q], i)
        PROVE  OwnedThen(i, {call'[q].agent})
    <3>1. CASE call[q].op = "unassign" /\ call'[q].agent = call[q].agent /\ Takes(call[q], i)
      <4>1. OwnedBy(i, {call[q].agent})
        BY <3>1 DEF Claims, UnassignsStand
      <4> QED BY <3>1, <4>1, OwnedLift
    <3>2. CASE q = p /\ file[i] \in Task /\ file[i].owner = call'[p].agent
      BY <3>2, ReadOwns, OwnedLift
    <3>3. CASE q # p
      <4>1. call'[q] = call[q]
        BY <3>3 DEF Moves
      <4> QED BY <2>1, <3>1, <4>1
    <3> QED BY <2>1, <3>1, <3>2, <3>3 DEF Settles
  <2> QED BY <2>1, UnassignsStandThen
<1> QED BY <1>1, <1>2, <1>3 DEF Claims

\* Calls that claim nothing, and calls that go on with what they know.
LEMMA OtherSettles ==
  ASSUME NEW p, call'[p].op \notin {"claim", "claimBusy", "unassign"}
  PROVE  Settles(p)
  BY DEF Settles, Decided

Deciding == {"readdir", "read", "reread", "write", "refill"}
LEMMA SameSettles ==
  ASSUME NEW p, call'[p].op = call[p].op, call'[p].id = call[p].id, call'[p].agent = call[p].agent,
         call'[p].snap = call[p].snap, DOMAIN call'[p].todo \subseteq DOMAIN call[p].todo,
         call'[p].op = "claim" /\ call'[p].at \in Deciding => call[p].at \in Deciding
  PROVE  Settles(p)
  BY DEF Settles, Decided, Takes, Deciding

LEMMA EndSettles ==
  ASSUME FilesInv, NEW p \in Procs, Finish(p) \/ Crash(p)
  PROVE  Settles(p) /\ ~ Writing(call'[p])
<1>1. call'[p] \in {Resting, [Resting EXCEPT !.at = "dead"]}
  BY EndShape, CrashShape DEF FilesInv, Sections
<1>2. call'[p].op = "update" /\ call'[p].at \in {"idle", "dead"}
  BY <1>1 DEF Resting
<1> QED BY <1>2, OtherSettles DEF Writing

\* The steps that leave the files as they are.
LEMMA QuietSettles ==
  ASSUME FilesInv, NEW p \in Procs,
         \/ Call(p) \/ LockList(p) \/ LockTask(p) \/ ScanFiles(p) \/ ScanMark(p) \/ FindHighest(p)
         \/ ReadMark(p) \/ MarkOpen(p) \/ MarkFill(p) \/ ReadDir(p) \/ NextUpdate(p)
  PROVE  Settles(p) /\ ~ Writing(call'[p])
<1>0. Types /\ Shapes /\ call[p] \in CallType /\ PointsOf(call[p]) /\ Planned(p, call[p]) /\ mark \in 0 .. MaxId
  BY DEF FilesInv, Sections, Types, Shapes
<1>1. CASE Call(p)
  <2>1. /\ call'[p].at \in {"listLock", "update", "mark", "read", "check", "readdir"}
        /\ call'[p].at = "read" => call'[p].op = "block"
        /\ call'[p].at = "readdir" => call'[p].op = "unassign"
        /\ call'[p].op \in {"claimBusy", "unassign"} => DOMAIN call'[p].todo = {}
        /\ call'[p].snap = Resting.snap
    BY <1>0, <1>1, CallShape
  <2>2. call'[p].id \in Ids
    BY <1>0, <1>1, CallShape DEF Moves, CallType
  <2> QED BY <2>1, <2>2, RestingSnap DEF Settles, Decided, Takes, Writing
<1>2. CASE LockList(p)
  <2>1. call'[p] = [call[p] EXCEPT !.at = AfterListLock(call[p].op)] /\ call[p].at = "listLock"
    BY <1>0, <1>2, LockListShape DEF LockList, At
  <2>2. call[p].op \in {"create", "reset", "claimBusy"}
    BY <1>0, <2>1 DEF PointsOf
  <2>3. call'[p].at \in {"scan", "highest", "readdir"}
    BY <1>0, <2>1, <2>2 DEF CallType, AfterListLock
  <2>4. Settles(p)
    BY <1>0, <2>1, <2>2, SameSettles DEF CallType
  <2> QED BY <2>3, <2>4 DEF Writing
<1>3. CASE LockTask(p)
  <2>1. call'[p] = [call[p] EXCEPT !.at = AfterTaskLock(call[p].op)]
    BY <1>0, <1>3, LockTaskShape
  <2>2. call'[p].at \in {"claimRead", "reread"} /\ (call'[p].op = "claim" => call'[p].at = "claimRead")
    BY <1>0, <2>1 DEF CallType, AfterTaskLock
  <2>3. Settles(p)
    BY <1>0, <2>1, <2>2, SameSettles DEF CallType, Deciding
  <2> QED BY <2>2, <2>3 DEF Writing
<1>4. CASE ScanFiles(p) \/ ScanMark(p)
  <2>1. PICK what \in {"files", "mark"}, value \in 0 .. MaxId : Scanned(p, what, value)
    BY <1>0, <1>4, PresentIds DEF ScanFiles, ScanMark
  <2>2. call'[p].op = "create" /\ call'[p].at \in {"scan", "open"}
    BY <1>0, <2>1, ScannedShape
  <2> QED BY <2>2, OtherSettles DEF Writing
<1>5. CASE FindHighest(p)
  <2>1. call'[p] = [call[p] EXCEPT !.high = Highest(Present),
                           !.at = IF Highest(Present) > 0 THEN "mark" ELSE "readdir"]
    BY <1>0, <1>5, FindHighestShape
  <2>2. call[p].op = "reset"
    BY <1>0, <1>5 DEF FindHighest, At, PointsOf
  <2>3. call'[p].op = "reset" /\ call'[p].at \in {"mark", "readdir"}
    BY <1>0, <2>1, <2>2 DEF CallType
  <2> QED BY <2>3, OtherSettles DEF Writing
<1>6. CASE ReadMark(p) \/ MarkOpen(p) \/ MarkFill(p)
  <2>1. PICK a \in {"markOpen", "markFill", "readdir", "unlink"} : call'[p] = [call[p] EXCEPT !.at = a]
    BY <1>0, <1>6, MarkShape
  <2>2. call[p].op \in {"reset", "delete"}
    BY <1>0, <1>6 DEF ReadMark, MarkOpen, MarkFill, At, PointsOf
  <2>3. call'[p].op \in {"reset", "delete"} /\ call'[p].at = a
    BY <1>0, <2>1, <2>2 DEF CallType
  <2> QED BY <2>3, OtherSettles DEF Writing
<1>7. CASE ReadDir(p)
  <2>1. call'[p] = [call[p] EXCEPT !.left = Present,
                           !.at = IF call[p].op = "reset" THEN "sweep" ELSE "read"] /\ call[p].at = "readdir"
    BY <1>0, <1>7, ReadDirShape DEF ReadDir, At
  <2>2. call'[p].at \in {"sweep", "read"}
    BY <1>0, <2>1 DEF CallType
  <2>3. Settles(p)
    BY <1>0, <2>1, SameSettles DEF CallType, Deciding
  <2> QED BY <2>2, <2>3 DEF Writing
<1>8. CASE NextUpdate(p)
  <2>1. PICK i : call'[p] = [call[p] EXCEPT !.cur = i, !.at = "check"]
    BY <1>0, <1>8, NextUpdateShape
  <2>2. call'[p].at = "check"
    BY <1>0, <2>1 DEF CallType
  <2>3. Settles(p)
    BY <1>0, <2>1, <2>2, SameSettles DEF CallType, Deciding
  <2> QED BY <2>2, <2>3 DEF Writing
<1> QED BY <1>1, <1>2, <1>3, <1>4, <1>5, <1>6, <1>7, <1>8

LEMMA ReadSettles ==
  ASSUME FilesInv, NEW p \in Procs, ReadOne(p)
  PROVE  Settles(p) /\ ~ Writing(call'[p])
<1>0. Types /\ Shapes /\ call[p] \in CallType /\ Planned(p, call[p])
  BY DEF FilesInv, Sections, Types, Shapes
<1>1. PICK i \in Ids : call'[p] = [call[p] EXCEPT !.left = @ \ {i}, !.snap[i] = Read(file[i])]
  BY <1>0, ReadOneShape
<1>2. call[p].at = "read"
  BY DEF ReadOne, At
<1>3. /\ call'[p].snap = [call[p].snap EXCEPT ![i] = Read(file[i])]
      /\ call'[p].op = call[p].op /\ call'[p].todo = call[p].todo
      /\ call'[p].agent = call[p].agent /\ call'[p].at = "read" /\ call'[p].id = call[p].id
      /\ call[p].snap \in [Ids -> Task \cup {Gone}]
  BY <1>0, <1>1, <1>2 DEF CallType
<1>4. Read(file[i]) # Gone => Read(file[i]) = file[i] /\ file[i] \in Task
  BY <1>0 DEF Read, Types, Files
<1>5. \A j \in Ids : call'[p].snap[j] # call[p].snap[j] /\ call'[p].snap[j] # Gone =>
                       j = i /\ file[j] \in Task /\ call'[p].snap[j] = file[j]
  BY <1>3, <1>4
<1>6. call[p].op = "claimBusy" => call[p].agent = p
  BY <1>0, <1>2 DEF Planned
<1>7. call[p].id \in Ids
  BY <1>0 DEF CallType
<1>8. Decided(call'[p]) => \/ Decided(call[p])
                           \/ file[call'[p].id] \in Task /\ file[call'[p].id].owner \in {Nobody, p}
  BY <1>2, <1>3, <1>5, <1>6, <1>7 DEF Decided
<1>9. \A j \in Ids : Takes(call'[p], j) => Takes(call[p], j) \/ (file[j] \in Task /\ file[j].owner = call'[p].agent)
  BY <1>3, <1>5 DEF Takes
<1> QED BY <1>3, <1>8, <1>9 DEF Settles, Writing

LEMMA PlanSettles ==
  ASSUME FilesInv, NEW p \in Procs,
         PlanCascade(p) \/ PlanUnassign(p) \/ PlanBlock(p) \/ DecideBusyClaim(p)
  PROVE  Settles(p) /\ ~ Writing(call'[p])
<1>0. Types /\ Shapes /\ call[p] \in CallType /\ Planned(p, call[p])
      /\ call[p].at = "read"
  BY DEF FilesInv, Sections, Types, Shapes, PlanCascade, PlanUnassign, PlanBlock,
     DecideBusyClaim, Listed, At
<1>1. CASE Finish(p)
  BY <1>1, EndSettles
<1>2. ASSUME NEW todo, call'[p] = [call[p] EXCEPT !.todo = todo, !.snap = Resting.snap, !.at = "update"]
      PROVE  /\ call'[p].op = call[p].op /\ call'[p].id = call[p].id /\ call'[p].agent = call[p].agent
             /\ call'[p].todo = todo /\ call'[p].snap = Resting.snap /\ ~ Writing(call'[p])
  BY <1>0, <1>2 DEF CallType, Writing
<1>3. CASE (PlanCascade(p) \/ PlanBlock(p)) /\ ~ Finish(p)
  <2>1. PICK todo : call'[p] = [call[p] EXCEPT !.todo = todo, !.snap = Resting.snap, !.at = "update"]
    BY <1>0, <1>3, PlanCascadeShape, PlanBlockShape
  <2>2. call[p].op \in {"delete", "block"}
    BY <1>3 DEF PlanCascade, PlanBlock, Listed
  <2> QED BY <1>2, <2>1, <2>2, OtherSettles
<1>4. CASE PlanUnassign(p)
  <2>1. PICK todo : /\ call'[p] = [call[p] EXCEPT !.todo = todo, !.snap = Resting.snap, !.at = "update"]
                    /\ \A i \in DOMAIN todo : /\ i \in Ids /\ call[p].snap[i] # Gone
                                              /\ call[p].snap[i].owner = call[p].agent
    BY <1>0, <1>4, PlanUnassignShape
  <2>2. call[p].op = "unassign"
    BY <1>4 DEF PlanUnassign, Listed
  <2>3. ~ Decided(call'[p])
    BY <1>2, <2>1, <2>2 DEF Decided
  <2>4. \A i \in Ids : Takes(call'[p], i) => Takes(call[p], i)
    BY <1>2, <2>1, RestingSnap DEF Takes
  <2> QED BY <1>2, <2>1, <2>2, <2>3, <2>4 DEF Settles
<1>5. CASE DecideBusyClaim(p) /\ ~ Finish(p)
  <2>1. PICK todo : call'[p] = [call[p] EXCEPT !.todo = todo, !.snap = Resting.snap, !.at = "update"]
    BY <1>0, <1>5, DecideBusyShape
  <2>2. call[p].op = "claimBusy" /\ Claimable(call[p].snap[call[p].id], p)
    BY <1>0, <1>5, DecideBusyShape
  <2>3. Decided(call[p])
    BY <1>0, <2>2 DEF Decided, Claimable, Planned
  <2> QED BY <1>2, <2>1, <2>2, <2>3 DEF Settles
<1> QED BY <1>1, <1>3, <1>4, <1>5

LEMMA ClaimSettles ==
  ASSUME FilesInv, NEW p \in Procs, ClaimRead(p) \/ DecideClaim(p)
  PROVE  Settles(p) /\ ~ Writing(call'[p])
<1>0. Types /\ Shapes /\ call[p] \in CallType
  BY DEF FilesInv, Sections, Types
<1>1. CASE Finish(p)
  BY <1>1, EndSettles
<1>2. CASE ClaimRead(p) /\ ~ Finish(p)
  <2>1. /\ call[p].op = "claim" /\ Claimable(Read(file[call[p].id]), p) /\ file[call[p].id] \in Task
        /\ call'[p] = [call[p] EXCEPT !.base = file[call[p].id], !.at = "readdir"]
    BY <1>0, <1>2, ClaimReadShape
  <2>2. file[call[p].id].owner \in {Nobody, p}
    BY <2>1, FilesAssumption DEF Claimable, Read
  <2>3. call'[p].op = "claim" /\ call'[p].id = call[p].id /\ call'[p].at = "readdir"
    BY <1>0, <2>1 DEF CallType
  <2> QED BY <2>1, <2>2, <2>3 DEF Settles, Writing
<1>3. CASE DecideClaim(p) /\ ~ Finish(p)
  <2>1. /\ call[p].op = "claim" /\ call[p].at = "read"
        /\ call'[p] = [call[p] EXCEPT !.snap = Resting.snap, !.at = "reread"]
    BY <1>0, <1>3, DecideClaimShape
  <2>2. call'[p].op = "claim" /\ call'[p].id = call[p].id /\ call'[p].at = "reread"
    BY <1>0, <2>1 DEF CallType
  <2> QED BY <2>1, <2>2 DEF Settles, Decided, Writing
<1> QED BY <1>1, <1>2, <1>3

LEMMA CheckSettles ==
  ASSUME FilesInv, NEW p \in Procs, Check(p)
  PROVE  Settles(p) /\ ~ Writing(call'[p])
<1>0. Types /\ Shapes /\ call[p] \in CallType
  BY DEF FilesInv, Sections, Types
<1>1. CASE Finish(p)
  BY <1>1, EndSettles
<1>2. CASE \E a \in {"listLock", "lock"} : call'[p] = [call[p] EXCEPT !.at = a]
  <2>1. /\ call'[p].op = call[p].op /\ call'[p].id = call[p].id /\ call'[p].agent = call[p].agent
        /\ call'[p].snap = call[p].snap /\ call'[p].todo = call[p].todo /\ call'[p].at \in {"listLock", "lock"}
    BY <1>0, <1>2 DEF CallType
  <2> QED BY <2>1, SameSettles DEF Deciding, Writing
<1>3. CASE call'[p] = Dropped(call[p])
  <2>1. /\ call'[p].op = call[p].op /\ call'[p].id = call[p].id /\ call'[p].agent = call[p].agent
        /\ call'[p].snap = call[p].snap /\ DOMAIN call'[p].todo \subseteq DOMAIN call[p].todo
        /\ call'[p].at = "update"
    BY <1>0, <1>3, DroppedIs
  <2> QED BY <2>1, SameSettles DEF Deciding, Writing
<1> QED BY <1>0, <1>1, <1>2, <1>3, CheckShape

LEMMA RereadSettles ==
  ASSUME FilesInv, NEW p \in Procs, Reread(p)
  PROVE  Settles(p) /\ Copies(p)
<1>0. Types /\ Shapes /\ call[p] \in CallType /\ UNCHANGED file
  BY DEF FilesInv, Sections, Types, Reread, fileVars
<1>1. CASE /\ call[p].at = "reread" /\ file[call[p].cur] \in Task
           /\ call'[p] = [call[p] EXCEPT !.base = file[call[p].cur], !.at = "write"]
  <2>1. /\ call'[p].op = call[p].op /\ call'[p].id = call[p].id /\ call'[p].agent = call[p].agent
        /\ call'[p].snap = call[p].snap /\ call'[p].todo = call[p].todo /\ call'[p].cur = call[p].cur
        /\ call'[p].base = file[call[p].cur]
    BY <1>0, <1>1 DEF CallType
  <2>2. Settles(p)
    BY <1>1, <2>1, SameSettles DEF Deciding
  <2> QED BY <1>0, <1>1, <2>1, <2>2 DEF Copies
<1>2. CASE call'[p] = Dropped(call[p])
  <2>1. /\ call'[p].op = call[p].op /\ call'[p].id = call[p].id /\ call'[p].agent = call[p].agent
        /\ call'[p].snap = call[p].snap /\ DOMAIN call'[p].todo \subseteq DOMAIN call[p].todo
        /\ call'[p].at = "update"
    BY <1>0, <1>2, DroppedIs
  <2> QED BY <1>0, <2>1, SameSettles DEF Deciding, Writing, Copies
<1> QED BY <1>0, <1>1, <1>2, RereadShape

\* What is filled into a file that is gone is lost.
LEMMA LostSettles ==
  ASSUME FilesInv, NEW p \in Procs, Refill(p), file[call[p].cur] = Gone
  PROVE  Settles(p) /\ ~ Writing(call'[p]) /\ UNCHANGED <<file, holder>>
<1>0. Types /\ Shapes /\ call[p] \in CallType /\ file \in [Ids -> Files] /\ holder \in [Ids -> Owners]
  BY DEF FilesInv, Sections, Types
<1>1. call'[p] = Dropped(call[p])
  BY <1>0, RefillShape
<1>2. /\ call'[p].op = call[p].op /\ call'[p].id = call[p].id /\ call'[p].agent = call[p].agent
      /\ call'[p].snap = call[p].snap /\ DOMAIN call'[p].todo \subseteq DOMAIN call[p].todo
      /\ call'[p].at = "update"
  BY <1>0, <1>1, DroppedIs
<1>3. UNCHANGED <<file, holder>>
  BY <1>0 DEF Refill, Filled
<1> QED BY <1>2, <1>3, SameSettles DEF Deciding, Writing

\* The steps that truncate or remove a file.
LEMMA EmptySettles ==
  ASSUME FilesInv, NEW p \in Procs, CreateOpen(p) \/ Sweep(p) \/ Unlink(p) \/ Write(p)
  PROVE  Settles(p) /\ Copies(p) /\ Releases
<1>0. Types /\ Shapes /\ call[p] \in CallType /\ PointsOf(call[p]) /\ file \in [Ids -> Files] /\ holder \in [Ids -> Owners]
  BY DEF FilesInv, Sections, Types, Shapes
<1>1. \E i : \E f \in {Gone, Torn} : file' = [file EXCEPT ![i] = f]
  BY DEF CreateOpen, Sweep, Unlink, Write, Remove
<1>2. \A i \in Ids : file'[i] \in Task => file'[i] = file[i]
  BY <1>0, <1>1, FilesAssumption
<1>3. Releases
  <2>1. holder' = holder \/ \E i : holder' = [holder EXCEPT ![i] = Nobody]
    BY DEF CreateOpen, Sweep, Unlink, Write, Remove, ghostVars
  <2> QED BY <1>0, <2>1 DEF Releases
<1>4. CASE Write(p)
  <2>1. call[p].at = "write" /\ call'[p] = [call[p] EXCEPT !.at = "refill"]
    BY <1>0, <1>4, WriteShape
  <2>2. /\ call'[p].op = call[p].op /\ call'[p].id = call[p].id /\ call'[p].agent = call[p].agent
        /\ call'[p].snap = call[p].snap /\ call'[p].todo = call[p].todo /\ call'[p].cur = call[p].cur
        /\ call'[p].base = call[p].base
    BY <1>0, <2>1 DEF CallType
  <2> QED BY <1>2, <1>3, <2>1, <2>2, SameSettles DEF Deciding, Writing, Copies
<1>5. CASE CreateOpen(p) \/ Sweep(p) \/ Unlink(p)
  <2>1. call'[p].op \in {"create", "reset", "delete"} /\ call'[p].at \in {"fill", "sweep", "readdir"}
    <3>1. CASE CreateOpen(p)
      <4>1. call'[p] = [call[p] EXCEPT !.at = "fill", !.id = NextId(call[p].high)] /\ call[p].at = "open"
        BY <1>0, <3>1, CreateOpenShape DEF CreateOpen, At
      <4> QED BY <1>0, <4>1 DEF CallType, PointsOf
    <3>2. CASE Sweep(p)
      <4>1. PICK j : call'[p] = [call[p] EXCEPT !.left = @ \ {j}] /\ call[p].op = "reset"
        BY <1>0, <3>2, SweepShape
      <4>2. call[p].at = "sweep"
        BY <3>2 DEF Sweep, At
      <4> QED BY <1>0, <4>1, <4>2 DEF CallType
    <3>3. CASE Unlink(p)
      <4>1. call' = [call EXCEPT ![p].at = "readdir"] /\ call[p].at = "unlink"
        BY <3>3 DEF Unlink, Goto, At
      <4> QED BY <1>0, <4>1 DEF Types, CallType, PointsOf
    <3> QED BY <1>5, <3>1, <3>2, <3>3
  <2> QED BY <1>2, <1>3, <2>1, OtherSettles DEF Writing, Copies
<1> QED BY <1>4, <1>5

LEMMA FillSettles ==
  ASSUME FilesInv, Claims, NEW p \in Procs, CreateFill(p), Moves(p)
  PROVE  Claims' /\ UNCHANGED holder
<1> DEFINE n == call[p].id
<1>0. Types /\ Shapes /\ call[p] \in CallType /\ call[p].at = "fill" /\ n \in Ids
  BY DEF FilesInv, Sections, Types, CreateFill, At, CallType
<1>1. call'[p] = Resting
  BY <1>0, EndShape DEF CreateFill
<1>3. ~ Given(n) /\ file[n] # Gone
  BY <1>0, MeantCalls DEF FilesInv, Disk, KnowsHighest, Looked, Shapes, PointsOf
<1>2. file' = [file EXCEPT ![n] = NewTask] /\ UNCHANGED holder
  BY <1>0, <1>3 DEF CreateFill, Filled, Types
<1>4. call'[p].op = "update" /\ ~ Writing(call'[p]) /\ \A q \in Procs \ {p} : call'[q] = call[q]
  BY <1>1 DEF Resting, Writing, Moves
<1> HIDE DEF n
<1>5. \A i \in Ids : \A S : OwnedBy(i, S) /\ (i = n => Nobody \in S) => OwnedThen(i, S)
  <2> SUFFICES ASSUME NEW i \in Ids, NEW S, OwnedBy(i, S), i = n => Nobody \in S
               PROVE  OwnedThen(i, S)
    OBVIOUS
  <2>1. file'[i] \in Task => file'[i].owner \in S
    <3>1. NewTask.owner = Nobody
      BY DEF NewTask
    <3>2. file \in [Ids -> Files]
      BY <1>0 DEF Types
    <3> QED BY <1>2, <3>1, <3>2 DEF OwnedBy
  <2> QED BY <1>4, <2>1 DEF OwnedBy, OwnedThen
<1>6. HolderOwns'
  <2>1. \A i \in Ids : holder'[i] # Nobody => i # n
    BY <1>2, <1>3 DEF FilesInv, Disk, KnownAreGiven
  <2>2. \A i \in Ids : holder'[i] # Nobody => OwnedThen(i, {holder'[i]})
    BY <1>2, <1>5, <2>1 DEF Claims, HolderOwns
  <2> QED BY <2>2, HolderOwnsThen
<1>7. ClaimsStand'
  <2>1. ASSUME NEW q \in Procs, Decided(call'[q])
        PROVE  /\ holder'[call'[q].id] \in {Nobody, q}
               /\ KeepsOwner \/ call'[q].op = "claim" => OwnedThen(call'[q].id, {Nobody, q})
    <3>1. q # p
      BY <1>4, <2>1 DEF Decided
    <3>2. call'[q] = call[q] /\ call[q].id \in Ids
      BY <1>0, <1>4, <3>1 DEF Types, CallType
    <3> QED BY <1>2, <1>5, <2>1, <3>2 DEF Claims, ClaimsStand
  <2> QED BY <2>1, ClaimsStandThen
<1>8. UnassignsStand'
  <2>1. ASSUME NEW q \in Procs, call'[q].op = "unassign", NEW i \in Ids, Takes(call'[q], i)
        PROVE  OwnedThen(i, {call'[q].agent})
    <3>1. q # p
      BY <1>4, <2>1
    <3>2. call'[q] = call[q]
      BY <1>4, <3>1
    <3>3. i # n
      BY <1>3, <2>1, <3>2 DEF FilesInv, Disk, KnownAreGiven, Knows, Takes
    <3> QED BY <1>5, <2>1, <3>2, <3>3 DEF Claims, UnassignsStand
  <2> QED BY <2>1, UnassignsStandThen
<1> QED BY <1>2, <1>6, <1>7, <1>8 DEF Claims

LEMMA OwnerMerged ==
  ASSUME NEW t \in Task, NEW u
  PROVE  Merge(t, u).owner = IF "owner" \in DOMAIN u THEN u.owner ELSE t.owner
  BY DEF Merge, Task

\* The step that writes an owner.
LEMMA RefillSettles ==
  ASSUME FilesInv, OneWayToClaim, OneUnassigner, Claims, NEW p \in Procs, Refill(p), Moves(p),
         file[call[p].cur] # Gone
  PROVE  /\ Claims'
         /\ \A i \in Ids : Nobody \notin {holder[i], holder'[i]} => holder'[i] = holder[i]
         /\ call[p].op \in {"claim", "claimBusy"} => holder'[call[p].cur] = p
<1> DEFINE c == call[p]
           n == c.cur
           u == c.todo[n]
           t == Merge(c.base, u)
<1>0. Types /\ Shapes /\ c \in CallType /\ c.at = "refill" /\ n \in Ids /\ Planned(p, c)
      /\ call \in [Procs -> CallType] /\ holder \in [Ids -> Owners] /\ file \in [Ids -> Files]
  BY DEF FilesInv, Sections, Types, Shapes, Refill, At, CallType
<1>1. /\ call'[p] = Dropped(c) /\ c.base \in Task /\ t \in Task
      /\ n \in DOMAIN c.todo /\ c.op \in Updating
  BY <1>0, RefillShape
<1>2. file' = [file EXCEPT ![n] = t] /\ holder' = [holder EXCEPT ![n] = HolderAfter(c, @)]
  BY <1>0 DEF Refill, Filled
<1>3. t.owner = IF "owner" \in DOMAIN u THEN u.owner ELSE c.base.owner
  BY <1>1, OwnerMerged
<1>4. /\ call'[p].op = c.op /\ call'[p].id = c.id /\ call'[p].agent = c.agent
      /\ call'[p].at = "update" /\ DOMAIN call'[p].todo = DOMAIN c.todo \ {n}
      /\ \A i \in Ids : call'[p].snap[i] = Gone
      /\ \A q \in Procs \ {p} : call'[q] = call[q]
  BY <1>0, <1>1, DroppedIs DEF Planned, Moves
<1>5. \A q \in Procs \ {p} : HoldsTask(call[q]) => call[q].cur # n
  BY <1>0, AloneWithTask DEF FilesInv, HoldsTask
<1>6. Writing(c) /\ HoldsTask(c)
  BY <1>0 DEF Writing, HoldsTask
<1>7. \A S : OwnedBy(n, S) => c.base.owner \in S
  BY <1>6 DEF OwnedBy
<1> DEFINE h == HolderAfter(c, holder[n])
<1>8. holder'[n] = h /\ \A i \in Ids \ {n} : holder'[i] = holder[i]
  BY <1>0, <1>2
<1> HIDE DEF n, u, t, h
\* Of the other tasks, nothing changes; of this one, the copies are the one written.
<1>9. \A i \in Ids : \A S : OwnedBy(i, S) /\ i # n => OwnedThen(i, S)
  <2> SUFFICES ASSUME NEW i \in Ids, NEW S, OwnedBy(i, S), i # n
               PROVE  OwnedThen(i, S)
    OBVIOUS
  <2>1. file'[i] = file[i] /\ ~ Writing(call'[p])
    BY <1>0, <1>2, <1>4 DEF Writing
  <2> QED BY <1>4, <2>1 DEF OwnedBy, OwnedThen
<1>10. \A S : t.owner \in S => OwnedThen(n, S)
  <2> SUFFICES ASSUME NEW S, t.owner \in S, NEW q \in Procs, Writing(call'[q]), call'[q].cur = n
               PROVE  FALSE
    BY <1>0, <1>2 DEF OwnedThen
  <2>1. CASE q = p
    BY <1>4, <2>1 DEF Writing
  <2>2. CASE q # p
    BY <1>4, <1>5, <2>2 DEF Writing, HoldsTask
  <2> QED BY <2>1, <2>2
<1>11. ASSUME HolderOwns PROVE holder[n] # Nobody => c.base.owner = holder[n]
  BY <1>0, <1>7, <1>11 DEF HolderOwns, n
<1>b. HolderOwns /\ ClaimsStand /\ UnassignsStand
  BY DEF Claims
\* What is shown of the task written, by the call that writes it.
<1> DEFINE Goal == /\ h # Nobody => t.owner = h
                   /\ Nobody \notin {holder[n], h} => h = holder[n]
                   /\ \A q \in Procs : Decided(call'[q]) /\ call'[q].id = n =>
                        /\ h \in {Nobody, q}
                        /\ KeepsOwner \/ call'[q].op = "claim" => t.owner \in {Nobody, q}
                   /\ \A q \in Procs : call'[q].op = "unassign" /\ Takes(call'[q], n) =>
                        t.owner = call'[q].agent
<1> DEFINE Same == \A i \in Ids : Nobody \notin {holder[i], holder'[i]} => holder'[i] = holder[i]
<1>12. ASSUME Goal PROVE Claims' /\ Same
  <2>1. HolderOwns'
    <3>1. \A i \in Ids : holder'[i] # Nobody => OwnedThen(i, {holder'[i]})
      BY <1>8, <1>9, <1>10, <1>12, <1>b DEF HolderOwns
    <3> QED BY <3>1, HolderOwnsThen
  <2>2. ClaimsStand'
    <3>1. ASSUME NEW q \in Procs, Decided(call'[q])
          PROVE  /\ holder'[call'[q].id] \in {Nobody, q}
                 /\ KeepsOwner \/ call'[q].op = "claim" => OwnedThen(call'[q].id, {Nobody, q})
      <4>1. CASE call'[q].id = n
        BY <1>8, <1>10, <1>12, <3>1, <4>1
      <4>2. CASE call'[q].id # n
        <5>1. call'[q].id \in Ids
          BY DEF Moves, CallType
        <5>2. Decided(call[q]) /\ call[q].id = call'[q].id /\ call[q].op = call'[q].op
          BY <1>4, <3>1, <5>1, <1>0 DEF Decided, CallType
        <5> QED BY <1>8, <1>9, <4>2, <5>1, <5>2, <1>b DEF ClaimsStand
      <4> QED BY <4>1, <4>2
    <3> QED BY <3>1, ClaimsStandThen
  <2>3. UnassignsStand'
    <3>1. ASSUME NEW q \in Procs, call'[q].op = "unassign", NEW i \in Ids, Takes(call'[q], i)
          PROVE  OwnedThen(i, {call'[q].agent})
      <4>1. CASE i = n
        BY <1>10, <1>12, <3>1, <4>1
      <4>2. CASE i # n
        <5>1. Takes(call[q], i) /\ call[q].op = "unassign" /\ call[q].agent = call'[q].agent
          BY <1>4, <3>1, <4>2 DEF Takes
        <5> QED BY <1>9, <4>2, <5>1, <1>b DEF UnassignsStand
      <4> QED BY <4>1, <4>2
    <3> QED BY <3>1, UnassignsStandThen
  <2> QED BY <1>8, <1>12, <2>1, <2>2, <2>3 DEF Claims
<1>13. \A q \in Procs \ {p} : call[q].op = "unassign" => KeepsOwner /\ c.op # "unassign"
  <2> TAKE q \in Procs \ {p}
  <2>1. call[q].op = "unassign" => "unassign" \in calls[q].ops
    BY MeantCalls
  <2>2. c.op = "unassign" => "unassign" \in calls[p].ops
    BY MeantCalls
  <2> QED BY <2>1, <2>2 DEF OneUnassigner
<1>14. \A q \in Procs \ {p} : call[q].op = "claim" /\ Decided(call[q]) => call[q].id # n
  <2> SUFFICES ASSUME NEW q \in Procs \ {p}, call[q].op = "claim", Decided(call[q])
               PROVE  call[q].id # n
    OBVIOUS
  <2>1. HoldsTask(call[q]) /\ call[q].at \notin {"idle", "dead", "update"}
    BY DEF Decided, HoldsTask
  <2>2. call[q].cur = call[q].id
    BY <1>0, <2>1 DEF Shapes, Planned
  <2> QED BY <1>5, <2>1, <2>2
\* No owner is written.
<1>15. CASE "owner" \notin DOMAIN u
  <2>1. c.op \notin {"claim", "claimBusy", "unassign"}
    BY <1>0, <1>1, <1>15 DEF Planned, u, n
  <2>2. h = holder[n] /\ t.owner = c.base.owner
    BY <1>3, <1>15, <2>1 DEF HolderAfter, h, u, n
  <2>3. \A q \in Procs : Decided(call'[q]) \/ call'[q].op = "unassign" => call'[q] = call[q]
    BY <1>4, <2>1 DEF Decided
  <2>4. ASSUME NEW q \in Procs, Decided(call'[q]), call'[q].id = n
        PROVE  /\ h \in {Nobody, q}
               /\ KeepsOwner \/ call'[q].op = "claim" => t.owner \in {Nobody, q}
    <3>1. /\ holder[n] \in {Nobody, q}
          /\ KeepsOwner \/ call[q].op = "claim" => OwnedBy(n, {Nobody, q})
      BY <1>b, <2>3, <2>4 DEF ClaimsStand
    <3> QED BY <1>7, <2>2, <2>3, <2>4, <3>1
  <2>5. ASSUME NEW q \in Procs, call'[q].op = "unassign", Takes(call'[q], n)
        PROVE  t.owner = call'[q].agent
    <3>1. n \in Ids
      BY <1>0
    <3>2. OwnedBy(n, {call[q].agent})
      BY <1>b, <2>3, <2>5, <3>1 DEF UnassignsStand
    <3> QED BY <1>7, <2>2, <2>3, <2>5, <3>2
  <2>6. Goal
    BY <1>11, <1>b, <2>2, <2>4, <2>5
  <2> QED BY <1>12, <2>1, <2>6
\* A claim is written.
<1>16. CASE c.op \in {"claim", "claimBusy"}
  <2>1. n = c.id /\ u = [owner |-> p] /\ c.agent = p /\ DOMAIN c.todo \subseteq {c.id} /\ Decided(c)
    BY <1>0, <1>1, <1>16 DEF Planned, u, n, Decided
  <2>2. h = p /\ t.owner = p
    BY <1>3, <1>16, <2>1 DEF HolderAfter, h
  <2>3. holder[n] \in {Nobody, p} /\ (KeepsOwner => c.base.owner \in {Nobody, p})
    BY <1>7, <1>b, <2>1 DEF ClaimsStand
  <2>4. ASSUME NEW q \in Procs, Decided(call'[q]), call'[q].id = n PROVE FALSE
    <3>1. CASE q = p
      <4>1. DOMAIN call'[p].todo = {} /\ call'[p].snap[n] = Gone
        BY <1>0, <1>4, <2>1 DEF n
      <4> QED BY <1>4, <2>4, <3>1, <4>1 DEF Decided
    <3>2. CASE q # p
      <4>1. call'[q] = call[q]
        BY <1>4, <3>2
      <4>2. CASE call[q].op = "claim"
        BY <1>14, <2>4, <3>2, <4>1, <4>2
      <4>3. CASE call[q].op # "claim"
        <5>1. call[q].op = "claimBusy"
          BY <2>4, <4>1, <4>3 DEF Decided
        <5>2. c.op = "claimBusy"
          BY <1>16, <5>1, MeantCalls DEF OneWayToClaim
        <5>3. HoldsList(c)
          BY <1>0, <5>2 DEF HoldsList
        <5>4. HoldsList(call[q])
          <6>1. PointsOf(call[q]) /\ Planned(q, call[q]) /\ call[q].id \in Ids
            BY <1>0 DEF Shapes, CallType
          <6>2. CASE call[q].at = "read"
            BY <5>1, <6>2 DEF HoldsList
          <6>3. CASE call[q].at # "read"
            <7>1. DOMAIN call[q].todo # {}
              BY <2>4, <4>1, <5>1, <6>1, <6>3 DEF Decided, Planned
            <7>2. call[q].at \in {"update", "check", "lock", "reread", "write", "refill"}
              BY <1>0, <5>1, <6>1, <6>3, <7>1 DEF PointsOf, Planned, CallType, Points
            <7> QED BY <5>1, <7>1, <7>2 DEF HoldsList
          <6> QED BY <6>2, <6>3
        <5> QED BY <3>2, <5>3, <5>4 DEF FilesInv, Sections, LocksExclude
      <4> QED BY <4>2, <4>3
    <3> QED BY <3>1, <3>2
  <2>5. ASSUME NEW q \in Procs, call'[q].op = "unassign", Takes(call'[q], n) PROVE call'[q].agent = p
    <3>1. q # p /\ call'[q] = call[q]
      BY <1>4, <1>16, <2>5
    <3>2. KeepsOwner
      BY <1>13, <2>5, <3>1
    <3>3. OwnedBy(n, {call[q].agent}) /\ call[q].agent \in Procs
      <4>1. call[q].at \notin {"idle", "dead"} /\ Planned(q, call[q])
        BY <1>0, <2>5, <3>1 DEF Shapes, PointsOf
      <4> QED BY <1>0, <1>b, <2>5, <3>1, <4>1 DEF UnassignsStand, Planned, n
    <3> QED BY <1>7, <2>3, <3>1, <3>2, <3>3, NobodyAssumption
  <2>6. Goal
    BY <2>2, <2>3, <2>4, <2>5
  <2>7. holder'[call[p].cur] = p
    BY <1>8, <2>2 DEF n
  <2> QED BY <1>12, <2>6, <2>7
\* An unassignment is written.
<1>17. CASE c.op = "unassign"
  <2>1. u = [owner |-> Nobody, status |-> "pending"]
    BY <1>0, <1>1, <1>17 DEF Planned, u, n
  <2>2. c.base.owner = c.agent
    <3>1. OwnedBy(n, {c.agent})
      BY <1>0, <1>1, <1>17, <1>b DEF UnassignsStand, Takes, n
    <3> QED BY <1>7, <3>1
  <2>3. h = Nobody /\ t.owner = Nobody
    BY <1>3, <1>11, <1>17, <1>b, <2>1, <2>2 DEF HolderAfter, h
  <2>4. ASSUME NEW q \in Procs, call'[q].op = "unassign", Takes(call'[q], n) PROVE FALSE
    <3>1. CASE q = p
      BY <1>0, <1>4, <2>4, <3>1 DEF Takes, n
    <3>2. CASE q # p
      BY <1>4, <1>13, <1>17, <2>4, <3>2
    <3> QED BY <3>1, <3>2
  <2>5. Goal
    BY <2>3, <2>4
  <2> QED BY <1>12, <1>17, <2>5
\* A caller of updateTask writes an owner.
<1>18. CASE c.op = "update" /\ "owner" \in DOMAIN u
  <2>1. ~ KeepsOwner
    BY <1>0, <1>1, <1>18 DEF Planned, KeepsOwner, u, n
  <2>2. h = Nobody
    BY <1>18 DEF HolderAfter, h, u, n
  <2>3. ASSUME NEW q \in Procs, Decided(call'[q]), call'[q].id = n PROVE call'[q].op # "claim"
    BY <1>4, <1>14, <1>18, <2>3 DEF Decided
  <2>4. \A q \in Procs : call'[q].op # "unassign"
    BY <1>4, <1>13, <1>18, <2>1
  <2>5. Goal
    BY <2>1, <2>2, <2>3, <2>4
  <2> QED BY <1>12, <1>18, <2>5
<1>19. c.op \in {"delete", "block"} => "owner" \notin DOMAIN u
  BY <1>0, <1>1 DEF Planned, u, n
<1> QED BY <1>1, <1>15, <1>16, <1>17, <1>18, <1>19 DEF Updating

LEMMA ClaimsOfStep ==
  ASSUME FilesInv, OneWayToClaim, OneUnassigner, Claims, NEW p \in Procs, Call(p) \/ Step(p) \/ Crash(p)
  PROVE  /\ Claims'
         /\ \A i \in Ids : Nobody \notin {holder[i], holder'[i]} => holder'[i] = holder[i]
<1>1. Moves(p)
  BY MovesOfStep DEF FilesInv
<1>t. holder \in [Ids -> Owners]
  BY DEF FilesInv, Sections, Types
<1>2. ASSUME Settles(p), ~ Writing(call'[p]), UNCHANGED <<file, holder>>
      PROVE  /\ Claims'
             /\ \A i \in Ids : Nobody \notin {holder[i], holder'[i]} => holder'[i] = holder[i]
  BY <1>1, <1>2, ClaimsLift DEF Copies, Releases
<1>3. ASSUME Settles(p), Copies(p), Releases
      PROVE  /\ Claims'
             /\ \A i \in Ids : Nobody \notin {holder[i], holder'[i]} => holder'[i] = holder[i]
  <2>1. Claims'
    BY <1>1, <1>3, ClaimsLift
  <2> QED BY <1>3, <2>1 DEF Releases
<1>4. CASE \/ LockFails(p) \/ CreateFull(p) \/ Swept(p) \/ UnlinkMissing(p) \/ Updated(p) \/ Crash(p)
  <2>1. (Finish(p) \/ Crash(p)) /\ UNCHANGED <<file, holder>>
    BY <1>4 DEF LockFails, CreateFull, Swept, UnlinkMissing, Updated, Crash, fileVars,
       ghostVars
  <2> QED BY <1>2, <2>1, EndSettles
<1>5. CASE \/ Call(p) \/ LockList(p) \/ LockTask(p) \/ ScanFiles(p) \/ ScanMark(p) \/ FindHighest(p)
           \/ ReadMark(p) \/ MarkOpen(p) \/ MarkFill(p) \/ ReadDir(p) \/ NextUpdate(p)
  <2>1. UNCHANGED <<file, holder>>
    BY <1>5 DEF Call, CreateTask, ResetTaskList, UpdateTask, DeleteTask, BlockTask,
       ClaimTask, ClaimTaskBusy, UnassignTeammateTasks, Begin, LockList, LockTask,
       ScanFiles, ScanMark, Scanned, FindHighest, ReadMark, MarkOpen, MarkFill, ReadDir,
       NextUpdate, fileVars, ghostVars
  <2> QED BY <1>2, <1>5, <2>1, QuietSettles
<1>6. CASE \/ ReadOne(p) \/ PlanCascade(p) \/ PlanUnassign(p) \/ PlanBlock(p) \/ DecideBusyClaim(p)
           \/ ClaimRead(p) \/ DecideClaim(p) \/ Check(p)
  <2>1. UNCHANGED <<file, holder>>
    BY <1>6 DEF ReadOne, PlanCascade, PlanUnassign, PlanBlock, DecideBusyClaim,
       ClaimRead, DecideClaim, Check, fileVars, ghostVars
  <2> QED BY <1>2, <1>6, <2>1, ReadSettles, PlanSettles, ClaimSettles, CheckSettles
<1>7. CASE Reread(p)
  <2>1. Releases
    BY <1>7 DEF Reread, Releases, ghostVars
  <2> QED BY <1>3, <1>7, <2>1, RereadSettles
<1>8. CASE CreateOpen(p) \/ Sweep(p) \/ Unlink(p) \/ Write(p)
  BY <1>3, <1>8, EmptySettles
<1>9. CASE CreateFill(p)
  BY <1>1, <1>9, FillSettles
<1>10. CASE Refill(p)
  <2>1. CASE file[call[p].cur] = Gone
    BY <1>2, <1>10, <2>1, LostSettles
  <2>2. CASE file[call[p].cur] # Gone
    BY <1>1, <1>10, <2>2, RefillSettles
  <2> QED BY <2>1, <2>2
<1> QED BY <1>4, <1>5, <1>6, <1>7, <1>8, <1>9, <1>10 DEF Step

\* How a plain claim gets on.
LEMMA StepsOfClaim ==
  ASSUME NEW p \in Procs, Step(p), PointsOf(call[p]), call[p].op = "claim"
  PROVE  \/ LockTask(p) \/ LockFails(p) \/ ReadDir(p) \/ ReadOne(p) \/ ClaimRead(p)
         \/ DecideClaim(p) \/ NextUpdate(p) \/ Updated(p) \/ Check(p) \/ Reread(p)
         \/ Write(p) \/ Refill(p)
  BY DEF Step, PointsOf, At, Listed, LockList, ScanFiles, ScanMark, Scanned, CreateOpen,
     CreateFull, CreateFill, FindHighest, ReadMark, MarkOpen, MarkFill, Sweep, Swept,
     Unlink, UnlinkMissing, PlanCascade, PlanUnassign, PlanBlock, DecideBusyClaim

\* How an update gets on.
LEMMA StepsOfUpdate ==
  ASSUME NEW p \in Procs, Step(p), call[p].at \in {"check", "reread", "refill"}
  PROVE  Check(p) \/ Reread(p) \/ Refill(p)
  BY DEF Step, At, Listed, LockList, LockTask, LockFails, ScanFiles, ScanMark, Scanned,
     CreateOpen, CreateFull, CreateFill, FindHighest, ReadMark, MarkOpen, MarkFill,
     Sweep, Swept, Unlink, UnlinkMissing, ReadDir, ReadOne, PlanCascade, PlanUnassign,
     PlanBlock, ClaimRead, DecideClaim, DecideBusyClaim, NextUpdate, Updated, Write

\* A claim under the lock of its task was there before, or has just read it.
LEMMA ClaimUnderLock ==
  ASSUME FilesInv, NEW p \in Procs, Call(p) \/ Step(p) \/ Crash(p), UnderLock(call'[p])
  PROVE  /\ UNCHANGED file
         /\ \/ UnderLock(call[p]) /\ call'[p].cur = call[p].cur
            \/ file[call'[p].cur] \in Task
<1>0. Types /\ Shapes /\ call[p] \in CallType /\ PointsOf(call[p])
  BY DEF FilesInv, Sections, Types, Shapes
<1>1. Step(p)
  <2>1. ~ Call(p)
    BY <1>0, CallShape DEF UnderLock
  <2>2. ~ Crash(p)
    BY <1>0, CrashShape DEF UnderLock, Resting
  <2> QED BY <2>1, <2>2
<1>2. call[p].op = "claim"
  BY <1>0, <1>1, OpOfStep DEF UnderLock
<1>3. ~ Finish(p)
  BY <1>0, EndShape DEF UnderLock, Resting
<1>a. call'[p].at \in {"readdir", "read", "reread"}
  BY DEF UnderLock
<1>d. call'[p] # Dropped(call[p]) /\ \A a \in {"claimRead", "check", "listLock", "lock", "refill", "write"} :
                                       call'[p] # [call[p] EXCEPT !.at = a]
  BY <1>0, <1>a, DroppedIs DEF CallType
<1>4. ~ LockTask(p) /\ ~ Check(p) /\ ~ Write(p) /\ ~ Refill(p)
  <2>1. ~ LockTask(p)
    BY <1>0, <1>2, <1>d, LockTaskShape DEF AfterTaskLock
  <2>2. ~ Check(p)
    BY <1>0, <1>3, <1>d, CheckShape
  <2> QED BY <1>0, <1>d, <2>1, <2>2, WriteShape, RefillShape
<1>5. ~ NextUpdate(p) /\ ~ Reread(p)
  <2>1. ~ NextUpdate(p)
    BY <1>0, <1>a, NextUpdateShape DEF CallType
  <2>2. call'[p] # [call[p] EXCEPT !.base = file[call[p].cur], !.at = "write"]
    BY <1>0, <1>a DEF CallType
  <2> QED BY <1>0, <1>d, <2>1, <2>2, RereadShape
<1>6. CASE ReadDir(p) \/ ReadOne(p) \/ DecideClaim(p)
  <2>1. call[p].at \in {"readdir", "read"} /\ UNCHANGED file
    BY <1>6 DEF ReadDir, ReadOne, DecideClaim, Listed, At, fileVars
  <2>2. call'[p].cur = call[p].cur
    <3>1. CASE ReadDir(p)
      BY <1>0, <3>1, ReadDirShape DEF CallType
    <3>2. CASE ReadOne(p)
      <4>1. PICK i \in Ids : call'[p] = [call[p] EXCEPT !.left = @ \ {i}, !.snap[i] = Read(file[i])]
        BY <1>0, <3>2, ReadOneShape
      <4> QED BY <1>0, <4>1 DEF CallType
    <3>3. CASE DecideClaim(p)
      BY <1>0, <1>3, <3>3, DecideClaimShape DEF CallType
    <3> QED BY <1>6, <3>1, <3>2, <3>3
  <2> QED BY <1>2, <2>1, <2>2 DEF UnderLock
<1>7. CASE ClaimRead(p)
  <2>1. /\ file[call[p].id] \in Task /\ call[p].cur = call[p].id
        /\ call'[p] = [call[p] EXCEPT !.base = file[call[p].id], !.at = "readdir"]
    BY <1>0, <1>3, <1>7, ClaimReadShape
  <2>2. call'[p].cur = call[p].cur
    BY <1>0, <2>1 DEF CallType
  <2> QED BY <1>7, <2>1, <2>2 DEF ClaimRead, fileVars
<1>8. LockFails(p) \/ Updated(p) => Finish(p)
  BY DEF LockFails, Updated
<1> QED BY <1>0, <1>1, <1>2, <1>3, <1>4, <1>5, <1>6, <1>7, <1>8, StepsOfClaim

\* Who holds the lock of a task sees nobody else empty its file.
LEMMA NotTornByOthers ==
  ASSUME FilesInv, NEW p \in Procs, Call(p) \/ Step(p) \/ Crash(p),
         NEW q \in Procs \ {p}, HoldsTask(call[q]), file'[call[q].cur] = Torn
  PROVE  file[call[q].cur] = Torn
<1>0. Types /\ Shapes /\ call[p] \in CallType /\ call[q].cur \in Ids /\ file \in [Ids -> Files]
  BY DEF FilesInv, Sections, Types, CallType
<1>1. CASE CreateOpen(p)
  <2>1. file' = [file EXCEPT ![NextId(call[p].high)] = Torn] /\ NextId(call[p].high) \in Ids
    BY <1>1 DEF CreateOpen
  <2>2. ~ Given(NextId(call[p].high))
    BY <1>1, UnusedId DEF Used
  <2>3. Given(call[q].cur)
    BY DEF FilesInv, Disk, KnownAreGiven, Knows
  <2> QED BY <1>0, <2>1, <2>2, <2>3
<1>2. CASE Write(p)
  <2>1. HoldsTask(call[p]) /\ file' = [file EXCEPT ![call[p].cur] = Torn]
    BY <1>2 DEF Write, At, HoldsTask
  <2>2. call[q].cur # call[p].cur
    BY <2>1, AloneWithTask DEF FilesInv
  <2> QED BY <1>0, <2>1, <2>2
<1>3. ASSUME NEW i \in Ids, NEW f, f # Torn, file' = [file EXCEPT ![i] = f]
      PROVE  file[call[q].cur] = Torn
  BY <1>0, <1>3
<1>4. CASE Sweep(p) \/ Unlink(p)
  <2>1. PICK i \in Ids : file' = [file EXCEPT ![i] = Gone]
    BY <1>0, <1>4 DEF Sweep, Unlink, Remove, CallType
  <2> QED BY <1>3, <2>1, FilesAssumption
<1>5. CASE CreateFill(p) \/ Refill(p)
  <2>1. NewTask \in Task
    BY DEF NewTask, Task, Statuses
  <2>2. Refill(p) => Merge(call[p].base, call[p].todo[call[p].cur]) \in Task
    BY <1>0, RefillShape
  <2>3. PICK i \in Ids, t \in Task : file' = [file EXCEPT ![i] = IF @ = Gone THEN Gone ELSE t]
    BY <1>0, <1>5, <2>1, <2>2 DEF CreateFill, Refill, Filled, CallType
  <2> QED BY <1>0, <2>3, FilesAssumption
<1>6. CASE UNCHANGED file
  BY <1>6
<1>7. UNCHANGED file \/ CreateOpen(p) \/ Write(p) \/ Sweep(p) \/ Unlink(p) \/ CreateFill(p) \/ Refill(p)
  <2>1. CASE Call(p)
    BY <2>1 DEF Call, CreateTask, ResetTaskList, UpdateTask, DeleteTask, BlockTask,
       ClaimTask, ClaimTaskBusy, UnassignTeammateTasks, Begin, fileVars
  <2>2. CASE Crash(p)
    BY <2>2 DEF Crash, fileVars
  <2>3. CASE Step(p)
    BY <2>3 DEF Step, LockList, LockTask, LockFails, ScanFiles, ScanMark, Scanned,
       CreateFull, FindHighest, ReadMark, MarkOpen, MarkFill, Swept, UnlinkMissing,
       ReadDir, ReadOne, PlanCascade, PlanUnassign, PlanBlock, ClaimRead, DecideClaim,
       DecideBusyClaim, NextUpdate, Updated, Check, Reread, fileVars
  <2> QED BY <2>1, <2>2, <2>3
<1> QED BY <1>1, <1>2, <1>4, <1>5, <1>6, <1>7

LEMMA WholeStep ==
  ASSUME FilesInv, FindsWhole, NEW p \in Procs, Call(p) \/ Step(p) \/ Crash(p)
  PROVE  FindsWhole'
<1> SUFFICES ASSUME NEW q \in Procs, UnderLock(call'[q])
             PROVE  file'[call'[q].cur] # Torn
  BY DEF FindsWhole, UnderLock
<1>1. CASE q = p
  BY <1>1, ClaimUnderLock, FilesAssumption DEF FindsWhole
<1>2. CASE q # p
  <2>1. call'[q] = call[q]
    BY <1>2, MovesOfStep DEF FilesInv, Moves
  <2>2. HoldsTask(call[q]) /\ file[call[q].cur] # Torn
    BY <2>1 DEF UnderLock, HoldsTask, FindsWhole
  <2> QED BY <1>2, <2>1, <2>2, NotTornByOthers
<1> QED BY <1>1, <1>2

(* What a claim has done when its agent is told that it has the task.       *)
HasWritten(p) ==
  \/ holder'[call[p].cur] = p
  \/ file[call[p].cur] = Gone
  \/ call[p].op = "claimBusy" /\ file[call[p].cur] = Torn

LEMMA ToldOfStep ==
  ASSUME FilesInv, OneWayToClaim, OneUnassigner, Claims, FindsWhole,
         NEW p \in Procs, Call(p) \/ Step(p) \/ Crash(p), NEW q \in Procs, Told(q)
  PROVE  HasWritten(q)
<1>0. Types /\ Shapes /\ call[p] \in CallType /\ Moves(p)
  BY MovesOfStep DEF FilesInv, Sections, Types
<1>1. q = p
  BY <1>0 DEF Told, Moves
<1>2. ~ Crash(p)
  BY <1>0, <1>1, CrashShape DEF Told, Resting
<1>3. ~ Call(p)
  BY <1>1 DEF Told, Call, CreateTask, ResetTaskList, UpdateTask, DeleteTask, BlockTask,
     ClaimTask, ClaimTaskBusy, UnassignTeammateTasks, Begin, At
<1>4. CASE Check(p)
  <2>1. call'[p].at = "update"
    BY <1>1 DEF Told
  <2>2. call'[p] # Resting /\ \A a \in {"listLock", "lock"} : call'[p] # [call[p] EXCEPT !.at = a]
    BY <1>0, <2>1 DEF CallType, Resting
  <2>3. call[p].op # "claim" /\ file[call[p].cur] \in {Gone, Torn}
    BY <1>0, <1>4, <2>2, CheckShape
  <2> QED BY <1>1, <2>3 DEF Told, HasWritten
<1>5. CASE Reread(p)
  <2>1. file[call[p].cur] \in {Gone, Torn} /\ call[p].at = "reread"
    BY <1>0, <1>1, <1>5, RereadShape DEF Told, CallType
  <2>2. call[p].op = "claim" => file[call[p].cur] # Torn
    BY <2>1 DEF FindsWhole, UnderLock
  <2> QED BY <1>1, <2>1, <2>2 DEF Told, HasWritten
<1>6. CASE Refill(p)
  BY <1>0, <1>1, <1>6, RefillSettles DEF Told, HasWritten
<1> QED BY <1>1, <1>2, <1>3, <1>4, <1>5, <1>6, StepsOfUpdate DEF Told

(* The scenarios in which the agents claim in one way: claimTask holds the *)
(* lock of the task and claimTaskWithBusyCheck that of the list, which do  *)
(* not exclude each other.                                                 *)
OneLockOfClaims ==
  \A s \in Scenarios : \A p, q \in Procs : ~ ("claim" \in s.roles[p] /\ "claimBusy" \in s.roles[q])

(* One agent at most unassigns the tasks of another, while no caller of    *)
(* updateTask gives a task an owner: what unassignTeammateTasks takes away *)
(* was read without a lock.                                                *)
OneReassigner ==
  \A s \in Scenarios : \A p, q \in Procs :
    "unassign" \in s.roles[p] => KeepsOwner /\ ("unassign" \in s.roles[q] => q = p)

LEMMA ClaimsInit ==
  ASSUME NoDeletionBesideCreation, OneLockOfClaims, OneReassigner, Init
  PROVE  ClaimsInv
<1>0. FilesInv
  BY FilesInit
<1>1. PICK s \in Scenarios : file = s.start /\ calls = [p \in Procs |-> [ops |-> s.roles[p], left |-> s.calls]]
  BY DEF Init
<1>2. s.start \in [Ids -> Task \cup {Gone}]
  BY ScenariosAssumption
<1>3. OneWayToClaim /\ OneUnassigner
  BY <1>1 DEF OneLockOfClaims, OneReassigner, OneWayToClaim, OneUnassigner
<1>4. /\ holder = [i \in Ids |-> IF file[i] = Gone THEN Nobody ELSE file[i].owner]
      /\ call = [p \in Procs |-> Resting]
  BY DEF Init
<1>5. \A p \in Procs : call[p].op = "update" /\ ~ Writing(call[p])
  BY <1>4 DEF Resting, Writing
<1>6. HolderOwns
  BY <1>1, <1>2, <1>4, <1>5, FilesAssumption DEF HolderOwns, OwnedBy
<1>7. ClaimsStand /\ UnassignsStand /\ FindsWhole
  BY <1>5 DEF ClaimsStand, UnassignsStand, Decided, FindsWhole, UnderLock
<1> QED BY <1>0, <1>3, <1>6, <1>7 DEF ClaimsInv

LEMMA ClaimsStep ==
  ASSUME ClaimsInv, [Next]_vars
  PROVE  /\ ClaimsInv'
         /\ \A i \in Ids : Nobody \notin {holder[i], holder'[i]} => holder'[i] = holder[i]
         /\ \A p \in Procs : Told(p) => HasWritten(p)
<1>0. FilesInv /\ OneWayToClaim /\ OneUnassigner /\ Claims /\ FindsWhole
  BY DEF ClaimsInv, Claims
<1>1. FilesInv'
  BY <1>0, FilesStep
<1>2. OneWayToClaim' /\ OneUnassigner'
  BY <1>0, OpsSame DEF FilesInv, Sections, OneWayToClaim, OneUnassigner, KeepsOwner
<1>3. CASE UNCHANGED vars
  <2>1. /\ file' = file /\ call' = call /\ holder' = holder
    BY <1>3 DEF vars, fileVars, ghostVars
  <2>2. Claims' /\ FindsWhole'
    BY <1>0, <2>1 DEF Claims, HolderOwns, ClaimsStand, UnassignsStand, OwnedBy, Decided,
       Takes, Writing, KeepsOwner, FindsWhole, UnderLock
  <2>3. \A p \in Procs : ~ Told(p)
    BY <2>1 DEF Told
  <2> QED BY <1>1, <1>2, <2>1, <2>2, <2>3 DEF ClaimsInv, Claims
<1>4. CASE \E p \in Procs : Call(p) \/ Step(p) \/ Crash(p)
  <2>1. /\ Claims'
        /\ \A i \in Ids : Nobody \notin {holder[i], holder'[i]} => holder'[i] = holder[i]
    BY <1>0, <1>4, ClaimsOfStep
  <2>2. FindsWhole'
    BY <1>0, <1>4, WholeStep
  <2>3. \A p \in Procs : Told(p) => HasWritten(p)
    BY <1>0, <1>4, ToldOfStep
  <2> QED BY <1>1, <1>2, <2>1, <2>2, <2>3 DEF ClaimsInv, Claims
<1> QED BY <1>3, <1>4 DEF Next, Done

(* No claim takes a task that another has written, and an agent is told    *)
(* that it has a task only once its claim has written it (unless the task  *)
(* is deleted, or a busy claim finds it in the middle of a write), whatever*)
(* the agents do meanwhile (create, reset, update, block, die): where they *)
(* all claim by the same lock and one agent at most takes tasks away from  *)
(* others.                                                                 *)
THEOREM ClaimsAreExclusive ==
  NoDeletionBesideCreation /\ OneLockOfClaims /\ OneReassigner => (Spec => ClaimExclusive)
<1> SUFFICES ASSUME NoDeletionBesideCreation, OneLockOfClaims, OneReassigner PROVE Spec => ClaimExclusive
  OBVIOUS
<1>1. Init => ClaimsInv
  BY ClaimsInit
<1>2. ClaimsInv /\ [Next]_vars =>
        /\ ClaimsInv'
        /\ \A i \in Ids : Nobody \notin {holder[i], holder'[i]} => holder'[i] = holder[i]
        /\ \A p \in Procs : Told(p) => HasWritten(p)
  BY ClaimsStep
<1> QED BY <1>1, <1>2, PTL DEF Spec, ClaimExclusive, HasWritten

=============================================================================
