----------------------------- MODULE CronProofs -----------------------------
(***************************************************************************)
(* Proofs about the scheduled tasks.                                       *)
(*                                                                         *)
(* CronScheduler, for any tasks, clock and sessions beside it: the types,  *)
(* what keeps a task in the file until it has fired, what keeps a          *)
(* recurring task from firing twice in a period, and what keeps a one-shot *)
(* task from being run twice, or run and asked about.                      *)
(*                                                                         *)
(* CronLock (at the end), for any sessions and any number of starts: its   *)
(* state is sound, and only a process that died leaves its lock behind.    *)
(***************************************************************************)
EXTENDS CronScheduler, CronLock, TLAPS

-----------------------------------------------------------------------------
(* Types.                                                                  *)

Snaps == [initial: BOOLEAN, snap: Contents]

Types ==
  /\ now \in Time
  /\ file \in Contents \cup {Torn}
  /\ io \subseteq Ios
  /\ starts \in 0 .. MaxStarts /\ up \in BOOLEAN /\ isOwner \in BOOLEAN
  /\ tasks \in Contents
  /\ nextFireAt \in [Ids -> Time \cup {Unset, MaxTime + 1, Infinity}]
  /\ inFlight \subseteq Ids /\ missedAsked \subseteq Ids
  /\ toLoad \subseteq {"initial", "change"}
  /\ loads \subseteq Snaps
  /\ fires \in [Ids -> 0 .. MaxFires] /\ firedAt \in [Ids -> Time \cup {Unset}]
  /\ notified \subseteq Ids /\ created \subseteq Ids /\ deleted \subseteq Ids

LEMMA Numbers ==
  /\ MaxTime \in Nat \ {0} /\ MaxFires \in Nat \ {0}
  /\ MaxAge \in Nat /\ MaxStarts \in Nat
  /\ MayDelete \in BOOLEAN /\ MayFail \in BOOLEAN /\ MayWait \in BOOLEAN
  /\ PromptWrites \in BOOLEAN /\ PromptReloads \in BOOLEAN
BY BoundsAssumption

LEMMA TypesSuffice == Types => TypeOK
BY DEF Types, TypeOK, Contents, Ios, Snaps

LEMMA EntryType ==
  ASSUME NEW e \in Entry
  PROVE  e # Gone /\ e.created \in Time /\ e.last \in Time \cup {Unset}
BY GoneAssumption DEF Entry

LEMMA NoTasksType == NoTasks \in Contents /\ \A i \in Ids : NoTasks[i] = Gone
BY DEF NoTasks, Contents

LEMMA ReadType ==
  ASSUME Types
  PROVE  /\ Read \in Contents
         /\ file # Torn => Read = file
         /\ file = Torn => \A i \in Ids : Read[i] = Gone
BY NoTasksType DEF Types, Read

\* What a change writes: the tasks that are not its own as it has read them.
LEMMA ChangedIs ==
  ASSUME NEW c \in Ios
  PROVE  /\ Changed(c) \in Contents /\ Changed(c) # Torn
         /\ \A i \in Ids :
              /\ i \notin c.ids => Changed(c)[i] = c.snap[i]
              /\ i \in c.ids /\ c.op = "mark" =>
                   \/ Changed(c)[i] = Gone /\ c.snap[i] = Gone
                   \/ /\ Changed(c)[i] # Gone /\ c.snap[i] # Gone
                      /\ Changed(c)[i].created = c.snap[i].created
              /\ i \in c.ids /\ c.op \notin {"mark", "create"} => Changed(c)[i] = Gone
<1>1. c.time \in Time /\ c.snap \in Contents /\ \A i \in Ids : c.snap[i] \in Entry \cup {Gone}
  BY DEF Ios, Contents
<1>2. \A e \in Entry : /\ [e EXCEPT !.last = c.time] \in Entry
                       /\ [e EXCEPT !.last = c.time].created = e.created
  BY <1>1 DEF Entry
<1>3. [created |-> c.time, last |-> Unset] \in Entry
  BY <1>1 DEF Entry
<1>4. \A i \in Ids : Changed(c)[i] \in Entry \cup {Gone}
  BY <1>1, <1>2, <1>3 DEF Changed
<1>5. Changed(c) \in Contents
  BY <1>4 DEF Changed, Contents
<1>6. ASSUME NEW i \in Ids, i \in c.ids, c.op = "mark"
      PROVE  \/ Changed(c)[i] = Gone /\ c.snap[i] = Gone
             \/ /\ Changed(c)[i] # Gone /\ c.snap[i] # Gone
                /\ Changed(c)[i].created = c.snap[i].created
  <2>1. Changed(c)[i] = IF c.snap[i] = Gone THEN Gone ELSE [c.snap[i] EXCEPT !.last = c.time]
    BY <1>6 DEF Changed
  <2> QED BY <1>1, <1>2, <2>1, GoneAssumption
<1> QED BY <1>5, <1>6, GoneAssumption DEF Changed

\* A new change.
LEMMA ChangeType ==
  ASSUME Types, NEW op \in IoOps, NEW ids \in SUBSET Ids
  PROVE  /\ Change(op, ids) \in Ios /\ Change(op, ids).op = op
         /\ Change(op, ids).ids = ids /\ Change(op, ids).at = "read"
         /\ Change(op, ids).snap = NoTasks
BY NoTasksType DEF Types, Change, Ios

\* A change that has read, and one that has opened the file.
LEMMA StagesType ==
  ASSUME NEW c \in Ios, NEW f \in Contents
  PROVE  /\ [c EXCEPT !.snap = f, !.at = "open"] \in Ios
         /\ [c EXCEPT !.snap = f, !.at = "open"].op = c.op
         /\ [c EXCEPT !.snap = f, !.at = "open"].ids = c.ids
         /\ [c EXCEPT !.snap = f, !.at = "open"].at = "open"
         /\ [c EXCEPT !.snap = f, !.at = "open"].snap = f
         /\ [c EXCEPT !.at = "fill"] \in Ios
         /\ [c EXCEPT !.at = "fill"].op = c.op
         /\ [c EXCEPT !.at = "fill"].ids = c.ids
         /\ [c EXCEPT !.at = "fill"].at = "fill"
         /\ [c EXCEPT !.at = "fill"].snap = c.snap
BY DEF Ios

\* When a task is next due.
LEMMA NextOfType ==
  ASSUME Types, NEW i \in Seen
  PROVE  /\ i \in Ids /\ tasks[i] \in Entry /\ tasks[i] # Gone
         /\ NextOf(i) \in Time \cup {MaxTime + 1, Infinity}
         /\ nextFireAt[i] # Unset => NextOf(i) = nextFireAt[i]
<1>1. i \in Ids /\ tasks[i] \in Entry /\ tasks[i] # Gone /\ nextFireAt[i] \in Time \cup {Unset, MaxTime + 1, Infinity}
  BY DEF Types, Seen, In, Contents
<1>2. \A t \in Time : NextRun(t) \in Time \cup {MaxTime + 1}
  BY Numbers DEF NextRun, Time
<1>3. Anchor(i, tasks[i]) \in Time
  BY <1>1, EntryType DEF Anchor
<1> QED BY <1>1, <1>2, <1>3 DEF NextOf

-----------------------------------------------------------------------------
(* What the checks and the loads do.                                       *)

Once == {i \in Due : i \notin Recurring \/ Aged(i)}
Again == Due \ Once

LEMMA DueIs ==
  /\ Once \subseteq Due /\ Again \subseteq Due /\ Due = Once \cup Again
  /\ Due \subseteq Seen /\ Due \cap inFlight = {} /\ Seen \subseteq Ids
  /\ \A i \in Due : now >= NextOf(i)
  /\ \A i \in Once : i \notin Recurring \/ Aged(i)
  /\ \A i \in Again : i \in Recurring /\ ~ Aged(i)
BY DEF Once, Again, Due, Seen, In

LEMMA CheckIs ==
  ASSUME Types, Check
  PROVE  /\ up /\ Quick
         /\ inFlight' = inFlight \cup Due
         /\ UNCHANGED <<now, file, starts, up, isOwner, tasks, missedAsked, toLoad,
                        loads, notified, created, deleted>>
         /\ io' \subseteq Ios /\ io \subseteq io'
         /\ \A c \in io' \ io :
              /\ c.at = "read" /\ c.snap = NoTasks
              /\ \/ c.op = "fired" /\ \E i \in Once : c.ids = {i}
                 \/ c.op = "mark" /\ c.ids = Again /\ Again # {}
         /\ \A i \in Once : Change("fired", {i}) \in io'
         /\ \A i \in Ids :
              /\ i \notin Seen => nextFireAt'[i] = Unset
              /\ i \in Seen /\ i \in inFlight => nextFireAt'[i] = nextFireAt[i]
              /\ i \in Once => nextFireAt'[i] = Unset
              /\ i \in Again => nextFireAt'[i] = now + 1
              /\ i \in Seen \ (inFlight \cup Due) => nextFireAt'[i] = NextOf(i)
              /\ firedAt'[i] = IF i \in Due THEN now ELSE firedAt[i]
              /\ fires'[i] = IF i \in Due /\ fires[i] < MaxFires
                             THEN fires[i] + 1 ELSE fires[i]
<1> DEFINE new == {Change("fired", {i}) : i \in Once}
                   \cup (IF Again = {} THEN {} ELSE {Change("mark", Again)})
<1>1. io' = io \cup new
  BY DEF Check, Once, Again
<1>2. nextFireAt' = [i \in Ids |-> CASE i \notin Seen -> Unset
                                     [] i \in Seen \cap inFlight -> nextFireAt[i]
                                     [] i \in Once -> Unset
                                     [] i \in Again -> Rescheduled(i)
                                     [] OTHER -> NextOf(i)]
  BY Zenon DEF Check, Once, Again
<1>3. \A c \in new : /\ c \in Ios /\ c.at = "read" /\ c.snap = NoTasks
                     /\ \/ c.op = "fired" /\ \E i \in Once : c.ids = {i}
                        \/ c.op = "mark" /\ c.ids = Again /\ Again # {}
  <2>1. ASSUME NEW op \in {"fired", "mark"}, NEW ids \in SUBSET Ids
        PROVE  /\ Change(op, ids) \in Ios /\ Change(op, ids).op = op
               /\ Change(op, ids).ids = ids /\ Change(op, ids).at = "read"
               /\ Change(op, ids).snap = NoTasks
    <3>1. op \in IoOps
      BY DEF IoOps
    <3> QED BY <3>1, ChangeType
  <2>2. \A i \in Once : {i} \in SUBSET Ids
    BY DueIs
  <2>3. Again \in SUBSET Ids
    BY DueIs
  <2>4. ASSUME NEW i \in Once
        PROVE  /\ Change("fired", {i}) \in Ios /\ Change("fired", {i}).at = "read"
               /\ Change("fired", {i}).snap = NoTasks
               /\ Change("fired", {i}).op = "fired" /\ Change("fired", {i}).ids = {i}
    BY <2>1, <2>2
  <2>5. /\ Change("mark", Again) \in Ios /\ Change("mark", Again).at = "read"
        /\ Change("mark", Again).snap = NoTasks
        /\ Change("mark", Again).op = "mark" /\ Change("mark", Again).ids = Again
    BY <2>1, <2>3
  <2>6. ASSUME NEW c \in new
        PROVE  (\E i \in Once : c = Change("fired", {i}))
                 \/ (Again # {} /\ c = Change("mark", Again))
    OBVIOUS
  <2>7. ASSUME NEW c \in new, NEW i \in Once, c = Change("fired", {i})
        PROVE  /\ c \in Ios /\ c.at = "read" /\ c.snap = NoTasks
               /\ c.op = "fired" /\ \E j \in Once : c.ids = {j}
    BY <2>4, <2>7
  <2>8. ASSUME NEW c \in new, Again # {}, c = Change("mark", Again)
        PROVE  /\ c \in Ios /\ c.at = "read" /\ c.snap = NoTasks
               /\ c.op = "mark" /\ c.ids = Again
    BY <2>5, <2>8
  <2> HIDE DEF new
  <2> QED BY <2>6, <2>7, <2>8
<1>4. \A i \in Ids :
        /\ i \notin Seen => nextFireAt'[i] = Unset
        /\ i \in Seen /\ i \in inFlight => nextFireAt'[i] = nextFireAt[i]
        /\ i \in Once => nextFireAt'[i] = Unset
        /\ i \in Again => nextFireAt'[i] = now + 1
        /\ i \in Seen \ (inFlight \cup Due) => nextFireAt'[i] = NextOf(i)
  <2> SUFFICES ASSUME NEW i \in Ids
               PROVE  /\ i \notin Seen => nextFireAt'[i] = Unset
                      /\ i \in Seen /\ i \in inFlight => nextFireAt'[i] = nextFireAt[i]
                      /\ i \in Once => nextFireAt'[i] = Unset
                      /\ i \in Again => nextFireAt'[i] = now + 1
                      /\ i \in Seen \ (inFlight \cup Due) => nextFireAt'[i] = NextOf(i)
    OBVIOUS
  <2>1. nextFireAt'[i] = CASE i \notin Seen -> Unset
                           [] i \in Seen \cap inFlight -> nextFireAt[i]
                           [] i \in Once -> Unset
                           [] i \in Again -> Rescheduled(i)
                           [] OTHER -> NextOf(i)
    BY <1>2
  <2>2. /\ Once \cap Again = {} /\ Rescheduled(i) = now + 1
        /\ i \in Once \cup Again => i \in Seen /\ i \notin inFlight /\ i \in Due
        /\ i \in Due => i \in Once \cup Again
    BY DueIs DEF Again, Rescheduled, NextRun
  <2>3. CASE i \notin Seen
    BY <2>1, <2>2, <2>3
  <2>4. CASE i \in Seen /\ i \in inFlight
    BY <2>1, <2>2, <2>4
  <2>5. CASE i \in Once
    BY <2>1, <2>2, <2>5
  <2>6. CASE i \in Again
    BY <2>1, <2>2, <2>6
  <2>7. CASE i \in Seen \ (inFlight \cup Due)
    BY <2>1, <2>2, <2>7
  <2> HIDE DEF Once, Again
  <2> QED BY <2>2, <2>3, <2>4, <2>5, <2>6, <2>7
<1>5. /\ up /\ Quick /\ inFlight' = inFlight \cup Due
      /\ UNCHANGED <<now, file, starts, up, isOwner, tasks, missedAsked, toLoad,
                     loads, notified, created, deleted>>
      /\ \A i \in Ids :
           /\ firedAt'[i] = IF i \in Due THEN now ELSE firedAt[i]
           /\ fires'[i] = IF i \in Due /\ fires[i] < MaxFires
                          THEN fires[i] + 1 ELSE fires[i]
  BY DEF Check, loadVars
<1>6. io \subseteq Ios
  BY DEF Types
<1>7. /\ io' \subseteq Ios /\ io \subseteq io' /\ \A i \in Once : Change("fired", {i}) \in io'
      /\ \A c \in io' \ io : /\ c.at = "read" /\ c.snap = NoTasks
                             /\ \/ c.op = "fired" /\ \E i \in Once : c.ids = {i}
                                \/ c.op = "mark" /\ c.ids = Again /\ Again # {}
  <2>1. \A i \in Once : Change("fired", {i}) \in new
    OBVIOUS
  <2> HIDE DEF new
  <2> QED BY <1>1, <1>3, <1>6, <2>1
<1> QED BY <1>4, <1>5, <1>7

\* The missed tasks of a load.
Found(l) == IF l.initial THEN Missed(l.snap) ELSE {}

LEMMA LoadIs ==
  ASSUME Types, NEW l \in loads, Load(l)
  PROVE  /\ l.initial \in BOOLEAN /\ l.snap \in Contents
         /\ Found(l) \subseteq Ids \ (Recurring \cup missedAsked)
         /\ ~ l.initial => Found(l) = {}
         /\ \A i \in Found(l) : l.snap[i] # Gone
         /\ tasks' = l.snap /\ loads' = loads \ {l}
         /\ missedAsked' = missedAsked \cup Found(l)
         /\ notified' = notified \cup Found(l)
         /\ io' \subseteq Ios /\ io \subseteq io'
         /\ \A c \in io' \ io : /\ c.at = "read" /\ c.snap = NoTasks
                                /\ c.op = "missed" /\ c.ids = Found(l) /\ Found(l) # {}
         /\ \A i \in Ids :
              nextFireAt'[i] = IF i \in Found(l) THEN Infinity ELSE nextFireAt[i]
         /\ UNCHANGED <<now, file, starts, up, isOwner, inFlight, toLoad, fires,
                        firedAt, created, deleted>>
<1>1. l.initial \in BOOLEAN /\ l.snap \in Contents
  BY DEF Types, Snaps
<1>2. /\ Found(l) \subseteq Ids \ (Recurring \cup missedAsked)
      /\ \A i \in Found(l) : l.snap[i] # Gone
  BY DEF Found, Missed, In
<1>3. io' = IF Found(l) = {} THEN io ELSE io \cup {Change("missed", Found(l))}
  BY DEF Load, Found
<1>4. io \subseteq Ios
  BY DEF Types
<1>5. nextFireAt' = Barred(Found(l))
  BY DEF Load, Found
<1>6. \A i \in Ids : nextFireAt'[i] = IF i \in Found(l) THEN Infinity ELSE nextFireAt[i]
  BY <1>5 DEF Barred
<1>7. /\ io' \subseteq Ios /\ io \subseteq io'
      /\ \A c \in io' \ io : /\ c.at = "read" /\ c.snap = NoTasks
                             /\ c.op = "missed" /\ c.ids = Found(l) /\ Found(l) # {}
  <2>1. /\ Change("missed", Found(l)) \in Ios /\ Change("missed", Found(l)).op = "missed"
        /\ Change("missed", Found(l)).ids = Found(l)
        /\ Change("missed", Found(l)).at = "read"
        /\ Change("missed", Found(l)).snap = NoTasks
    <3>1. "missed" \in IoOps /\ Found(l) \in SUBSET Ids
      BY <1>2 DEF IoOps
    <3> QED BY <3>1, ChangeType
  <2> QED BY <1>3, <1>4, <2>1
<1>8. /\ tasks' = l.snap /\ loads' = loads \ {l}
      /\ missedAsked' = missedAsked \cup Found(l) /\ notified' = notified \cup Found(l)
      /\ ~ l.initial => Found(l) = {}
      /\ UNCHANGED <<now, file, starts, up, isOwner, inFlight, toLoad, fires,
                     firedAt, created, deleted>>
  BY DEF Load, Found
<1> QED BY <1>1, <1>2, <1>6, <1>7, <1>8

-----------------------------------------------------------------------------
(* The types are an invariant.                                             *)

LEMMA TypesInit == Init => Types
<1> SUFFICES ASSUME Init PROVE Types
  OBVIOUS
<1>1. \A t \in {0, 1} : [created |-> t, last |-> Unset] \in Entry
  BY Numbers DEF Entry, Time
<1>2. file \in Contents
  <2>1. PICK f \in [Early -> {0, 1}] :
          file = [i \in Ids |-> IF i \in Early THEN [created |-> f[i], last |-> Unset]
                                               ELSE Gone]
    BY DEF Init
  <2>2. \A i \in Ids : i \in Early => [created |-> f[i], last |-> Unset] \in Entry
    BY <1>1
  <2> QED BY <2>1, <2>2 DEF Contents
<1>3. now \in Time /\ starts \in 0 .. MaxStarts
  BY Numbers DEF Init, Time
<1>4. /\ nextFireAt \in [Ids -> Time \cup {Unset, MaxTime + 1, Infinity}]
      /\ firedAt \in [Ids -> Time \cup {Unset}] /\ fires \in [Ids -> 0 .. MaxFires]
  BY Numbers DEF Init
<1> QED BY <1>2, <1>3, <1>4, NoTasksType, IdsAssumption DEF Init, Types

LEMMA TypesIo ==
  ASSUME Types, NEW c \in io, IoRead(c) \/ IoOpen(c) \/ IoFill(c) \/ IoFail(c)
  PROVE  Types'
<1>1. c \in Ios /\ io \ {c} \subseteq Ios /\ c.ids \subseteq Ids
  BY DEF Types, Ios
<1>2. Landed(c) \subseteq Ids
  BY DEF Types, Landed
<1>3. Read \in Contents
  BY ReadType
<1>4. CASE IoRead(c)
  <2>1. [c EXCEPT !.snap = Read, !.at = "open"] \in Ios
    BY <1>1, <1>3, StagesType
  <2>2. io' \subseteq Ios /\ inFlight' \subseteq Ids
    BY <1>1, <1>2, <1>4, <2>1 DEF IoRead, Types
  <2> QED BY <1>4, <2>2 DEF IoRead, Types, loadVars, ghostVars
<1>5. CASE IoOpen(c)
  <2>1. [c EXCEPT !.at = "fill"] \in Ios
    BY <1>1, <1>3, StagesType
  <2>2. io' \subseteq Ios
    BY <1>1, <1>5, <2>1 DEF IoOpen
  <2> QED BY <1>5, <2>2 DEF IoOpen, Types, schedVars, loadVars, ghostVars
<1>6. CASE IoFill(c)
  <2>1. Changed(c) \in Contents
    BY <1>1, ChangedIs
  <2> QED BY <1>1, <1>2, <1>6, <2>1 DEF IoFill, Types
<1>7. CASE IoFail(c)
  BY <1>1, <1>2, <1>7 DEF IoFail, Types, loadVars, ghostVars
<1> QED BY <1>4, <1>5, <1>6, <1>7

LEMMA TypesCheck ==
  ASSUME Types, Check
  PROVE  Types'
<1>1. now + 1 \in Time \cup {MaxTime + 1}
  BY Numbers DEF Types, Time
<1>2. nextFireAt' \in [Ids -> Time \cup {Unset, MaxTime + 1, Infinity}]
  <2>1. DOMAIN nextFireAt' = Ids /\ nextFireAt' = [i \in Ids |-> nextFireAt'[i]]
    BY DEF Check
  <2>2. ASSUME NEW i \in Ids
        PROVE  nextFireAt'[i] \in Time \cup {Unset, MaxTime + 1, Infinity}
    <3>1. nextFireAt[i] \in Time \cup {Unset, MaxTime + 1, Infinity}
      BY DEF Types
    <3>2. i \in Seen => NextOf(i) \in Time \cup {MaxTime + 1, Infinity}
      BY NextOfType
    <3>3. i \in Due => i \in Once \cup Again
      BY DueIs
    <3> QED BY <1>1, <3>1, <3>2, <3>3, CheckIs
  <2> QED BY <2>1, <2>2
<1>3. fires' \in [Ids -> 0 .. MaxFires]
  BY Numbers DEF Check, Types
<1>4. firedAt' \in [Ids -> Time \cup {Unset}]
  BY DEF Check, Types
<1>5. inFlight' \subseteq Ids
  BY CheckIs, DueIs DEF Types
<1> QED BY <1>2, <1>3, <1>4, <1>5, CheckIs DEF Types

LEMMA TypesStep == Types /\ [Next]_vars => Types'
<1> SUFFICES ASSUME Types, [Next]_vars PROVE Types'
  OBVIOUS
<1>1. CASE Tick
  BY <1>1, Numbers DEF Tick, Types, Time, fileVars, schedVars, loadVars, ghostVars
<1>2. CASE Check
  BY <1>2, TypesCheck
<1>3. CASE IoStep
  BY <1>3, TypesIo DEF IoStep
<1>4. ASSUME NEW why \in toLoad, LoadRead(why) PROVE Types'
  <2>1. [initial |-> why = "initial", snap |-> Read] \in Snaps
    BY ReadType DEF Snaps
  <2> QED BY <1>4, <2>1 DEF LoadRead, Types, fileVars, schedVars, ghostVars
<1>5. ASSUME NEW l \in loads, Load(l) PROVE Types'
  <2>1. nextFireAt' \in [Ids -> Time \cup {Unset, MaxTime + 1, Infinity}]
    BY <1>5 DEF Load, Barred, Types
  <2> QED BY <1>5, <2>1, LoadIs DEF Types
<1>6. ASSUME NEW owner \in BOOLEAN, Start(owner) PROVE Types'
  BY <1>6, Numbers DEF Start, Types, fileVars, ghostVars
<1>7. CASE BecomeOwner
  BY <1>7 DEF BecomeOwner, Types, fileVars, loadVars, ghostVars
<1>8. CASE Crash
  BY <1>8, NoTasksType DEF Crash, Types
<1>9. ASSUME NEW i \in Ids, Create(i) PROVE Types'
  <2>1. Change("create", {i}) \in Ios
    BY ChangeType DEF IoOps
  <2> QED BY <1>9, <2>1 DEF Create, Types, schedVars, loadVars, ghostVars
<1>10. ASSUME NEW i \in Ids, Delete(i) PROVE Types'
  <2>1. Change("delete", {i}) \in Ios
    BY ChangeType DEF IoOps
  <2> QED BY <1>10, <2>1 DEF Delete, Types, schedVars, loadVars
<1>11. CASE UNCHANGED vars
  BY <1>11 DEF vars, fileVars, schedVars, loadVars, ghostVars, Types
<1> QED BY <1>1, <1>2, <1>3, <1>4, <1>5, <1>6, <1>7, <1>8, <1>9, <1>10, <1>11
     DEF Next, LoadStep

LEMMA TypesHold == Spec => []Types
BY TypesInit, TypesStep, PTL DEF Spec

\* The file, the copies of it and the scheduler's maps keep their types
\* (TypeOK), whatever other sessions do and wherever the process dies.
THEOREM TypeCorrect == Spec => []TypeOK
BY TypesHold, TypesSuffice, PTL

-----------------------------------------------------------------------------
(* A task stays in the file until it has fired.                            *)
(*                                                                         *)
(* A change that has read the file writes all it has read but its own      *)
(* tasks, so a task is lost in two ways only.  One is a creation: the      *)
(* changes that were under way do not know the new task, and a creation    *)
(* that reads a truncated file knows no other.  The other is a crash       *)
(* between the truncation and the filling.                                 *)

(* All tasks are in the file from the beginning, and the session has one   *)
(* process.                                                                *)
NoCreation == Early = Ids
OneProcess == MaxStarts <= 1

(* The tasks that nobody has dealt with.                                   *)
Owed == {i \in created \ (notified \cup deleted) : fires[i] = 0}

KeepsOwed(contents) == \A i \in Owed : contents[i] # Gone

FileInv ==
  /\ created = Ids
  /\ up => starts >= 1
  /\ file = Torn => \E c \in io : c.at = "fill"
  /\ file # Torn => KeepsOwed(file)
  /\ \A c \in io : /\ c.op # "create"
                   /\ c.op # "mark" => c.ids \cap Owed = {}
                   /\ c.at # "read" => KeepsOwed(c.snap)

LEMMA FileInit == NoCreation /\ Init => FileInv
<1> SUFFICES ASSUME NoCreation, Init PROVE FileInv
  OBVIOUS
<1>1. PICK f \in [Early -> {0, 1}] :
        file = [i \in Ids |-> IF i \in Early THEN [created |-> f[i], last |-> Unset]
                                             ELSE Gone]
  BY DEF Init
<1>2. \A i \in Ids : file[i] = [created |-> f[i], last |-> Unset] /\ f[i] \in {0, 1}
  BY <1>1 DEF NoCreation
<1>3. \A t \in {0, 1} : [created |-> t, last |-> Unset] \in Entry
  BY Numbers DEF Entry, Time
<1>4. \A i \in Ids : file[i] # Gone
  BY <1>2, <1>3, GoneAssumption
<1>5. file # Torn
  <2>1. \A i \in Ids : file[i] \in Entry
    BY <1>2, <1>3
  <2>2. file = [i \in Ids |-> file[i]]
    BY <1>1
  <2>3. file \in Contents
    BY <2>1, <2>2 DEF Contents
  <2> QED BY <2>3, GoneAssumption
<1> QED BY <1>4, <1>5 DEF Init, FileInv, KeepsOwed, Owed, NoCreation

\* A step that neither touches the file nor makes a task owed, and whose new
\* changes are of tasks that nobody is owed any more.
LEMMA FileStays ==
  ASSUME Types, FileInv, Owed' \subseteq Owed,
         UNCHANGED <<file, created>>, up' => starts' >= 1,
         io \subseteq io',
         \A c \in io' \ io : /\ c.at = "read" /\ c.op # "create"
                             /\ c.op # "mark" => c.ids \cap Owed' = {}
  PROVE  FileInv'
<1>1. file' = Torn => \E c \in io' : c.at = "fill"
  BY DEF FileInv
<1>2. file' # Torn => \A i \in Owed' : file'[i] # Gone
  BY DEF FileInv, KeepsOwed
<1>3. ASSUME NEW c \in io'
      PROVE  /\ c.op # "create"
             /\ c.op # "mark" => c.ids \cap Owed' = {}
             /\ c.at # "read" => \A i \in Owed' : c.snap[i] # Gone
  BY <1>3 DEF FileInv, KeepsOwed
<1> QED BY <1>1, <1>2, <1>3 DEF FileInv, KeepsOwed

\* The tasks owed stay as they are.
LEMMA OwedStays ==
  ASSUME UNCHANGED <<created, notified, deleted, fires>>
  PROVE  Owed' = Owed
BY DEF Owed

LEMMA FileIo ==
  ASSUME Types, FileInv, NEW c \in io, IoRead(c) \/ IoOpen(c) \/ IoFill(c) \/ IoFail(c)
  PROVE  FileInv'
<1>1. /\ c \in Ios /\ c.op # "create" /\ (c.op # "mark" => c.ids \cap Owed = {})
      /\ c.at # "read" => KeepsOwed(c.snap)
  BY DEF Types, FileInv
<1>2. Owed \subseteq Ids
  BY DEF FileInv, Owed
<1>3. CASE IoRead(c) /\ Matters(c, Read)
  <2> DEFINE d == [c EXCEPT !.snap = Read, !.at = "open"]
  <2>1. d.op = c.op /\ d.ids = c.ids /\ d.at = "open" /\ d.snap = Read
    BY <1>1, StagesType, ReadType
  <2>2. /\ c.at = "read" /\ io' = (io \ {c}) \cup {d}
        /\ UNCHANGED <<file, starts, up, created, notified, deleted, fires>>
    BY <1>3 DEF IoRead, ghostVars
  <2>3. file # Torn
    BY <1>1, <1>3, ReadType DEF Matters, In
  <2>4. KeepsOwed(d.snap)
    BY <2>1, <2>3, ReadType DEF FileInv
  <2>5. Owed' = Owed
    BY <2>2, OwedStays
  <2> HIDE DEF d
  <2>6. ASSUME NEW e \in io'
        PROVE  /\ e.op # "create" /\ (e.op # "mark" => e.ids \cap Owed = {})
               /\ e.at # "read" => \A i \in Owed : e.snap[i] # Gone
    BY <1>1, <2>1, <2>2, <2>4 DEF FileInv, KeepsOwed
  <2> QED BY <2>2, <2>3, <2>5, <2>6 DEF FileInv, KeepsOwed
<1>4. CASE (IoRead(c) /\ ~ Matters(c, Read)) \/ IoFail(c)
  <2>1. /\ io' = io \ {c} /\ c.at # "fill"
        /\ UNCHANGED <<file, starts, up, created, notified, deleted, fires>>
    BY <1>4 DEF IoRead, IoFail, ghostVars
  <2>2. Owed' = Owed
    BY <2>1, OwedStays
  <2> QED BY <2>1, <2>2 DEF FileInv, KeepsOwed
<1>5. CASE IoOpen(c)
  <2> DEFINE d == [c EXCEPT !.at = "fill"]
  <2>1. d.op = c.op /\ d.ids = c.ids /\ d.at = "fill" /\ d.snap = c.snap
    BY <1>1, StagesType, ReadType
  <2>2. /\ c.at = "open" /\ io' = (io \ {c}) \cup {d} /\ file' = Torn
        /\ UNCHANGED <<starts, up, created, notified, deleted, fires>>
    BY <1>5 DEF IoOpen, ghostVars, schedVars
  <2>3. Owed' = Owed
    BY <2>2, OwedStays
  <2> HIDE DEF d
  <2>4. ASSUME NEW e \in io'
        PROVE  /\ e.op # "create" /\ (e.op # "mark" => e.ids \cap Owed = {})
               /\ e.at # "read" => \A i \in Owed : e.snap[i] # Gone
    BY <1>1, <2>1, <2>2 DEF FileInv, KeepsOwed
  <2> QED BY <2>1, <2>2, <2>3, <2>4 DEF FileInv, KeepsOwed
<1>6. CASE IoFill(c)
  <2>1. /\ c.at = "fill" /\ io' = io \ {c} /\ file' = Changed(c)
        /\ UNCHANGED <<starts, up, created, notified, deleted, fires>>
    BY <1>1, <1>6 DEF IoFill
  <2>2. Owed' = Owed
    BY <2>1, OwedStays
  <2>3. file' # Torn /\ \A i \in Owed : file'[i] # Gone
    BY <1>1, <1>2, <2>1, ChangedIs DEF KeepsOwed
  <2> QED BY <2>1, <2>2, <2>3 DEF FileInv, KeepsOwed
<1> QED BY <1>3, <1>4, <1>5, <1>6

LEMMA FileStep == OneProcess /\ Types /\ FileInv /\ [Next]_vars => FileInv'
<1> SUFFICES ASSUME OneProcess, Types, FileInv, [Next]_vars PROVE FileInv'
  OBVIOUS
<1>1. up => starts >= 1
  BY DEF FileInv
<1>2. CASE UNCHANGED <<file, io, starts, up, ghostVars>>
  BY <1>1, <1>2, OwedStays, FileStays DEF ghostVars
<1>3. CASE Check
  <2>1. /\ UNCHANGED <<file, starts, up, created, notified, deleted>> /\ io \subseteq io'
        /\ \A i \in Ids : fires'[i] = IF i \in Due /\ fires[i] < MaxFires
                                      THEN fires[i] + 1 ELSE fires[i]
    BY <1>3, CheckIs
  <2>2. Owed' \subseteq Owed /\ Owed' \cap Due = {}
    <3>1. \A i \in Ids : fires[i] \in 0 .. MaxFires /\ MaxFires \in Nat \ {0}
      BY Numbers DEF Types
    <3>2. created' \subseteq Ids
      BY <2>1 DEF Types
    <3> QED BY <2>1, <3>1, <3>2 DEF Owed
  <2>3. \A c \in io' \ io : c.at = "read" /\ c.op # "create"
                            /\ (c.op # "mark" => c.ids \cap Owed' = {})
    BY <1>3, <2>2, CheckIs, DueIs
  <2> QED BY <1>1, <2>1, <2>2, <2>3, FileStays
<1>4. CASE IoStep
  BY <1>4, FileIo DEF IoStep
<1>5. ASSUME NEW why \in toLoad, LoadRead(why) PROVE FileInv'
  BY <1>2, <1>5 DEF LoadRead, fileVars, schedVars
<1>6. ASSUME NEW l \in loads, Load(l) PROVE FileInv'
  <2>1. /\ UNCHANGED <<file, starts, up, created, deleted, fires>> /\ io \subseteq io'
        /\ notified' = notified \cup Found(l)
        /\ \A c \in io' \ io : c.at = "read" /\ c.op = "missed" /\ c.ids = Found(l)
    BY <1>6, LoadIs
  <2>2. Owed' \subseteq Owed /\ Owed' \cap Found(l) = {}
    BY <2>1 DEF Owed
  <2> QED BY <1>1, <2>1, <2>2, FileStays
<1>7. ASSUME NEW owner \in BOOLEAN, Start(owner) PROVE FileInv'
  <2>1. UNCHANGED <<file, io, created, notified, deleted, fires>> /\ starts' >= 1
    BY <1>7 DEF Start, fileVars, ghostVars, Types
  <2> QED BY <2>1, OwedStays, FileStays
<1>8. CASE BecomeOwner
  BY <1>2, <1>8 DEF BecomeOwner, fileVars
<1>9. CASE Crash
  BY <1>1, <1>9, Numbers DEF Crash, OneProcess, Types
<1>10. ASSUME NEW i \in Ids, Create(i) PROVE FALSE
  BY <1>10 DEF Create, FileInv
<1>11. ASSUME NEW i \in Ids, Delete(i) PROVE FileInv'
  <2>1. /\ UNCHANGED <<file, starts, up, created, notified, fires>>
        /\ deleted' = deleted \cup {i} /\ io' = io \cup {Change("delete", {i})}
    BY <1>11 DEF Delete, schedVars
  <2>2. /\ Change("delete", {i}).op = "delete" /\ Change("delete", {i}).ids = {i}
        /\ Change("delete", {i}).at = "read"
    BY ChangeType DEF IoOps
  <2>3. Owed' \subseteq Owed /\ i \notin Owed'
    BY <2>1 DEF Owed
  <2> QED BY <1>1, <2>1, <2>2, <2>3, FileStays
<1>12. CASE Tick
  BY <1>2, <1>12 DEF Tick, fileVars, schedVars
<1>13. CASE UNCHANGED vars
  BY <1>2, <1>13 DEF vars, fileVars, schedVars
<1> QED BY <1>3, <1>4, <1>5, <1>6, <1>7, <1>8, <1>9, <1>10, <1>11, <1>12, <1>13
     DEF Next, LoadStep

\* No change of the file loses what another has put there (FileSound): when no
\* change is under way, a task that has not fired, was not surfaced as missed
\* and was not deleted is in the file.  The changes may overlap in any way and
\* fail, reloads and checks may come in between; no task is created meanwhile
\* and the process does not die.
THEOREM FileIsSound == NoCreation /\ OneProcess => (Spec => []FileSound)
<1> SUFFICES ASSUME NoCreation, OneProcess PROVE Spec => []FileSound
  OBVIOUS
<1>1. Init => FileInv
  BY FileInit
<1>2. Types /\ FileInv /\ [Next]_vars => FileInv'
  BY FileStep
<1>3. Types /\ FileInv => FileSound
  <2> SUFFICES ASSUME Types, FileInv, io = {} PROVE \A i \in Owed : i \in In(Read)
    BY TypesSuffice DEF FileSound, KeptUntilFired, Owed
  <2>1. file # Torn /\ \A i \in Owed : file[i] # Gone /\ i \in Ids
    BY DEF FileInv, KeepsOwed, Owed
  <2> QED BY <2>1, ReadType DEF In
<1> QED BY <1>1, <1>2, <1>3, TypesHold, PTL DEF Spec

-----------------------------------------------------------------------------
(* The session's copy of the file is up to date when a check looks at it,  *)
(* if reloads are prompt: when no event of the watcher is left and no      *)
(* reload is under way, the copy is what the file says, but for a change   *)
(* that has truncated the file and not yet filled it.                      *)

Filling == \E c \in io : c.at = "fill"

UpToDate ==
  /\ \A l, m \in loads : l = m
  /\ ~ up => toLoad = {} /\ loads = {}
  /\ up /\ toLoad = {} /\ ~ Filling =>
       /\ loads = {} => tasks = Read
       /\ \A l \in loads : l.snap = Read

LEMMA UpToDateInit == Init => UpToDate
BY DEF Init, UpToDate

\* A step that leaves the file and the copies alone and fills nothing.
LEMMA UpToDateStays ==
  ASSUME UpToDate, UNCHANGED <<file, up, tasks, toLoad, loads>>,
         \A c \in io : c.at = "fill" => c \in io'
  PROVE  UpToDate'
<1>1. Filling => Filling'
  BY DEF Filling
<1>2. Read' = Read
  BY DEF Read, NoTasks
<1> QED BY <1>1, <1>2 DEF UpToDate

LEMMA UpToDateStep == PromptReloads /\ Types /\ UpToDate /\ [Next]_vars => UpToDate'
<1> SUFFICES ASSUME PromptReloads, Types, UpToDate, [Next]_vars PROVE UpToDate'
  OBVIOUS
<1>1. CASE UNCHANGED <<file, io, up, tasks, toLoad, loads>>
  BY <1>1, UpToDateStays
<1>2. CASE Check
  BY <1>2, CheckIs, UpToDateStays
<1>3. ASSUME NEW c \in io, IoRead(c) \/ IoFail(c) PROVE UpToDate'
  <2>1. /\ UNCHANGED <<file, up, tasks, toLoad, loads>> /\ c.at # "fill"
        /\ \A e \in io : e # c => e \in io'
    BY <1>3 DEF IoRead, IoFail, loadVars
  <2> QED BY <2>1, UpToDateStays
<1>4. ASSUME NEW c \in io, IoOpen(c) PROVE UpToDate'
  <2>1. /\ UNCHANGED <<up, toLoad, loads>> /\ [c EXCEPT !.at = "fill"] \in io'
    BY <1>4 DEF IoOpen, loadVars, schedVars
  <2>2. c \in Ios
    BY DEF Types
  <2>3. Filling'
    BY <2>1, <2>2, StagesType, NoTasksType DEF Filling
  <2> QED BY <2>1, <2>3 DEF UpToDate
<1>5. ASSUME NEW c \in io, IoFill(c) PROVE UpToDate'
  <2>1. /\ UNCHANGED <<up, loads>>
        /\ up => toLoad' # {}
        /\ ~ up => toLoad' = toLoad
    BY <1>5 DEF IoFill
  <2>2. \A l, m \in loads' : l = m
    BY <2>1 DEF UpToDate
  <2>3. ~ up' => toLoad' = {} /\ loads' = {}
    BY <2>1 DEF UpToDate
  <2>4. ~ (up' /\ toLoad' = {})
    BY <2>1
  <2> QED BY <2>2, <2>3, <2>4 DEF UpToDate
<1>6. ASSUME NEW why \in toLoad, LoadRead(why) PROVE UpToDate'
  <2>1. /\ UNCHANGED <<file, io, up, tasks>> /\ loads = {}
        /\ loads' = {[initial |-> why = "initial", snap |-> Read]}
    BY <1>6 DEF LoadRead, fileVars, schedVars
  <2>2. Read' = Read /\ up /\ up'
    BY <1>6, <2>1 DEF Read, NoTasks, UpToDate
  <2>3. \A l \in loads' : l.snap = Read'
    BY <2>1, <2>2
  <2>4. loads' # {} /\ \A l, m \in loads' : l = m
    BY <2>1
  <2> QED BY <2>2, <2>3, <2>4 DEF UpToDate
<1>7. ASSUME NEW l \in loads, Load(l) PROVE UpToDate'
  <2>1. /\ UNCHANGED <<file, up, toLoad>> /\ tasks' = l.snap /\ io \subseteq io'
        /\ loads' = {}
    BY <1>7, LoadIs DEF UpToDate
  <2>2. Read' = Read /\ (Filling => Filling')
    BY <2>1 DEF Read, NoTasks, Filling
  <2> QED BY <2>1, <2>2 DEF UpToDate
<1>8. ASSUME NEW owner \in BOOLEAN, Start(owner) PROVE UpToDate'
  BY <1>8 DEF Start, UpToDate
<1>9. CASE BecomeOwner
  BY <1>1, <1>9 DEF BecomeOwner, fileVars, loadVars
<1>10. CASE Crash
  BY <1>10 DEF Crash, UpToDate
<1>11. ASSUME NEW i \in Ids, Create(i) \/ Delete(i) PROVE UpToDate'
  BY <1>11, UpToDateStays DEF Create, Delete, schedVars, loadVars
<1>12. CASE Tick
  BY <1>1, <1>12 DEF Tick, fileVars, schedVars, loadVars
<1>13. CASE UNCHANGED vars
  BY <1>1, <1>13 DEF vars, fileVars, schedVars, loadVars
<1> QED BY <1>2, <1>3, <1>4, <1>5, <1>6, <1>7, <1>8, <1>9, <1>10, <1>11, <1>12, <1>13
     DEF Next, LoadStep, IoStep

-----------------------------------------------------------------------------
(* All that the file and the copies of it know of a task.                  *)

Copies == {Read, tasks} \cup {c.snap : c \in io} \cup {l.snap : l \in loads}

\* Where what the file and the copies say in the next state comes from.
LEMMA SourcesGrow ==
  ASSUME Types, [Next]_vars
  PROVE  /\ Read' \in {Read, NoTasks} \/ \E c \in io : IoFill(c) /\ Read' = Changed(c)
         /\ tasks' \in {tasks, NoTasks} \/ \E l \in loads : tasks' = l.snap
         /\ \A l \in loads' : l \in loads \/ l.snap = Read
         /\ \A c \in io' : c.snap \in {Read, NoTasks} \/ \E d \in io : c.snap = d.snap
<1>1. Read' = IF file' = Torn THEN NoTasks ELSE file'
  BY DEF Read, NoTasks
<1>2. UNCHANGED file => Read' = Read
  BY <1>1 DEF Read
<1> DEFINE ReadFrom == Read' \in {Read, NoTasks} \/ \E c \in io : IoFill(c) /\ Read' = Changed(c)
           TasksFrom == tasks' \in {tasks, NoTasks} \/ \E l \in loads : tasks' = l.snap
           LoadsFrom == \A l \in loads' : l \in loads \/ l.snap = Read
           IoFrom == \A c \in io' : c.snap \in {Read, NoTasks} \/ \E d \in io : c.snap = d.snap
           From == ReadFrom /\ TasksFrom /\ LoadsFrom /\ IoFrom
<1>3. SUFFICES From
  OBVIOUS
<1>4. CASE UNCHANGED <<file, tasks, io, loads>>
  BY <1>2, <1>4
<1>5. CASE Check
  BY <1>2, <1>5, CheckIs
<1>6. ASSUME NEW c \in io, IoRead(c) PROVE From
  <2>1. UNCHANGED <<file, tasks, loads>>
    BY <1>6 DEF IoRead, loadVars
  <2>2. c \in Ios
    BY DEF Types
  <2>3. [c EXCEPT !.snap = Read, !.at = "open"].snap = Read
    BY <2>2, StagesType, ReadType
  <2>4. io' \subseteq io \cup {[c EXCEPT !.snap = Read, !.at = "open"]}
    BY <1>6 DEF IoRead
  <2> QED BY <1>2, <2>1, <2>3, <2>4
<1>7. ASSUME NEW c \in io, IoOpen(c) PROVE From
  <2>1. UNCHANGED <<tasks, loads>> /\ file' = Torn
    BY <1>7 DEF IoOpen, loadVars, schedVars
  <2>2. c \in Ios /\ [c EXCEPT !.at = "fill"].snap = c.snap
    BY StagesType, NoTasksType DEF Types
  <2>3. io' \subseteq io \cup {[c EXCEPT !.at = "fill"]}
    BY <1>7 DEF IoOpen
  <2> QED BY <1>1, <2>1, <2>2, <2>3
<1>8. ASSUME NEW c \in io, IoFill(c) PROVE From
  <2>1. c \in Ios
    BY DEF Types
  <2>2. UNCHANGED <<tasks, loads>> /\ Read' = Changed(c) /\ io' \subseteq io
    BY <1>1, <1>8, <2>1, ChangedIs DEF IoFill
  <2> QED BY <1>8, <2>2
<1>9. ASSUME NEW c \in io, IoFail(c) PROVE From
  <2>1. UNCHANGED <<file, tasks, loads>> /\ io' \subseteq io
    BY <1>9 DEF IoFail, loadVars
  <2> QED BY <1>2, <2>1
<1>10. ASSUME NEW why \in toLoad, LoadRead(why) PROVE From
  <2>1. /\ UNCHANGED <<file, io, tasks>>
        /\ \A l \in loads' : l \in loads \/ l.snap = Read
    BY <1>10 DEF LoadRead, fileVars, schedVars
  <2> QED BY <1>2, <2>1
<1>11. ASSUME NEW l \in loads, Load(l) PROVE From
  <2>1. /\ UNCHANGED file /\ tasks' = l.snap /\ loads' \subseteq loads
        /\ \A c \in io' : c \in io \/ c.snap = NoTasks
    BY <1>11, LoadIs
  <2> QED BY <1>2, <2>1
<1>12. CASE Crash
  BY <1>2, <1>12 DEF Crash
<1>13. ASSUME NEW i \in Ids, Create(i) \/ Delete(i) PROVE From
  <2>1. /\ UNCHANGED <<file, tasks, loads>>
        /\ \A c \in io' : c \in io \/ c.snap = NoTasks
    BY <1>13, ChangeType DEF Create, Delete, schedVars, loadVars, IoOps
  <2> QED BY <1>2, <2>1
<1>14. CASE Tick \/ BecomeOwner \/ (\E owner \in BOOLEAN : Start(owner)) \/ UNCHANGED vars
  <2>1. UNCHANGED <<file, tasks, io, loads>>
    BY <1>14 DEF Tick, BecomeOwner, Start, vars, fileVars, schedVars, loadVars
  <2> QED BY <1>4, <2>1
<1> HIDE DEF From
<1> QED BY <1>5, <1>6, <1>7, <1>8, <1>9, <1>10, <1>11, <1>12, <1>13, <1>14
     DEF Next, IoStep, LoadStep

LEMMA CopiesGrow ==
  ASSUME Types, [Next]_vars
  PROVE  \A f \in Copies' :
           \/ f \in Copies \cup {NoTasks}
           \/ \E c \in io : IoFill(c) /\ f = Changed(c)
<1>1. Read \in Copies /\ tasks \in Copies
      /\ (\A c \in io : c.snap \in Copies) /\ (\A l \in loads : l.snap \in Copies)
  BY DEF Copies
<1>2. ASSUME NEW f \in Copies'
      PROVE  \/ f = Read' \/ f = tasks'
             \/ \E c \in io' : f = c.snap
             \/ \E l \in loads' : f = l.snap
  BY DEF Copies
<1> QED BY <1>1, <1>2, SourcesGrow

LEMMA CopiesType == Types => Copies \subseteq Contents
BY ReadType DEF Types, Copies, Ios, Snaps

\* The clock does not go back.
LEMMA NowGrows == Types /\ [Next]_vars => now' \in Time /\ now' >= now /\ now \in Time
<1> SUFFICES ASSUME Types, [Next]_vars PROVE now' >= now
  BY TypesStep DEF Types
<1>1. now \in Nat
  BY DEF Types, Time
<1>2. CASE Tick
  BY <1>1, <1>2 DEF Tick
<1>3. CASE ~ Tick
  <2>1. now' = now
    BY <1>3 DEF Next, Check, IoStep, IoRead, IoOpen, IoFill, IoFail, LoadStep, LoadRead,
                Load, Start, BecomeOwner, Crash, Create, Delete, vars
  <2> QED BY <1>1, <2>1
<1> QED BY <1>2, <1>3

(* A task is created once: what is known of it anywhere is of a task that  *)
(* has been created, and its creation is over.                             *)
Creations ==
  /\ \A f \in Copies : In(f) \subseteq created
  /\ \A c \in io : c.op = "create" => c.ids \cap created = {}
  /\ \A c, d \in io : c.op = "create" /\ d.op = "create" => c = d

LEMMA CreationsInit == Init => Creations
<1> SUFFICES ASSUME Init PROVE Creations
  OBVIOUS
<1>1. io = {} /\ tasks = NoTasks /\ loads = {} /\ created = Early
  BY DEF Init
<1>2. Copies = {Read, NoTasks}
  BY <1>1 DEF Copies
<1>3. \A i \in Ids : i \in Early \/ file[i] = Gone
  BY DEF Init
<1>4. \A f \in Copies : In(f) \subseteq Early
  BY <1>2, <1>3, NoTasksType DEF Read, In
<1> QED BY <1>1, <1>4 DEF Creations

\* What a filling writes of a task that is not created by it.
LEMMA FillingIs ==
  ASSUME Types, NEW c \in io, NEW i \in Ids, i \notin c.ids \/ c.op # "create",
         Changed(c)[i] # Gone
  PROVE  c.snap[i] # Gone /\ Changed(c)[i].created = c.snap[i].created
<1>1. c \in Ios
  BY DEF Types
<1> QED BY <1>1, ChangedIs

LEMMA CreationsStep == Types /\ Creations /\ [Next]_vars => Creations'
<1> SUFFICES ASSUME Types, Creations, [Next]_vars PROVE Creations'
  OBVIOUS
<1> DEFINE Known == \A f \in Copies' : In(f) \subseteq created'
           Opened == /\ \A c \in io' : c.op = "create" => c.ids \cap created' = {}
                     /\ \A c, d \in io' : c.op = "create" /\ d.op = "create" => c = d
<1>1. /\ \A c \in io : c.op = "create" => c.ids \cap created = {}
      /\ \A c, d \in io : c.op = "create" /\ d.op = "create" => c = d
  BY DEF Creations
<1>2. ASSUME created \subseteq created',
             \A c \in io : IoFill(c) /\ c.op = "create" => c.ids \subseteq created'
      PROVE  Known
  <2>1. In(NoTasks) = {}
    BY NoTasksType DEF In
  <2>2. ASSUME NEW c \in io, IoFill(c), NEW i \in Ids, Changed(c)[i] # Gone
        PROVE  i \in created'
    <3>1. CASE i \in c.ids /\ c.op = "create"
      BY <1>2, <2>2, <3>1
    <3>2. CASE i \notin c.ids \/ c.op # "create"
      <4>1. c.snap[i] # Gone /\ c.snap \in Copies
        BY <2>2, <3>2, FillingIs DEF Copies
      <4> QED BY <1>2, <4>1 DEF Creations, In
    <3> QED BY <3>1, <3>2
  <2>3. ASSUME NEW c \in io, IoFill(c) PROVE In(Changed(c)) \subseteq created'
    BY <2>2, <2>3 DEF In
  <2>4. \A f \in Copies : In(f) \subseteq created'
    BY <1>2 DEF Creations
  <2> QED BY <2>1, <2>3, <2>4, CopiesGrow
<1>3. ASSUME UNCHANGED created, \A c \in io' : c.op = "create" => c \in io
      PROVE  Opened
  BY <1>1, <1>3
<1>4. ASSUME NEW c \in io, IoFill(c) PROVE Creations'
  <2>1. /\ io' = io \ {c}
        /\ created' = IF c.op = "create" THEN created \cup c.ids ELSE created
    BY <1>4 DEF IoFill
  <2>2. Opened
    <3>1. CASE c.op = "create"
      BY <1>1, <2>1, <3>1
    <3>2. CASE c.op # "create"
      BY <1>3, <2>1, <3>2
    <3> QED BY <3>1, <3>2
  <2>3. Known
    <3>1. \A d \in io : IoFill(d) /\ d.op = "create" => d.ids \subseteq created'
      BY DEF IoFill
    <3> QED BY <1>2, <2>1, <3>1
  <2> QED BY <2>2, <2>3 DEF Creations
<1>5. ASSUME UNCHANGED created, Opened PROVE Creations'
  <2>1. \A c \in io : IoFill(c) /\ c.op = "create" => c.ids \subseteq created'
    BY DEF IoFill
  <2>2. Known
    BY <1>2, <1>5, <2>1
  <2> QED BY <1>5, <2>2 DEF Creations
<1> HIDE DEF Known, Opened
<1>6. CASE Check
  BY <1>3, <1>5, <1>6, CheckIs
<1>7. ASSUME NEW c \in io, NEW d \in Ios, d.op = c.op, d.ids = c.ids,
             io' = (io \ {c}) \cup {d}, UNCHANGED created
      PROVE  Creations'
  <2>1. Opened
    BY <1>1, <1>7 DEF Opened
  <2> QED BY <1>5, <1>7, <2>1
<1>8. ASSUME NEW c \in io, IoRead(c) \/ IoOpen(c) \/ IoFail(c) PROVE Creations'
  <2>1. c \in Ios /\ Read \in Contents
    BY ReadType DEF Types
  <2>2. CASE IoRead(c) /\ Matters(c, Read)
    <3>1. io' = (io \ {c}) \cup {[c EXCEPT !.snap = Read, !.at = "open"]} /\ UNCHANGED created
      BY <2>2 DEF IoRead, ghostVars
    <3> QED BY <1>7, <2>1, <3>1, StagesType
  <2>3. CASE IoOpen(c)
    <3>1. io' = (io \ {c}) \cup {[c EXCEPT !.at = "fill"]} /\ UNCHANGED created
      BY <2>3 DEF IoOpen, ghostVars
    <3> QED BY <1>7, <2>1, <3>1, StagesType
  <2>4. CASE (IoRead(c) /\ ~ Matters(c, Read)) \/ IoFail(c)
    <3>1. io' = io \ {c} /\ UNCHANGED created
      BY <2>4 DEF IoRead, IoFail, ghostVars
    <3> QED BY <1>3, <1>5, <3>1
  <2> QED BY <1>8, <2>2, <2>3, <2>4
<1>9. CASE LoadStep
  <2>1. ASSUME NEW why \in toLoad, LoadRead(why) PROVE Creations'
    BY <1>3, <1>5, <2>1 DEF LoadRead, fileVars, ghostVars
  <2>2. ASSUME NEW l \in loads, Load(l) PROVE Creations'
    BY <1>3, <1>5, <2>2, LoadIs
  <2> QED BY <1>9, <2>1, <2>2 DEF LoadStep
<1>10. CASE Crash
  BY <1>3, <1>5, <1>10 DEF Crash
<1>11. ASSUME NEW i \in Ids, Create(i) PROVE Creations'
  <2>1. /\ io' = io \cup {Change("create", {i})} /\ UNCHANGED created
        /\ i \notin created /\ \A c \in io : c.op # "create"
    BY <1>11 DEF Create, ghostVars
  <2>2. Change("create", {i}).ids = {i}
    BY ChangeType DEF IoOps
  <2>3. Opened
    BY <2>1, <2>2 DEF Opened
  <2> QED BY <1>5, <2>1, <2>3
<1>12. ASSUME NEW i \in Ids, Delete(i) PROVE Creations'
  <2>1. io' = io \cup {Change("delete", {i})} /\ UNCHANGED created
    BY <1>12 DEF Delete
  <2>2. Change("delete", {i}).op = "delete"
    BY ChangeType DEF IoOps
  <2> QED BY <1>3, <1>5, <2>1, <2>2
<1>13. CASE Tick \/ BecomeOwner \/ (\E owner \in BOOLEAN : Start(owner)) \/ UNCHANGED vars
  <2>1. UNCHANGED <<io, created>>
    BY <1>13 DEF Tick, BecomeOwner, Start, vars, fileVars, ghostVars
  <2> QED BY <1>3, <1>5, <2>1
<1> QED BY <1>4, <1>6, <1>8, <1>9, <1>10, <1>11, <1>12, <1>13 DEF Next, IoStep

-----------------------------------------------------------------------------
(* A recurring task fires once a period.                                   *)
(*                                                                         *)
(* The next time of a task that has fired is later than its last fire as   *)
(* long as the checks see the task.  A check that does not see it forgets  *)
(* the time, as does the fire of a task that is too old; but if the checks *)
(* look at a copy that is up to date, with no change of the file under     *)
(* way, then a task they do not see is gone for ever, and one that is too  *)
(* old stays so.                                                           *)

(* All that is known of the task is that it is gone or too old.            *)
Over(i) == \A f \in Copies : f[i] = Gone \/ (MaxAge # 0 /\ now - f[i].created >= MaxAge)

LEMMA OverStays ==
  ASSUME Types, Creations, [Next]_vars, NEW i \in created, Over(i)
  PROVE  Over(i)'
<1>1. i \in Ids /\ now' >= now /\ now \in Int /\ now' \in Int /\ MaxAge \in Nat
  BY NowGrows, Numbers DEF Types, Time
<1>2. ASSUME NEW f \in Copies
      PROVE  f[i] = Gone \/ (MaxAge # 0 /\ now' - f[i].created >= MaxAge)
  <2>1. CASE f[i] # Gone
    <3>1. f[i] \in Entry
      BY <1>1, <2>1, CopiesType DEF Contents
    <3>2. f[i].created \in Int
      BY <3>1, EntryType, Numbers DEF Time
    <3>3. MaxAge # 0 /\ now - f[i].created >= MaxAge
      BY <2>1 DEF Over
    <3> QED BY <1>1, <3>2, <3>3
  <2> QED BY <2>1
<1>3. ASSUME NEW c \in io, IoFill(c)
      PROVE  \/ Changed(c)[i] = Gone
             \/ MaxAge # 0 /\ now' - Changed(c)[i].created >= MaxAge
  <2>1. i \notin c.ids \/ c.op # "create"
    BY DEF Creations
  <2>2. c.snap \in Copies
    BY DEF Copies
  <2>3. CASE Changed(c)[i] # Gone
    <3>1. c.snap[i] # Gone /\ Changed(c)[i].created = c.snap[i].created
      BY <1>1, <2>1, <2>3, FillingIs
    <3> QED BY <1>2, <2>2, <3>1
  <2> QED BY <2>3
<1>4. NoTasks[i] = Gone
  BY <1>1, NoTasksType
<1>5. \A f \in Copies' : f[i] = Gone \/ (MaxAge # 0 /\ now' - f[i].created >= MaxAge)
  BY <1>2, <1>3, <1>4, CopiesGrow
<1> QED BY <1>5 DEF Over

Prompt == PromptWrites /\ PromptReloads

\* What a check sees of the file when nothing is under way.
LEMMA QuickIs ==
  ASSUME Prompt, Types, UpToDate, Check
  PROVE  /\ io = {} /\ toLoad = {} /\ loads = {} /\ tasks = Read
         /\ \A f \in Copies' : f \in {tasks, NoTasks}
<1>1. io = {} /\ toLoad = {} /\ loads = {}
  BY DEF Check, Quick, Prompt
<1>2. tasks = Read
  BY <1>1, CheckIs DEF UpToDate, Filling
<1>3. UNCHANGED <<file, tasks, loads>> /\ \A c \in io' : c.snap = NoTasks
  BY <1>1, CheckIs
<1>4. Read' = Read
  BY <1>3 DEF Read, NoTasks
<1> QED BY <1>1, <1>2, <1>3, <1>4 DEF Copies

Period(i) ==
  firedAt[i] # Unset =>
    /\ up /\ isOwner /\ i \in created
    /\ firedAt[i] <= now
    /\ nextFireAt[i] > firedAt[i] \/ Over(i)

Periods == \A i \in Recurring : Period(i)

\* A recurring task that a check is due to fire has fired before, if at all, in
\* an earlier period, unless it is too old.
LEMMA DueIsLater ==
  ASSUME Types, Periods, NEW i \in Recurring, i \in Due, ~ Aged(i)
  PROVE  firedAt[i] < now
<1>1. /\ i \in Seen /\ now >= NextOf(i) /\ now \in Nat
      /\ firedAt[i] \in Time \cup {Unset}
      /\ nextFireAt[i] \in Time \cup {Unset, MaxTime + 1, Infinity}
  BY DueIs DEF Types, Time
<1>2. CASE firedAt[i] = Unset
  BY <1>1, <1>2 DEF Unset
<1>3. CASE firedAt[i] # Unset /\ Over(i)
  <2>1. tasks[i] # Gone /\ tasks \in Copies
    BY <1>1, NextOfType DEF Copies
  <2> QED BY <1>3, <2>1 DEF Over, Aged
<1>4. CASE firedAt[i] # Unset /\ nextFireAt[i] > firedAt[i]
  <2>1. nextFireAt[i] # Unset
    BY <1>1, <1>4, Numbers DEF Unset, Time
  <2>2. NextOf(i) = nextFireAt[i]
    BY <1>1, <2>1, NextOfType
  <2> QED BY <1>1, <1>4, <2>1, <2>2, Numbers DEF Time, Unset, Infinity
<1> QED BY <1>2, <1>3, <1>4 DEF Periods, Period

LEMMA PeriodsCheck ==
  ASSUME Prompt, Types, UpToDate, Creations, Periods, Check, [Next]_vars
  PROVE  Periods'
<1> SUFFICES ASSUME NEW i \in Recurring, firedAt'[i] # Unset
             PROVE  /\ up' /\ isOwner' /\ i \in created'
                    /\ firedAt'[i] <= now'
                    /\ nextFireAt'[i] > firedAt'[i] \/ Over(i)'
  BY DEF Periods, Period
<1>1. /\ i \in Ids /\ now \in Time /\ Time \subseteq Int
      /\ firedAt[i] \in Time \cup {Unset}
      /\ UNCHANGED <<now, up, isOwner, created, tasks>> /\ up
  BY IdsAssumption, Numbers, CheckIs DEF Types, Time
<1>2. \A f \in Copies' : f[i] = tasks[i] \/ f[i] = Gone
  BY <1>1, QuickIs, NoTasksType
<1>3. tasks[i] # Gone => i \in created
  BY <1>1 DEF Creations, Copies, In
<1>4. Seen # {} => isOwner
  BY DEF Seen
<1>5. CASE i \in Again
  <2>1. i \in Due /\ i \in Seen /\ i \in Ids
    BY <1>5, DueIs
  <2>2. nextFireAt'[i] = now + 1 /\ firedAt'[i] = now /\ tasks[i] # Gone
    BY <1>1, <1>5, <2>1, CheckIs, NextOfType
  <2> QED BY <1>1, <1>3, <1>4, <2>1, <2>2
<1>6. CASE i \in Once
  <2>1. i \in Due /\ i \in Seen /\ Aged(i)
    BY <1>6, DueIs
  <2>2. firedAt'[i] = now /\ tasks[i] # Gone
    BY <1>1, <2>1, CheckIs, NextOfType
  <2>3. Over(i)'
    BY <1>1, <1>2, <2>1 DEF Over, Aged
  <2> QED BY <1>1, <1>3, <1>4, <2>1, <2>2, <2>3
<1>7. CASE i \notin Due
  <2>1. firedAt'[i] = firedAt[i]
    BY <1>1, <1>7, CheckIs
  <2>2. /\ isOwner /\ i \in created /\ firedAt[i] <= now
        /\ nextFireAt[i] > firedAt[i] \/ Over(i)
    BY <2>1 DEF Periods, Period
  <2>3. CASE Over(i)
    BY <1>1, <2>1, <2>2, <2>3, OverStays
  <2>4. CASE i \notin Seen
    <3>1. tasks[i] = Gone
      BY <1>1, <2>2, <2>4 DEF Seen, In
    <3>2. Over(i)'
      BY <1>2, <3>1 DEF Over
    <3> QED BY <1>1, <2>1, <2>2, <3>2
  <2>5. CASE i \in Seen /\ nextFireAt[i] > firedAt[i]
    <3>1. nextFireAt[i] # Unset
      BY <1>1, <2>1, <2>5, Numbers DEF Unset, Time
    <3>2. nextFireAt'[i] = nextFireAt[i]
      BY <1>1, <1>7, <2>5, <3>1, CheckIs, NextOfType
    <3> QED BY <1>1, <2>1, <2>2, <2>5, <3>2
  <2> QED BY <2>2, <2>3, <2>4, <2>5
<1> QED BY <1>5, <1>6, <1>7, DueIs

LEMMA PeriodsInit == Init => Periods
BY IdsAssumption DEF Init, Periods, Period

LEMMA PeriodsStep ==
  Prompt /\ Types /\ UpToDate /\ Creations /\ Periods /\ [Next]_vars => Periods'
<1> SUFFICES ASSUME Prompt, Types, UpToDate, Creations, Periods, [Next]_vars
             PROVE  Periods'
  OBVIOUS
<1>1. CASE Check
  BY <1>1, PeriodsCheck
<1>2. CASE Crash
  BY <1>2, IdsAssumption DEF Crash, Periods, Period
<1>3. ASSUME up' = up, isOwner => isOwner', created \subseteq created',
             UNCHANGED firedAt, \A i \in Recurring : nextFireAt'[i] = nextFireAt[i]
      PROVE  Periods'
  <2> SUFFICES ASSUME NEW i \in Recurring, firedAt[i] # Unset
               PROVE  /\ up' /\ isOwner' /\ i \in created'
                      /\ firedAt'[i] <= now'
                      /\ nextFireAt'[i] > firedAt'[i] \/ Over(i)'
    BY <1>3 DEF Periods, Period
  <2>1. /\ up /\ isOwner /\ i \in created /\ firedAt[i] <= now
        /\ nextFireAt[i] > firedAt[i] \/ Over(i)
    BY DEF Periods, Period
  <2>2. firedAt[i] <= now'
    BY <2>1, NowGrows, IdsAssumption, Numbers DEF Types, Time
  <2> QED BY <1>3, <2>1, <2>2, OverStays
<1>4. ASSUME NEW owner \in BOOLEAN, Start(owner) PROVE Periods'
  <2>1. \A i \in Recurring : firedAt[i] = Unset
    BY <1>4 DEF Start, Periods, Period
  <2> QED BY <1>4, <2>1 DEF Start, ghostVars, Periods, Period
<1>5. ASSUME NEW l \in loads, Load(l) PROVE Periods'
  <2>1. \A i \in Recurring : nextFireAt'[i] = nextFireAt[i]
    BY <1>5, LoadIs, IdsAssumption
  <2> QED BY <1>3, <1>5, <2>1, LoadIs
<1>6. ASSUME NEW c \in io, IoFill(c) PROVE Periods'
  BY <1>3, <1>6 DEF IoFill
<1>7. ASSUME NEW c \in io, IoRead(c) \/ IoOpen(c) \/ IoFail(c) PROVE Periods'
  BY <1>3, <1>7 DEF IoRead, IoOpen, IoFail, schedVars, ghostVars
<1>8. ASSUME NEW why \in toLoad, LoadRead(why) PROVE Periods'
  BY <1>3, <1>8 DEF LoadRead, schedVars, ghostVars
<1>9. ASSUME NEW i \in Ids, Create(i) \/ Delete(i) PROVE Periods'
  BY <1>3, <1>9 DEF Create, Delete, schedVars, ghostVars
<1>10. CASE Tick
  BY <1>3, <1>10 DEF Tick, schedVars, ghostVars
<1>11. CASE BecomeOwner
  BY <1>3, <1>11 DEF BecomeOwner, ghostVars
<1>12. CASE UNCHANGED vars
  BY <1>3, <1>12 DEF vars, schedVars, ghostVars
<1> QED BY <1>1, <1>2, <1>4, <1>5, <1>6, <1>7, <1>8, <1>9, <1>10, <1>11, <1>12
     DEF Next, IoStep, LoadStep

\* A process fires a recurring task at most once per period (OncePerPeriod),
\* until the task is too old, if the checks run when no change of the file and
\* no reload is under way: whatever is created and deleted meanwhile, whichever
\* changes fail, and although a process may die and leave the file truncated.
THEOREM FiresOncePerPeriod == Prompt => (Spec => OncePerPeriod)
<1> SUFFICES ASSUME Prompt PROVE Spec => OncePerPeriod
  OBVIOUS
<1> DEFINE Inv == UpToDate /\ Creations /\ Periods
<1>1. Init => Inv
  BY UpToDateInit, CreationsInit, PeriodsInit
<1>2. Types /\ Inv /\ [Next]_vars => Inv'
  BY UpToDateStep, CreationsStep, PeriodsStep DEF Prompt
<1>3. Types /\ Inv =>
        [\A i \in Recurring : Check /\ i \in Due /\ ~ Aged(i) => firedAt[i] < now]_vars
  BY DueIsLater
<1> HIDE DEF Inv
<1> QED BY <1>1, <1>2, <1>3, TypesHold, PTL DEF Spec, OncePerPeriod

-----------------------------------------------------------------------------
(* A one-shot task is run once, or asked about.                            *)
(*                                                                         *)
(* After the fire of a one-shot task the process has no time of it left;   *)
(* what keeps it from firing again is inFlight while the removal is under  *)
(* way, and a reload that no check overtakes after it has landed.  What    *)
(* keeps a task that was asked about from firing is a time that never      *)
(* comes, until the checks do not see the task any more.  Both need that   *)
(* nothing brings the task back to the file: that no other change writes   *)
(* what it has read, as that of another task would, and that no removal    *)
(* fails.                                                                  *)

(* There is one task, its changes do not fail, nobody else deletes it, and *)
(* the session is the owner from its start.                                *)
OneTask == \A i, j \in Ids : i = j
Undisturbed == ~ MayDelete /\ ~ MayFail /\ ~ MayWait

(* The kinds of changes and what has been noted of them.                   *)
Noted ==
  \A c \in io :
    /\ c.ids # {} /\ c.op # "delete"
    /\ c.op = "fired" => \A i \in c.ids : firedAt[i] # Unset
    /\ c.op = "missed" => c.ids \subseteq missedAsked
    /\ c.op = "mark" => c.ids \subseteq Recurring

(* The task is in neither the file nor the session's copies.               *)
Vanished(i) == Read[i] = Gone /\ tasks[i] = Gone /\ \A l \in loads : l.snap[i] = Gone

Asked ==
  /\ missedAsked \cap Recurring = {}
  /\ \A i \in missedAsked : /\ up /\ i \in created
                            /\ nextFireAt[i] = Infinity \/ Vanished(i)

(* A task that has fired is being removed, by the only change there is, or *)
(* has been.                                                               *)
Leaving(i) ==
  /\ i \in inFlight
  /\ \E c \in io : /\ io = {c} /\ c.op = "fired"
                   /\ c.at # "fill" => file # Torn /\ file[i] # Gone
Left(i) == io = {} /\ Read[i] = Gone

Fired ==
  \A i \in Ids \ Recurring : firedAt[i] # Unset =>
    /\ up /\ i \in created
    /\ "initial" \notin toLoad /\ \A l \in loads : ~ l.initial
    /\ Leaving(i) \/ Left(i)

Truncated == \A i \in Ids \ Recurring : Filling => Read[i] = Gone

OnceInv == isOwner = up /\ Noted /\ Asked /\ Fired /\ Truncated

LEMMA OnceInit == Init => OnceInv
BY DEF Init, OnceInv, Noted, Asked, Fired, Truncated, Filling

\* The changes of the only task, when its schedule does not recur.
LEMMA ItsChanges ==
  ASSUME OneTask, Types, Creations, OnceInv, NEW i \in Ids \ Recurring, NEW c \in io
  PROVE  /\ c \in Ios /\ c.ids = {i} /\ c.op \in {"create", "fired", "missed"}
         /\ c.op = "create" => i \notin created
         /\ c.op = "fired" => firedAt[i] # Unset /\ i \in created
         /\ c.op = "missed" => i \in missedAsked /\ i \in created
         /\ i \in created => Changed(c)[i] = Gone
<1>1. c \in Ios /\ c.ids \subseteq Ids /\ c.op \in IoOps
  BY DEF Types, Ios
<1>2. Ids = {i} /\ Recurring = {}
  BY IdsAssumption DEF OneTask
<1>3. c.ids = {i}
  BY <1>1, <1>2 DEF OnceInv, Noted
<1>4. c.op \in {"create", "fired", "missed"}
  BY <1>1, <1>2, <1>3 DEF OnceInv, Noted, IoOps
<1>5. c.op = "create" => i \notin created
  BY <1>3 DEF Creations
<1>6. c.op = "fired" => firedAt[i] # Unset /\ i \in created
  BY <1>3 DEF OnceInv, Noted, Fired
<1>7. c.op = "missed" => i \in missedAsked /\ i \in created
  BY <1>3 DEF OnceInv, Noted, Asked
<1>8. i \in created => Changed(c)[i] = Gone
  <2>1. i \in created => c.op \in {"fired", "missed"}
    BY <1>4, <1>5
  <2> QED BY <1>1, <1>3, <2>1, ChangedIs
<1> QED BY <1>1, <1>3, <1>4, <1>5, <1>6, <1>7, <1>8

\* What has vanished stays so.
LEMMA VanishedStays ==
  ASSUME OneTask, Types, Creations, OnceInv, [Next]_vars,
         NEW i \in created \ Recurring, Vanished(i)
  PROVE  Vanished(i)'
<1>1. i \in Ids \ Recurring /\ NoTasks[i] = Gone
  BY NoTasksType DEF Types
<1>2. \A c \in io : Changed(c)[i] = Gone
  BY <1>1, ItsChanges
<1>3. Read'[i] = Gone
  BY <1>1, <1>2, SourcesGrow DEF Vanished
<1>4. tasks'[i] = Gone /\ \A l \in loads' : l.snap[i] = Gone
  BY <1>1, SourcesGrow DEF Vanished
<1> QED BY <1>3, <1>4 DEF Vanished

LEMMA OwnerStep ==
  Undisturbed /\ Types /\ isOwner = up /\ [Next]_vars => isOwner' = up'
<1> SUFFICES ASSUME Undisturbed, Types, isOwner = up, [Next]_vars PROVE isOwner' = up'
  OBVIOUS
<1>1. CASE UNCHANGED <<up, isOwner>>
  BY <1>1
<1>2. ASSUME NEW owner \in BOOLEAN, Start(owner) PROVE isOwner' = up'
  BY <1>2 DEF Start, Undisturbed
<1>3. CASE BecomeOwner
  BY <1>3 DEF BecomeOwner
<1>4. CASE Crash
  BY <1>4 DEF Crash
<1>5. CASE Check \/ IoStep \/ LoadStep
  BY <1>1, <1>5 DEF Check, IoStep, IoRead, IoOpen, IoFill, IoFail, LoadStep, LoadRead, Load,
                    schedVars
<1>6. CASE Tick \/ (\E i \in Ids : Create(i) \/ Delete(i)) \/ UNCHANGED vars
  BY <1>1, <1>6 DEF Tick, Create, Delete, vars, schedVars
<1> QED BY <1>2, <1>3, <1>4, <1>5, <1>6 DEF Next

LEMMA NotedStep == Undisturbed /\ Types /\ Noted /\ [Next]_vars => Noted'
<1> SUFFICES ASSUME Undisturbed, Types, Noted, [Next]_vars PROVE Noted'
  OBVIOUS
<1>1. ASSUME UNCHANGED firedAt, missedAsked \subseteq missedAsked', io' \subseteq io
      PROVE  Noted'
  BY <1>1 DEF Noted
<1>2. CASE Check
  <2>1. ASSUME NEW c \in io
        PROVE  /\ c.ids # {} /\ c.op # "delete"
               /\ c.op = "fired" => \A i \in c.ids : firedAt'[i] # Unset
               /\ c.op = "missed" => c.ids \subseteq missedAsked'
               /\ c.op = "mark" => c.ids \subseteq Recurring
    <3>1. now # Unset /\ c.ids \subseteq Ids
      BY Numbers DEF Types, Time, Unset, Ios
    <3> QED BY <1>2, <3>1, CheckIs DEF Noted
  <2>2. ASSUME NEW c \in io' \ io
        PROVE  /\ c.ids # {} /\ c.op \in {"fired", "mark"}
               /\ c.op = "fired" => \A i \in c.ids : firedAt'[i] # Unset
               /\ c.op = "mark" => c.ids \subseteq Recurring
    <3>1. now # Unset /\ Due \subseteq Ids
      BY Numbers, DueIs DEF Types, Time, Unset
    <3>2. CASE c.op = "fired"
      <4>1. PICK i \in Once : c.ids = {i}
        BY <1>2, <3>2, CheckIs
      <4> QED BY <1>2, <3>1, <3>2, <4>1, CheckIs, DueIs
    <3>3. CASE c.op = "mark"
      BY <1>2, <3>3, CheckIs, DueIs
    <3> QED BY <1>2, <3>2, <3>3, CheckIs
  <2> QED BY <2>1, <2>2 DEF Noted
<1>3. ASSUME NEW c \in io, NEW d \in Ios, d.op = c.op, d.ids = c.ids,
             io' = (io \ {c}) \cup {d}, UNCHANGED <<firedAt, missedAsked>>
      PROVE  Noted'
  BY <1>3 DEF Noted
<1>4. ASSUME NEW c \in io, IoRead(c) \/ IoOpen(c) \/ IoFill(c) \/ IoFail(c) PROVE Noted'
  <2>1. c \in Ios /\ Read \in Contents
    BY ReadType DEF Types
  <2>2. CASE IoRead(c) /\ Matters(c, Read)
    <3>1. /\ io' = (io \ {c}) \cup {[c EXCEPT !.snap = Read, !.at = "open"]}
          /\ UNCHANGED <<firedAt, missedAsked>>
      BY <2>2 DEF IoRead, ghostVars
    <3> QED BY <1>3, <2>1, <3>1, StagesType
  <2>3. CASE IoOpen(c)
    <3>1. /\ io' = (io \ {c}) \cup {[c EXCEPT !.at = "fill"]}
          /\ UNCHANGED <<firedAt, missedAsked>>
      BY <2>3 DEF IoOpen, ghostVars, schedVars
    <3> QED BY <1>3, <2>1, <3>1, StagesType
  <2>4. CASE (IoRead(c) /\ ~ Matters(c, Read)) \/ IoFill(c) \/ IoFail(c)
    <3>1. io' = io \ {c} /\ UNCHANGED <<firedAt, missedAsked>>
      BY <2>4 DEF IoRead, IoFill, IoFail, ghostVars
    <3> QED BY <1>1, <3>1
  <2> QED BY <1>4, <2>2, <2>3, <2>4
<1>5. ASSUME NEW l \in loads, Load(l) PROVE Noted'
  <2>1. /\ UNCHANGED firedAt /\ missedAsked' = missedAsked \cup Found(l)
        /\ \A c \in io' \ io : c.op = "missed" /\ c.ids = Found(l) /\ Found(l) # {}
    BY <1>5, LoadIs
  <2> QED BY <2>1 DEF Noted
<1>6. ASSUME NEW why \in toLoad, LoadRead(why) PROVE Noted'
  BY <1>1, <1>6 DEF LoadRead, fileVars, schedVars, ghostVars
<1>7. ASSUME NEW owner \in BOOLEAN, Start(owner) PROVE Noted'
  BY <1>1, <1>7 DEF Start, fileVars, ghostVars
<1>8. CASE Crash
  <2>1. \A c \in io' : c \in io /\ c.op \in {"create", "delete"}
    BY <1>8 DEF Crash
  <2> QED BY <2>1 DEF Noted
<1>9. ASSUME NEW i \in Ids, Create(i) PROVE Noted'
  <2>1. /\ io' = io \cup {Change("create", {i})} /\ UNCHANGED <<firedAt, missedAsked>>
    BY <1>9 DEF Create, ghostVars, schedVars
  <2>2. Change("create", {i}).ids = {i} /\ Change("create", {i}).op = "create"
    BY ChangeType DEF IoOps
  <2> QED BY <2>1, <2>2 DEF Noted
<1>10. ASSUME NEW i \in Ids, Delete(i) PROVE FALSE
  BY <1>10 DEF Delete, Undisturbed
<1>11. CASE Tick
  BY <1>1, <1>11 DEF Tick, fileVars, schedVars, ghostVars
<1>12. CASE BecomeOwner
  BY <1>1, <1>12 DEF BecomeOwner, fileVars, ghostVars
<1>13. CASE UNCHANGED vars
  BY <1>1, <1>13 DEF vars, fileVars, schedVars, ghostVars
<1> QED BY <1>2, <1>4, <1>5, <1>6, <1>7, <1>8, <1>9, <1>10, <1>11, <1>12, <1>13
     DEF Next, IoStep, LoadStep

LEMMA TruncatedStep ==
  OneTask /\ Types /\ Creations /\ OnceInv /\ [Next]_vars => Truncated'
<1> SUFFICES ASSUME OneTask, Types, Creations, OnceInv, [Next]_vars,
                    NEW i \in Ids \ Recurring, Filling'
             PROVE  Read'[i] = Gone
  BY DEF Truncated
<1>1. NoTasks[i] = Gone /\ (Filling => Read[i] = Gone)
  BY NoTasksType DEF OnceInv, Truncated
<1>2. ASSUME Filling, ~ \E c \in io : IoFill(c) PROVE Read'[i] = Gone
  BY <1>1, <1>2, SourcesGrow
<1>3. ASSUME NEW c \in io, IoFill(c) PROVE Read'[i] = Gone
  <2>1. c \in Ios /\ io' = io \ {c} /\ file' = Changed(c)
    BY <1>3 DEF IoFill, Types
  <2>2. PICK d \in io : d # c
    BY <2>1 DEF Filling
  <2>3. c.op # "create"
    BY <2>2, ItsChanges DEF Creations
  <2>4. Changed(c)[i] = Gone
    BY <2>3, ItsChanges
  <2> QED BY <1>1, <2>1, <2>4 DEF Read, NoTasks
<1>4. ASSUME NEW c \in io, IoOpen(c) PROVE Read'[i] = Gone
  BY <1>1, <1>4 DEF IoOpen, Read, NoTasks
<1>5. ASSUME \A c \in io' : c.at = "fill" => c \in io PROVE Read'[i] = Gone
  <2>1. Filling
    BY <1>5 DEF Filling
  <2> QED BY <1>2, <1>3, <2>1
<1>6. CASE Check
  BY <1>5, <1>6, CheckIs
<1>7. ASSUME NEW c \in io, IoRead(c) \/ IoFail(c) PROVE Read'[i] = Gone
  <2>1. [c EXCEPT !.snap = Read, !.at = "open"].at = "open"
    <3>1. c \in Ios
      BY DEF Types
    <3> QED BY <3>1, StagesType, ReadType
  <2> QED BY <1>5, <1>7, <2>1 DEF IoRead, IoFail
<1>8. ASSUME NEW l \in loads, Load(l) PROVE Read'[i] = Gone
  BY <1>5, <1>8, LoadIs
<1>9. ASSUME NEW j \in Ids, Create(j) \/ Delete(j) PROVE Read'[i] = Gone
  <2>1. \A c \in io' : c \in io \/ c.at = "read"
    BY <1>9, ChangeType DEF Create, Delete, IoOps
  <2> QED BY <1>5, <2>1
<1>10. CASE Tick \/ BecomeOwner \/ Crash \/ UNCHANGED vars
  BY <1>5, <1>10 DEF Tick, BecomeOwner, Crash, vars, fileVars
<1>11. ASSUME NEW why \in toLoad, LoadRead(why) PROVE Read'[i] = Gone
  BY <1>5, <1>11 DEF LoadRead, fileVars
<1>12. ASSUME NEW owner \in BOOLEAN, Start(owner) PROVE Read'[i] = Gone
  BY <1>5, <1>12 DEF Start, fileVars
<1> QED BY <1>3, <1>4, <1>6, <1>7, <1>8, <1>9, <1>10, <1>11, <1>12
     DEF Next, IoStep, LoadStep

\* A task that the user has been asked about is not due.
LEMMA AskedIsNotDue ==
  ASSUME Types, OnceInv, NEW i \in missedAsked
  PROVE  i \notin Due
<1>1. CASE Vanished(i)
  BY <1>1, DueIs, NextOfType DEF Vanished
<1>2. CASE nextFireAt[i] = Infinity
  <2>1. now < Infinity /\ Infinity # Unset /\ now \in Int /\ Infinity \in Int
    BY Numbers DEF Types, Time, Infinity, Unset
  <2>2. ASSUME i \in Due PROVE FALSE
    <3>1. NextOf(i) = Infinity /\ now >= NextOf(i)
      BY <1>2, <2>1, <2>2, DueIs, NextOfType
    <3> QED BY <2>1, <3>1
  <2> QED BY <2>2
<1> QED BY <1>1, <1>2 DEF OnceInv, Asked

LEMMA AskedStep ==
  ASSUME OneTask, PromptReloads, Undisturbed,
         Types, UpToDate, Creations, OnceInv, [Next]_vars
  PROVE  Asked'
<1>1. /\ missedAsked \subseteq Ids \ Recurring
      /\ \A i \in missedAsked : /\ up /\ i \in created
                                /\ nextFireAt[i] = Infinity \/ Vanished(i)
  BY DEF Types, OnceInv, Asked
<1>2. ASSUME missedAsked' = missedAsked, UNCHANGED up, created \subseteq created',
             \A i \in missedAsked : nextFireAt[i] = Infinity => nextFireAt'[i] = Infinity \/ Vanished(i)
      PROVE  Asked'
  <2>1. ASSUME NEW i \in missedAsked PROVE nextFireAt'[i] = Infinity \/ Vanished(i)'
    <3>1. i \in created \ Recurring
      BY <1>1
    <3> QED BY <1>1, <1>2, <3>1, VanishedStays
  <2> QED BY <1>1, <1>2, <2>1 DEF Asked
<1>3. CASE Check
  <2>1. ASSUME NEW i \in missedAsked, nextFireAt[i] = Infinity
        PROVE  nextFireAt'[i] = Infinity \/ Vanished(i)
    <3>1. i \in Ids \ Recurring /\ Infinity # Unset
      BY <1>1, Numbers DEF Infinity, Unset
    <3>2. CASE i \in Seen
      <4>1. i \notin Due /\ NextOf(i) = Infinity
        BY <2>1, <3>1, <3>2, AskedIsNotDue, NextOfType
      <4> QED BY <1>3, <2>1, <3>1, <3>2, <4>1, CheckIs
    <3>3. CASE i \notin Seen
      <4>1. up /\ toLoad = {} /\ loads = {}
        BY <1>3 DEF Check, Quick
      <4>2. tasks[i] = Gone
        BY <3>1, <3>3, <4>1 DEF Seen, In, OnceInv
      <4>3. Read[i] = Gone
        BY <3>1, <4>1, <4>2 DEF UpToDate, OnceInv, Truncated
      <4> QED BY <4>1, <4>2, <4>3 DEF Vanished
    <3> QED BY <3>2, <3>3
  <2> QED BY <1>2, <1>3, <2>1, CheckIs
<1>4. ASSUME NEW l \in loads, Load(l) PROVE Asked'
  <2>1. /\ up' = up /\ up /\ created' = created /\ missedAsked' = missedAsked \cup Found(l)
        /\ Found(l) \subseteq Ids \ Recurring
        /\ \A i \in Ids : nextFireAt'[i] = IF i \in Found(l) THEN Infinity ELSE nextFireAt[i]
    BY <1>4, LoadIs DEF UpToDate
  <2>2. Found(l) \subseteq created
    BY <1>4, LoadIs DEF Creations, Copies, In
  <2>3. ASSUME NEW i \in missedAsked PROVE nextFireAt'[i] = Infinity \/ Vanished(i)'
    <3>1. i \in created \ Recurring /\ i \in Ids
      BY <1>1
    <3> QED BY <1>1, <2>1, <3>1, VanishedStays
  <2> QED BY <1>1, <2>1, <2>2, <2>3 DEF Asked
<1>5. CASE Crash
  BY <1>5 DEF Crash, Asked
<1>6. ASSUME NEW owner \in BOOLEAN, Start(owner) PROVE Asked'
  BY <1>1, <1>6 DEF Start, Asked
<1>7. ASSUME NEW c \in io, IoRead(c) \/ IoOpen(c) \/ IoFail(c) PROVE Asked'
  BY <1>2, <1>7 DEF IoRead, IoOpen, IoFail, schedVars, ghostVars
<1>8. ASSUME NEW c \in io, IoFill(c) PROVE Asked'
  BY <1>2, <1>8 DEF IoFill
<1>9. ASSUME NEW why \in toLoad, LoadRead(why) PROVE Asked'
  BY <1>2, <1>9 DEF LoadRead, schedVars, ghostVars
<1>10. ASSUME NEW i \in Ids, Create(i) \/ Delete(i) PROVE Asked'
  BY <1>2, <1>10 DEF Create, Delete, schedVars, ghostVars
<1>11. CASE Tick
  BY <1>2, <1>11 DEF Tick, schedVars, ghostVars
<1>12. CASE BecomeOwner
  BY <1>2, <1>12 DEF BecomeOwner, ghostVars
<1>13. CASE UNCHANGED vars
  BY <1>2, <1>13 DEF vars, schedVars, ghostVars
<1> QED BY <1>3, <1>4, <1>5, <1>6, <1>7, <1>8, <1>9, <1>10, <1>11, <1>12, <1>13
     DEF Next, IoStep, LoadStep

\* A one-shot task that has fired is not due.
LEMMA FiredIsNotDue ==
  ASSUME PromptReloads, Types, UpToDate, OnceInv, Check,
         NEW i \in Ids \ Recurring, firedAt[i] # Unset
  PROVE  i \notin Due
<1>1. CASE Leaving(i)
  BY <1>1, DueIs DEF Leaving
<1>2. CASE Left(i)
  <2>1. tasks = Read
    BY <1>2 DEF Check, Quick, UpToDate, Left, Filling
  <2> QED BY <1>2, <2>1, DueIs, NextOfType DEF Left
<1> QED BY <1>1, <1>2 DEF OnceInv, Fired

\* A one-shot task that fires: its removal is the only change there is.
LEMMA FiresNow ==
  ASSUME OneTask, PromptReloads, Types, UpToDate, Creations, OnceInv, Check,
         NEW i \in Ids \ Recurring, i \in Due
  PROVE  i \in created /\ toLoad = {} /\ loads = {} /\ Leaving(i)'
<1>1. up /\ toLoad = {} /\ loads = {} /\ file' = file /\ inFlight' = inFlight \cup Due
  BY CheckIs DEF Quick
<1>2. i \in created /\ tasks[i] # Gone
  BY DueIs, NextOfType DEF Creations, Copies, In
<1>3. io = {}
  <2> SUFFICES ASSUME NEW c \in io PROVE FALSE
    OBVIOUS
  <2>1. c.op # "create"
    BY <1>2, ItsChanges
  <2>2. c.op # "fired"
    BY FiredIsNotDue, ItsChanges
  <2>3. c.op # "missed"
    BY AskedIsNotDue, ItsChanges
  <2> QED BY <2>1, <2>2, <2>3, ItsChanges
<1>4. file # Torn /\ file[i] # Gone
  <2>1. tasks = Read
    BY <1>1, <1>3 DEF UpToDate, Filling
  <2> QED BY <1>2, <2>1, ReadType
<1>5. Once = {i} /\ Again = {}
  <2>1. Ids = {i} /\ Recurring = {}
    BY IdsAssumption DEF OneTask
  <2> QED BY <2>1, DueIs DEF Once, Again
<1>6. io' = {Change("fired", {i})}
  <2>1. io' = io \cup {Change("fired", {j}) : j \in Once}
                \cup (IF Again = {} THEN {} ELSE {Change("mark", Again)})
    BY DEF Check, Once, Again
  <2> QED BY <1>3, <1>5, <2>1
<1>7. Change("fired", {i}).op = "fired"
  BY ChangeType DEF IoOps
<1> QED BY <1>1, <1>2, <1>4, <1>6, <1>7 DEF Leaving

LEMMA FiredStep ==
  ASSUME OneTask, PromptReloads, Undisturbed,
         Types, UpToDate, Creations, OnceInv, [Next]_vars
  PROVE  Fired'
<1> SUFFICES ASSUME NEW i \in Ids \ Recurring, firedAt'[i] # Unset
             PROVE  /\ up' /\ i \in created'
                    /\ "initial" \notin toLoad' /\ \A l \in loads' : ~ l.initial
                    /\ Leaving(i)' \/ Left(i)'
  BY DEF Fired
<1> DEFINE Goal == /\ up' /\ i \in created'
                   /\ "initial" \notin toLoad' /\ \A l \in loads' : ~ l.initial
                   /\ Leaving(i)' \/ Left(i)'
<1>1. Ids = {i} /\ Recurring = {}
  BY IdsAssumption DEF OneTask
<1>2. ASSUME firedAt[i] # Unset
      PROVE  /\ up /\ i \in created
             /\ "initial" \notin toLoad /\ \A l \in loads : ~ l.initial
             /\ Leaving(i) \/ Left(i)
  BY <1>2 DEF OnceInv, Fired
<1>3. UNCHANGED <<file, io, inFlight>> /\ (Leaving(i) \/ Left(i)) => Leaving(i)' \/ Left(i)'
  BY DEF Leaving, Left, Read, NoTasks
<1>4. ASSUME UNCHANGED <<file, io, inFlight, up, created, toLoad, loads, firedAt>> PROVE Goal
  BY <1>2, <1>3, <1>4
<1>5. CASE Check
  <2>1. CASE i \in Due
    BY <1>5, <2>1, FiresNow, CheckIs
  <2>2. CASE i \notin Due
    <3>1. Due = {}
      BY <1>1, <2>2, DueIs
    <3>2. Once = {} /\ Again = {} /\ firedAt'[i] = firedAt[i]
      BY <1>5, <2>2, <3>1, DueIs, CheckIs
    <3>3. io' = io /\ inFlight' = inFlight
      BY <1>5, <3>1, <3>2, CheckIs
    <3>4. UNCHANGED <<file, up, created, toLoad, loads>>
      BY <1>5, CheckIs
    <3> QED BY <1>2, <1>3, <3>2, <3>3, <3>4
  <2> QED BY <2>1, <2>2
<1>6. ASSUME NEW c \in io, IoRead(c) \/ IoOpen(c) \/ IoFill(c) \/ IoFail(c) PROVE Goal
  <2>1. UNCHANGED <<up, firedAt>>
    BY <1>6 DEF IoRead, IoOpen, IoFill, IoFail, schedVars, ghostVars
  <2>2. /\ up /\ i \in created
        /\ "initial" \notin toLoad /\ \A l \in loads : ~ l.initial
    BY <1>2, <2>1
  <2>3. /\ i \in inFlight /\ io = {c} /\ c.op = "fired"
        /\ c.at # "fill" => file # Torn /\ file[i] # Gone
    BY <1>2, <2>1 DEF Leaving, Left
  <2>4. c \in Ios /\ c.ids = {i} /\ Changed(c)[i] = Gone /\ Changed(c) # Torn
    BY <2>2, ItsChanges, ChangedIs
  <2>5. CASE IoRead(c)
    <3>1. Matters(c, Read)
      BY <1>1, <2>3, <2>4, <2>5, ReadType DEF IoRead, Matters, In
    <3>2. /\ io' = {[c EXCEPT !.snap = Read, !.at = "open"]}
          /\ UNCHANGED <<file, inFlight, created, toLoad, loads>>
      BY <2>3, <2>5, <3>1 DEF IoRead, loadVars, ghostVars
    <3>3. [c EXCEPT !.snap = Read, !.at = "open"].op = "fired"
      BY <2>3, <2>4, StagesType, ReadType
    <3>4. file # Torn /\ file[i] # Gone
      BY <2>3, <2>5 DEF IoRead
    <3>5. Leaving(i)'
      BY <2>3, <3>2, <3>3, <3>4 DEF Leaving
    <3> QED BY <2>1, <2>2, <3>2, <3>5
  <2>6. CASE IoOpen(c)
    <3>1. /\ io' = {[c EXCEPT !.at = "fill"]}
          /\ UNCHANGED <<inFlight, created, toLoad, loads>>
      BY <2>3, <2>6 DEF IoOpen, loadVars, ghostVars, schedVars
    <3>2. /\ [c EXCEPT !.at = "fill"].op = "fired"
          /\ [c EXCEPT !.at = "fill"].at = "fill"
      BY <2>3, <2>4, StagesType, NoTasksType
    <3>3. Leaving(i)'
      BY <2>3, <3>1, <3>2 DEF Leaving
    <3> QED BY <2>1, <2>2, <3>1, <3>3
  <2>7. CASE IoFill(c)
    <3>1. /\ io' = {} /\ file' = Changed(c) /\ UNCHANGED <<created, loads>>
          /\ toLoad' \subseteq toLoad \cup {"change"}
      BY <2>3, <2>7 DEF IoFill
    <3>2. Left(i)'
      BY <2>4, <3>1 DEF Left, Read, NoTasks
    <3> QED BY <2>1, <2>2, <3>1, <3>2
  <2>8. CASE IoFail(c)
    BY <2>8 DEF IoFail, Undisturbed
  <2> QED BY <1>6, <2>5, <2>6, <2>7, <2>8
<1>7. ASSUME NEW why \in toLoad, LoadRead(why) PROVE Goal
  <2>1. /\ UNCHANGED <<file, io, inFlight, up, created, firedAt>>
        /\ toLoad' \subseteq toLoad
        /\ \A l \in loads' : l \in loads \/ l.initial = (why = "initial")
    BY <1>7 DEF LoadRead, fileVars, schedVars, ghostVars
  <2> QED BY <1>2, <1>3, <1>7, <2>1
<1>8. ASSUME NEW l \in loads, Load(l) PROVE Goal
  <2>1. /\ UNCHANGED <<file, inFlight, up, created, firedAt, toLoad>>
        /\ loads' \subseteq loads
    BY <1>8, LoadIs
  <2>2. io' = io
    BY <1>2, <1>8, <2>1, LoadIs
  <2> QED BY <1>2, <1>3, <2>1, <2>2
<1>9. ASSUME NEW owner \in BOOLEAN, Start(owner) PROVE Goal
  BY <1>2, <1>9 DEF Start, ghostVars
<1>10. CASE BecomeOwner
  BY <1>4, <1>10 DEF BecomeOwner, fileVars, loadVars, ghostVars
<1>11. CASE Crash
  BY <1>11 DEF Crash
<1>12. ASSUME NEW j \in Ids, Create(j) PROVE Goal
  BY <1>1, <1>2, <1>12 DEF Create, ghostVars
<1>13. ASSUME NEW j \in Ids, Delete(j) PROVE FALSE
  BY <1>13 DEF Delete, Undisturbed
<1>14. CASE Tick
  BY <1>4, <1>14 DEF Tick, fileVars, schedVars, loadVars, ghostVars
<1>15. CASE UNCHANGED vars
  BY <1>4, <1>15 DEF vars, fileVars, schedVars, loadVars, ghostVars
<1> QED BY <1>5, <1>6, <1>7, <1>8, <1>9, <1>10, <1>11, <1>12, <1>13, <1>14, <1>15
     DEF Next, IoStep, LoadStep

\* A process runs a one-shot task at most once, and not at all when it has asked
\* the user about it (RunOrAsk), although it forgets the task's next time when
\* it fires it and may die at any moment: when there is one task, its removal
\* does not fail and no check overtakes a reload.  Changes and checks may
\* interleave in any other way.
THEOREM RunsOrAsks ==
  OneTask /\ PromptReloads /\ Undisturbed => (Spec => RunOrAsk)
<1> SUFFICES ASSUME OneTask, PromptReloads, Undisturbed PROVE Spec => RunOrAsk
  OBVIOUS
<1> DEFINE Inv == UpToDate /\ Creations /\ OnceInv
<1>1. Init => Inv
  BY UpToDateInit, CreationsInit, OnceInit
<1>2. Types /\ Inv /\ [Next]_vars => Inv'
  <2>1. Types /\ Inv /\ [Next]_vars => UpToDate' /\ Creations'
    BY UpToDateStep, CreationsStep
  <2>2. Types /\ Inv /\ [Next]_vars => OnceInv'
    BY OwnerStep, NotedStep, TruncatedStep, AskedStep, FiredStep DEF OnceInv
  <2> QED BY <2>1, <2>2
<1>3. Types /\ Inv =>
        [\A i \in Ids \ Recurring : Check /\ i \in Due => firedAt[i] = Unset]_vars
  BY FiredIsNotDue
<1>4. Types /\ Inv => [\A i \in missedAsked : ~ (Check /\ i \in Due)]_vars
  BY AskedIsNotDue
<1> HIDE DEF Inv
<1> QED BY <1>1, <1>2, <1>3, <1>4, TypesHold, PTL DEF Spec, RunOrAsk, FireOnce,
           AskedIsNotRun

-----------------------------------------------------------------------------
(***************************************************************************)
(* The lock of the scheduler.                                              *)
(***************************************************************************)
(* A scheduler that does anything belongs to a process that runs.          *)
Placed == \A p \in Processes : ~ At(p, "down") => life[p] = "up"

(* A lock that no dead process has left is that of a process on a way that *)
(* ends with giving it back: it has yet to write the body, or has written  *)
(* it and owns the lock or releases it; or it has released, or tried to,   *)
(* in another session than the one it wrote.  Nobody else can make it      *)
(* forget its lock; an unlink or a rewriting by another only takes it away.*)
OfDead == life[lock.pid] = "died"
Unfilled == At(lock.pid, "fill") /\ ~ lock.full /\ sessionId[lock.pid] = lock.by
Held == pc[lock.pid] \in {"owning", "relread", "relunlink"} /\ lock.full
Disowned == At(lock.pid, "down") /\ life[lock.pid] # "new" /\ sessionId[lock.pid] # lock.by

LockIsCared == lock # NoFile => OfDead \/ Unfilled \/ Held \/ Disowned

LockInv == LockTypeOK /\ Placed /\ LockIsCared

LEMMA LockInvInit == LockInit => LockInv
BY DEF LockInit, LockInv, LockTypeOK, Placed, LockIsCared, At, Points

\* The body that a process writes.
LEMMA EmptyIs ==
  ASSUME LockTypeOK, NEW p \in Processes
  PROVE  /\ Empty(p) \in Locks /\ Empty(p).by = sessionId[p]
         /\ Empty(p).pid = p /\ ~ Empty(p).full
BY DEF LockTypeOK, Empty, Locks

\* The id that an acquisition or a release takes.
LEMMA TakesIdIs ==
  ASSUME LockTypeOK, NEW p \in Processes, TakesId(p)
  PROVE  /\ sessionId' \in [Processes -> Sessions] /\ sessionId'[p] = sessionNow[p]
         /\ \A q \in Processes \ {p} : sessionId'[q] = sessionId[q]
BY DEF LockTypeOK, TakesId

\* A scheduler that goes somewhere.
LEMMA GotoIs ==
  ASSUME LockTypeOK, NEW p \in Processes, NEW point \in Points, Goto(p, point)
  PROVE  /\ pc' \in [Processes -> Points] /\ pc'[p] = point
         /\ \A q \in Processes \ {p} : pc'[q] = pc[q]
BY DEF LockTypeOK, Goto

\* Where an acquisition leads.
LEMMA ReturnedIs ==
  ASSUME LockTypeOK, NEW p \in Processes, NEW owned \in BOOLEAN,
         Returned(p, owned)
  PROVE  /\ ownsLock' \in [Processes -> BOOLEAN]
         /\ pc' \in [Processes -> Points] /\ sessionId' \in [Processes -> Sessions]
         /\ \A q \in Processes \ {p} : pc'[q] = pc[q] /\ sessionId'[q] = sessionId[q]
         /\ pc'[p] \in IF owned THEN {"relread", "owning"} ELSE {"down", "waiting"}
<1>1. ownsLock' \in [Processes -> BOOLEAN]
  BY DEF LockTypeOK, Returned
<1>2. CASE stopped[p] /\ owned
  BY <1>1, <1>2, GotoIs, TakesIdIs DEF Returned, Points
<1>3. CASE ~ (stopped[p] /\ owned)
  BY <1>1, <1>3, GotoIs DEF Returned, Points, LockTypeOK
<1> QED BY <1>2, <1>3

LEMMA LockStep == LockInv /\ [LockNext]_lockVars => LockInv'
<1> SUFFICES ASSUME LockInv, [LockNext]_lockVars PROVE LockInv'
  OBVIOUS
<1>a. LockTypeOK /\ Placed /\ LockIsCared
  BY DEF LockInv
<1>b. /\ lock \in Locks \cup {NoFile}
      /\ \A l \in Locks : l.by \in Sessions /\ l.pid \in Processes /\ l.full \in BOOLEAN
  BY <1>a DEF LockTypeOK, Locks
<1> USE DEF LockInv
<1>1. ASSUME NEW p \in Processes, Enable(p) PROVE LockInv'
  <2>1. /\ Goto(p, "create") /\ life[p] = "new" /\ UNCHANGED <<lock, ownsLock, existing>>
        /\ life' = [life EXCEPT ![p] = "up"] /\ stopped' = [stopped EXCEPT ![p] = FALSE]
    BY <1>1 DEF Enable
  <2>2. /\ sessionNow' \in [Processes -> Sessions] /\ sessionId' \in [Processes -> Sessions]
        /\ \A q \in Processes \ {p} : /\ sessionNow'[q] = sessionNow[q]
                                      /\ sessionId'[q] = sessionId[q]
    BY <1>1, <1>a DEF Enable, LockTypeOK
  <2>3. At(p, "down")
    BY <1>a, <2>1 DEF Placed
  <2>4. LockTypeOK'
    BY <1>a, <2>1, <2>2, GotoIs DEF LockTypeOK, Points
  <2>5. Placed'
    BY <1>a, <2>1, <2>2, GotoIs DEF LockTypeOK, Placed, At, Points
  <2>6. lock # NoFile => lock.pid # p
    BY <1>a, <1>b, <2>1, <2>3 DEF LockIsCared, OfDead, Unfilled, Held, Disowned, At
  <2> QED BY <1>a, <1>b, <2>1, <2>2, <2>4, <2>5, <2>6, GotoIs
         DEF LockTypeOK, LockIsCared, OfDead, Unfilled, Held, Disowned, At, Points
<1>2. ASSUME NEW p \in Processes, SwitchSession(p) PROVE LockInv'
  <2>1. /\ sessionNow' \in [Processes -> Sessions]
        /\ UNCHANGED <<lock, pc, life, sessionId, existing, ownsLock, stopped>>
    BY <1>2, <1>a DEF SwitchSession, LockTypeOK
  <2> QED BY <1>a, <1>b, <2>1 DEF LockTypeOK, Placed, LockIsCared, OfDead, Unfilled,
                                  Held, Disowned, At
<1>3. ASSUME NEW p \in Processes, Probe(p) PROVE LockInv'
  <2>1. /\ At(p, "waiting") /\ Goto(p, "create") /\ TakesId(p)
        /\ UNCHANGED <<lock, life, sessionNow, existing, ownsLock, stopped>>
    BY <1>3 DEF Probe
  <2> QED BY <1>a, <1>b, <2>1, GotoIs, TakesIdIs
         DEF LockTypeOK, Placed, LockIsCared, OfDead, Unfilled, Held, Disowned, At, Points
<1>4. ASSUME NEW p \in Processes, Stop(p) PROVE LockInv'
  <2>1. /\ ~ stopped[p] /\ stopped' = [stopped EXCEPT ![p] = TRUE]
        /\ ownsLock' \in [Processes -> BOOLEAN]
        /\ UNCHANGED <<lock, life, sessionNow, existing>>
    BY <1>4, <1>a DEF Stop, LockTypeOK
  <2>2. /\ pc' \in [Processes -> Points] /\ sessionId' \in [Processes -> Sessions]
        /\ \A q \in Processes \ {p} : pc'[q] = pc[q] /\ sessionId'[q] = sessionId[q]
        /\ \/ pc[p] = "owning" /\ pc'[p] = "relread"
           \/ pc[p] = "waiting" /\ pc'[p] = "down"
           \/ pc[p] \notin {"owning", "waiting"} /\ pc' = pc /\ sessionId' = sessionId
    <3>1. CASE At(p, "owning")
      BY <1>4, <1>a, <3>1, GotoIs, TakesIdIs DEF Stop, At, Points
    <3>2. CASE At(p, "waiting")
      BY <1>4, <1>a, <3>2, GotoIs DEF Stop, At, Points, LockTypeOK
    <3>3. CASE ~ At(p, "owning") /\ ~ At(p, "waiting")
      BY <1>4, <1>a, <3>3 DEF Stop, At, LockTypeOK
    <3> QED BY <3>1, <3>2, <3>3
  <2>3. LockTypeOK' /\ Placed'
    BY <1>a, <2>1, <2>2 DEF LockTypeOK, Placed, At
  <2> QED BY <1>a, <1>b, <2>1, <2>2, <2>3
         DEF LockTypeOK, Placed, LockIsCared, OfDead, Unfilled, Held, Disowned, At
<1>5. ASSUME NEW p \in Processes, Exit(p) PROVE LockInv'
  BY <1>5, <1>a, <1>b DEF Exit, LockTypeOK, Placed, LockIsCared, OfDead, Unfilled, Held,
                          Disowned, At
<1>6. ASSUME NEW p \in Processes, Die(p) PROVE LockInv'
  <2>1. Goto(p, "down") /\ life' = [life EXCEPT ![p] = "died"]
    BY <1>6 DEF Die
  <2>2. LockTypeOK' /\ Placed'
    BY <1>6, <1>a, <2>1, GotoIs DEF Die, LockTypeOK, Placed, At, Points
  <2> QED BY <1>6, <1>a, <1>b, <2>1, <2>2, GotoIs
         DEF Die, LockTypeOK, LockIsCared, OfDead, Unfilled, Held, Disowned, At, Points
<1>7. ASSUME NEW p \in Processes, TryCreateExclusive(p) \/ Reopen(p) PROVE LockInv'
  <2>1. /\ ~ At(p, "down") /\ Goto(p, "fill") /\ lock' = Empty(p)
        /\ UNCHANGED <<life, sessionNow, sessionId, existing, ownsLock, stopped>>
    BY <1>7 DEF TryCreateExclusive, Reopen, At
  <2>2. LockTypeOK' /\ Placed'
    BY <1>a, <2>1, EmptyIs, GotoIs DEF LockTypeOK, Placed, At, Points
  <2> QED BY <1>a, <2>1, <2>2, EmptyIs, GotoIs DEF LockIsCared, Unfilled, At, Points
<1>8. ASSUME NEW p \in Processes, CreateFails(p) \/ ReadBlocked(p) PROVE LockInv'
  <2>1. pc[p] \in {"create", "recreate", "read"}
        /\ UNCHANGED <<lock, life, sessionNow, existing, stopped>>
    BY <1>8 DEF CreateFails, ReadBlocked, At
  <2>2. /\ pc' \in [Processes -> Points] /\ ownsLock' \in [Processes -> BOOLEAN]
        /\ sessionId' \in [Processes -> Sessions]
        /\ \A q \in Processes \ {p} : pc'[q] = pc[q] /\ sessionId'[q] = sessionId[q]
        /\ pc'[p] \in {"read", "waiting", "down"}
    BY <1>8, <1>a, ReturnedIs, GotoIs DEF CreateFails, ReadBlocked, LockTypeOK, Points
  <2>3. LockTypeOK' /\ Placed'
    BY <1>a, <2>1, <2>2 DEF LockTypeOK, Placed, At
  <2> QED BY <1>a, <1>b, <2>1, <2>2, <2>3
         DEF Placed, LockIsCared, OfDead, Unfilled, Held, Disowned, At
<1>9. ASSUME NEW p \in Processes, Fill(p) PROVE LockInv'
  <2>1. /\ pc[p] = "fill" /\ Returned(p, TRUE)
        /\ lock' = IF lock = Empty(p) THEN [lock EXCEPT !.full = TRUE] ELSE lock
        /\ UNCHANGED <<life, sessionNow, existing, stopped>>
    BY <1>9 DEF Fill, At
  <2>2. /\ pc' \in [Processes -> Points] /\ ownsLock' \in [Processes -> BOOLEAN]
        /\ sessionId' \in [Processes -> Sessions]
        /\ \A q \in Processes \ {p} : pc'[q] = pc[q] /\ sessionId'[q] = sessionId[q]
        /\ pc'[p] \in {"relread", "owning"}
    BY <1>a, <2>1, ReturnedIs
  <2>3. Placed'
    BY <1>a, <2>1, <2>2 DEF LockTypeOK, Placed, At
  <2>4. CASE lock = Empty(p)
    <3>1. lock' = [lock EXCEPT !.full = TRUE] /\ lock \in Locks /\ lock.pid = p
      BY <1>a, <2>1, <2>4, EmptyIs
    <3>2. lock' \in Locks /\ lock'.pid = p /\ lock'.full
      BY <3>1 DEF Locks
    <3> QED BY <1>a, <2>1, <2>2, <2>3, <3>2 DEF LockTypeOK, LockIsCared, Held
  <2>5. CASE lock # Empty(p)
    <3>1. lock' = lock
      BY <2>1, <2>5
    <3>2. ~ (lock # NoFile /\ lock.pid = p /\ ~ lock.full /\ lock.by = sessionId[p])
      BY <1>b, <2>5 DEF Locks, Empty
    <3>3. lock # NoFile => lock.pid # p
      BY <1>a, <2>1, <3>2 DEF Placed, LockIsCared, OfDead, Unfilled, Held, Disowned, At
    <3>4. LockTypeOK'
      BY <1>a, <2>1, <2>2, <3>1 DEF LockTypeOK
    <3> QED BY <1>a, <1>b, <2>1, <2>2, <2>3, <3>1, <3>3, <3>4
           DEF LockIsCared, OfDead, Unfilled, Held, Disowned, At
  <2> QED BY <2>4, <2>5
<1>10. ASSUME NEW p \in Processes, ReadMine(p) PROVE LockInv'
  <2>1. pc[p] = "read" /\ lock # NoFile /\ lock.full /\ life[p] = "up"
        /\ UNCHANGED <<lock, life, sessionNow, existing, stopped>>
    BY <1>10, <1>a DEF ReadMine, Readable, At, Placed
  <2>2. lock.pid # p
    BY <1>a, <2>1 DEF LockIsCared, OfDead, Unfilled, Held, Disowned, At
  <2>3. Goto(p, "reopen") /\ UNCHANGED <<sessionId, ownsLock>>
    BY <1>10, <2>2 DEF ReadMine
  <2> QED BY <1>a, <1>b, <2>1, <2>2, <2>3, GotoIs
         DEF LockTypeOK, Placed, LockIsCared, OfDead, Unfilled, Held, Disowned, At, Points
<1>11. ASSUME NEW p \in Processes, ReadStale(p) PROVE LockInv'
  <2>1. /\ At(p, "read") /\ Goto(p, "unlink")
        /\ existing' \in [Processes -> Locks \cup {NoFile}]
        /\ UNCHANGED <<lock, life, sessionNow, sessionId, ownsLock, stopped>>
    BY <1>11, <1>a, <1>b DEF ReadStale, LockTypeOK, Readable
  <2> QED BY <1>a, <1>b, <2>1, GotoIs
         DEF LockTypeOK, Placed, LockIsCared, OfDead, Unfilled, Held, Disowned, At, Points
<1>12. ASSUME NEW p \in Processes, UnlinkStale(p) \/ ReleaseUnlink(p) PROVE LockInv'
  <2>1. /\ lock' = NoFile /\ UNCHANGED <<life, sessionNow, sessionId, ownsLock, stopped>>
        /\ existing' \in [Processes -> Locks \cup {NoFile}]
        /\ \/ At(p, "unlink") /\ Goto(p, "recreate")
           \/ At(p, "relunlink") /\ Goto(p, "down")
    BY <1>12, <1>a DEF UnlinkStale, ReleaseUnlink, LockTypeOK
  <2> QED BY <1>a, <2>1, GotoIs DEF LockTypeOK, Placed, LockIsCared, At, Points
<1>13. ASSUME NEW p \in Processes, ReleaseRead(p) PROVE LockInv'
  <2>1. /\ pc[p] = "relread" /\ life[p] = "up"
        /\ UNCHANGED <<lock, life, sessionNow, sessionId, existing, ownsLock, stopped>>
    BY <1>13, <1>a DEF ReleaseRead, Placed, At
  <2>2. /\ pc' \in [Processes -> Points]
        /\ pc'[p] = IF Readable /\ IsMine(p) THEN "relunlink" ELSE "down"
        /\ \A q \in Processes \ {p} : pc'[q] = pc[q]
    BY <1>13, <1>a, GotoIs DEF ReleaseRead, Points
  <2>3. LockTypeOK' /\ Placed'
    BY <1>a, <2>1, <2>2 DEF LockTypeOK, Placed, At
  <2>4. lock # NoFile /\ lock.pid = p => lock.full
    BY <1>a, <2>1 DEF LockIsCared, OfDead, Unfilled, Held, Disowned, At
  <2> QED BY <1>a, <1>b, <2>1, <2>2, <2>3, <2>4
         DEF Readable, IsMine, LockIsCared, OfDead, Unfilled, Held, Disowned, At
<1>14. CASE UNCHANGED lockVars
  BY <1>14, <1>a DEF lockVars, LockTypeOK, Placed, LockIsCared, OfDead, Unfilled, Held,
                     Disowned, At
<1> QED BY <1>1, <1>2, <1>3, <1>4, <1>5, <1>6, <1>7, <1>8, <1>9, <1>10, <1>11, <1>12,
           <1>13, <1>14 DEF LockNext, Step

\* A scheduler that is stopped in order, in the session in which it took the lock,
\* gives the lock back: when all are down, a lock that is left is that of a process that
\* died, or that /clear or /resume had given another session before it released.
THEOREM LockIsSound == LockSpec => []LockSound
<1>1. LockInv => LockSound
  <2>1. ASSUME LockInv, lock # NoFile, AllDown
        PROVE  OfDead \/ sessionId[lock.pid] # lock.by
    <3>1. lock.pid \in Processes
      BY <2>1 DEF LockInv, LockTypeOK, Locks
    <3> QED BY <2>1, <3>1 DEF LockInv, LockIsCared, Unfilled, Held, Disowned, AllDown, At
  <2> QED BY <2>1 DEF LockInv, LockSound, NoLockLeft, OfDead
<1> QED BY LockInvInit, LockStep, <1>1, PTL DEF LockSpec
=============================================================================
