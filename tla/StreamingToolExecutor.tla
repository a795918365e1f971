------------------------ MODULE StreamingToolExecutor ------------------------
(***************************************************************************)
(* The executor that runs the tool_use blocks of one model turn while the  *)
(* turn still streams (src/services/tools/StreamingToolExecutor.ts), with  *)
(* the part of the query loop that feeds it, polls it and drains it        *)
(* (src/query.ts).                                                         *)
(*                                                                         *)
(* Everything runs on one JavaScript thread.  A step below is the code     *)
(* between two suspension points (an await, a yield); steps of different   *)
(* suspended computations interleave:                                      *)
(*   - the query loop, at pc, holding at most one suspended generator      *)
(*     getCompletedResults (cursor, open, left);                           *)
(*   - every call of processQueue that is suspended in                     *)
(*     `await this.executeTool(tool)`; loops holds the position each will  *)
(*     go on from;                                                         *)
(*   - the `finally` callback of every settled tool (wake);                *)
(*   - the collectResults of every executing tool, at body[t].             *)
(*                                                                         *)
(* A message of a tool is abstracted to what the code tells apart: its     *)
(* progress messages are counted, its result is one of Results, its other  *)
(* messages (attachments of hooks) only matter as points where the abort   *)
(* state is looked at.                                                     *)
(***************************************************************************)
EXTENDS Integers, FiniteSets, Sequences

CONSTANTS MaxTools,     \* tool_use blocks of the turn
          Kinds,        \* what a block can be: records of AllKinds
          MaxProgress,  \* progress messages of one tool
          Events        \* the events of the environment that may happen

AllKinds == [gate: BOOLEAN,    \* refused by the batch gate, or an unknown tool
             safe: BOOLEAN,    \* isConcurrencySafe
             bash: BOOLEAN,    \* the tool is Bash
             stop: BOOLEAN]    \* interruptBehavior() = 'cancel'

AllEvents == {"interrupt", "cancel", "reject", "throw", "gate", "fallback"}

ASSUME MaxToolsAssumption == MaxTools \in Nat \ {0}
ASSUME KindsAssumption == Kinds \subseteq AllKinds
ASSUME MaxProgressAssumption == MaxProgress \in Nat
ASSUME EventsAssumption == Events \subseteq AllEvents

Ids == 1 .. MaxTools
Statuses == {"absent", "queued", "executing", "completed", "yielded"}
Bodies == {"idle", "running", "barred", "resulted", "closing", "settled"}
Synthetic == {"streaming_fallback", "sibling_error", "user_interrupted"}
Results == {"ok", "error", "cancelled", "exception", "refused"} \cup Synthetic
Phases == {"streaming", "polling", "head", "queue", "pass", "parked", "final",
           "finish", "settling", "done", "gated", "abandoned"}

VARIABLES
  kind,           \* the blocks of the stream, fixed
  added,          \* blocks handed to addTool so far
  late,           \* blocks received after an abort, never handed to addTool
  status,         \* TrackedTool.status ("absent": not in this.tools yet)
  body,           \* where collectResults of the tool stands
  results,        \* the tool_results in `messages`, then in tool.results
  progress,       \* Len(tool.pendingProgress)
  sent,           \* progress messages the tool has produced (bounded)
  hasErrored, discarded,
  parent,         \* toolUseContext.abortController: "none" or abort's reason
  inProgress,     \* the ids of setInProgressToolUseIDs
  interruptible,  \* the last value of setHasInterruptibleToolInProgress
  loops, wake,
  awaited,        \* position of the loop the drain awaits, 0: none
  pc,             \* the query loop
  cursor, open, left,  \* getCompletedResults: its tool, whether it is among
                       \* the tool's results, the results still to yield
  waitSet,        \* the promises Promise.race / allSettled was given
  emitted,        \* tool_results yielded to the query's consumer, per block
  collected       \* ids of the result list createMissing... is given

toolVars  == <<kind, status, body, results, progress, sent, inProgress, interruptible>>
loopVars  == <<loops, wake, awaited>>
execVars  == <<toolVars, loopVars, hasErrored, discarded>>
blockVars == <<parent, added, late>>
genVars   == <<cursor, open, left>>
listVars  == <<emitted, collected>>
queryVars == <<added, late, pc, genVars, waitSet, listVars>>
vars == <<execVars, queryVars, parent>>

-----------------------------------------------------------------------------
Executing(st) == {t \in Ids : st[t] = "executing"}
Blocks == 1 .. (added + late)

\* Mutant of CanExecute: the tools that run already are not looked at.
CanExecuteIfSafe(st, t) == Executing(st) = {} \/ kind[t].safe

\* canExecuteTool
CanExecute(st, t) ==
  \/ Executing(st) = {}
  \/ kind[t].safe /\ \A u \in Executing(st) : kind[u].safe

\* Mutant of Picked: an unsafe tool that has to wait does not stop the scan.
PickedNoStop(st, p) ==
  {t \in Ids : /\ t >= p /\ st[t] = "queued" /\ CanExecute(st, t)
               /\ \A u \in Ids : p <= u /\ u < t /\ st[u] = "queued" => ~CanExecute(st, u)}

\* The tool (if any) that processQueue, going on at position p, starts next:
\* a queued tool that cannot execute is skipped if it is safe and stops the
\* scan if it is not.
Picked(st, p) ==
  {t \in Ids : /\ t >= p
               /\ st[t] = "queued"
               /\ CanExecute(st, t)
               /\ \A u \in Ids : /\ p <= u /\ u < t /\ st[u] = "queued"
                                 => kind[u].safe /\ ~CanExecute(st, u)}

\* Mutant of AbortReason: the discard is forgotten.
AbortReasonNoDiscard(t) ==
  IF hasErrored THEN "sibling_error"
  ELSE IF parent = "interrupt" /\ ~kind[t].stop THEN "none"
  ELSE IF parent # "none" THEN "user_interrupted" ELSE "none"


\* getAbortReason
AbortReason(t) ==
  IF discarded THEN "streaming_fallback"
  ELSE IF hasErrored THEN "sibling_error"
  ELSE IF parent = "interrupt" /\ ~kind[t].stop THEN "none"
  ELSE IF parent # "none" THEN "user_interrupted"
  ELSE "none"

\* updateInterruptibleState
Interruptible(st) ==
  /\ Executing(st) # {}
  /\ \A t \in Executing(st) : kind[t].stop

\* Mutant of UpdateInterruptible: the update is missing.
UpdateNothing == UNCHANGED interruptible
UpdateInterruptible == interruptible' = Interruptible(status')

\* thisToolErrored
Errored(t) == \E i \in DOMAIN results[t] : results[t][i] \in {"error", "cancelled"}

\* Mutant of StartedAs: the controller of the tool has no parent.
StartedAlone == "running"

\* The controller of a started tool is a child of siblingAbortController, a
\* child of the query's: a tool for which an aborted query is no reason (a
\* blocking one after an interrupt) starts with a signal that is aborted
\* already, and runToolUse will not run it.
StartedAs == IF parent = "none" THEN "running" ELSE "barred"

\* executeTool up to its first suspension: the body starts, or a tool that is
\* already aborted gets its synthetic result without running.
ExecuteTool(t, st, ls, wk) ==
  LET reason == AbortReason(t) IN
  /\ status' = [st EXCEPT ![t] = IF reason = "none" THEN "executing" ELSE "completed"]
  /\ body' = [body EXCEPT ![t] = IF reason = "none" THEN StartedAs ELSE "settled"]
  /\ results' = IF reason = "none" THEN results
                ELSE [results EXCEPT ![t] = <<reason>>]
  /\ inProgress' = inProgress \cup {t}
  /\ UpdateInterruptible
  /\ loops' = ls \cup {t + 1}
  /\ wake' = IF reason = "none" THEN wk ELSE wk \cup {t}

\* processQueue from position p, until it suspends in executeTool or returns.
ProcessQueue(p, st, ls, wk) ==
  \/ /\ Picked(st, p) = {}
     /\ status' = st /\ loops' = ls /\ wake' = wk
     /\ UNCHANGED <<body, results, inProgress, interruptible>>
  \/ \E t \in Picked(st, p) : ExecuteTool(t, st, ls, wk)

\* Mutant of Awaiting: one position too far.
AwaitingNextButOne(p, st) ==
  IF Picked(st, p) = {} THEN 0 ELSE 2 + CHOOSE t \in Picked(st, p) : TRUE

\* A call whose awaiter (getRemainingResults, or nobody) is told where it is.
Awaiting(p, st) ==
  IF Picked(st, p) = {} THEN 0 ELSE 1 + CHOOSE t \in Picked(st, p) : TRUE

-----------------------------------------------------------------------------
(* processQueue: the suspended calls *)

\* A suspended processQueue goes on after `await this.executeTool(tool)`.
ResumeLoop(p) ==
  /\ p \in loops
  /\ ProcessQueue(p, status, loops \ {p}, wake)
  /\ IF awaited = p
       THEN /\ awaited' = Awaiting(p, status)
            /\ IF awaited' = 0
                 THEN pc' = "pass" /\ cursor' = 1
                 ELSE UNCHANGED <<pc, cursor>>
       ELSE UNCHANGED <<awaited, pc, cursor>>
  /\ UNCHANGED <<kind, progress, sent, hasErrored, discarded, blockVars,
                 open, left, waitSet, listVars>>

\* promise.finally(() => processQueue()) of a settled tool.
Wake(t) ==
  /\ t \in wake
  /\ ProcessQueue(1, status, loops, wake \ {t})
  /\ UNCHANGED <<kind, progress, sent, hasErrored, discarded, awaited, parent, queryVars>>

-----------------------------------------------------------------------------
(* collectResults of an executing tool *)

bodyUnchanged == <<kind, inProgress, discarded, loops, awaited, queryVars>>

\* tool.results = ..., tool.status = 'completed', the promise settles.
Complete(t, rs) ==
  /\ status' = [status EXCEPT ![t] = "completed"]
  /\ body' = [body EXCEPT ![t] = "settled"]
  /\ results' = [results EXCEPT ![t] = rs]
  /\ UpdateInterruptible
  /\ wake' = wake \cup {t}

NotAborted(t) == AbortReason(t) = "none" \/ Errored(t)

\* The loop body of `for await (const update of generator)` that finds the
\* tool aborted: a synthetic result is added to what the tool has produced
\* and the generator is closed (its return() is awaited).
ToolAborted(t) ==
  /\ body[t] \in {"running", "barred", "resulted"}
  /\ ~NotAborted(t)
  /\ results' = [results EXCEPT ![t] = Append(@, AbortReason(t))]
  /\ body' = [body EXCEPT ![t] = "closing"]
  /\ UNCHANGED <<bodyUnchanged, status, progress, sent, interruptible, hasErrored,
                 wake, parent>>

ToolProgress(t) ==
  /\ body[t] \in {"running", "resulted"} /\ NotAborted(t)
  /\ sent[t] < MaxProgress
  /\ sent' = [sent EXCEPT ![t] = @ + 1]
  /\ progress' = [progress EXCEPT ![t] = @ + 1]
  /\ UNCHANGED <<bodyUnchanged, status, body, results, interruptible, hasErrored,
                 wake, parent>>

\* runToolUse yields one tool_result; an error of Bash cancels the siblings.
ToolResult(t, r) ==
  /\ body[t] = "running" /\ NotAborted(t)
  /\ results' = [results EXCEPT ![t] = Append(@, r)]
  /\ body' = [body EXCEPT ![t] = "resulted"]
  /\ hasErrored' = (hasErrored \/ (r = "error" /\ kind[t].bash))
  /\ UNCHANGED <<bodyUnchanged, status, progress, sent, interruptible, wake, parent>>

\* runToolUse finds the tool's own signal aborted (or refuses the tool before
\* it looks): one error result, and nothing has run.
BarredResult(t, r) ==
  /\ body[t] = "barred" /\ NotAborted(t)
  /\ results' = [results EXCEPT ![t] = Append(@, r)]
  /\ body' = [body EXCEPT ![t] = "closing"]
  /\ hasErrored' = (hasErrored \/ kind[t].bash)
  /\ UNCHANGED <<bodyUnchanged, status, progress, sent, interruptible, wake, parent>>

\* The generator is exhausted, or its return() has settled after a break.
ToolEnd(t) ==
  /\ body[t] \in {"resulted", "closing"}
  /\ Complete(t, results[t])
  /\ UNCHANGED <<bodyUnchanged, progress, sent, hasErrored, parent>>

\* collectResults().catch(...): the results are replaced by one error.
ToolThrow(t) ==
  /\ "throw" \in Events
  /\ body[t] \in {"running", "barred", "resulted", "closing"}
  /\ Complete(t, <<"exception">>)
  /\ UNCHANGED <<bodyUnchanged, progress, sent, hasErrored, parent>>

\* The user rejects the tool's permission dialog: the tool's own controller is
\* aborted, and its listener aborts the query's.  The tool's controller is
\* already aborted if any of the others is.
PermissionReject(t) ==
  /\ "reject" \in Events
  /\ body[t] = "running"
  /\ parent = "none" /\ ~hasErrored /\ ~discarded
  /\ parent' = "cancel"
  /\ UNCHANGED <<execVars, queryVars>>

ToolStep(t) ==
  \/ ToolAborted(t) \/ ToolProgress(t)
  \/ \E r \in {"ok", "error"} : ToolResult(t, r)
  \/ \E r \in {"cancelled", "error"} : BarredResult(t, r)
  \/ ToolEnd(t) \/ ToolThrow(t)

-----------------------------------------------------------------------------
(* The query loop and getCompletedResults *)

\* An assistant message with the next block arrives.  addTool either refuses
\* the block with a result of its own or queues it and calls processQueue.
AddTool ==
  LET t == added + 1 IN
  /\ pc = "streaming" /\ parent = "none" /\ t + late <= MaxTools
  /\ added' = t
  /\ IF kind[t].gate
       THEN /\ status' = [status EXCEPT ![t] = "completed"]
            /\ body' = [body EXCEPT ![t] = "settled"]
            /\ results' = [results EXCEPT ![t] = <<"refused">>]
            /\ UNCHANGED <<inProgress, interruptible, loops, wake>>
       ELSE ProcessQueue(1, [status EXCEPT ![t] = "queued"], loops, wake)
  /\ UNCHANGED <<kind, progress, sent, hasErrored, discarded, awaited, parent, late, pc,
                 genVars, waitSet, listVars>>

\* A block that arrives after the turn was aborted: toolUseBlocks only.
LateBlock ==
  /\ pc = "streaming" /\ parent # "none" /\ added + late < MaxTools
  /\ late' = late + 1
  /\ UNCHANGED <<execVars, parent, added, pc, genVars, waitSet, listVars>>

\* After every message of the stream: for (... of getCompletedResults()).
Poll ==
  /\ pc = "streaming" /\ parent = "none"
  /\ pc' = "polling" /\ cursor' = 1
  /\ UNCHANGED <<execVars, blockVars, open, left, waitSet, listVars>>

\* The tools at which getCompletedResults does something.
Stops(t) ==
  \/ progress[t] > 0
  \/ status[t] = "completed"
  \/ status[t] = "executing" /\ ~kind[t].safe
NextStop(c) == {t \in Ids : t >= c /\ Stops(t) /\ \A u \in Ids : u >= c /\ Stops(u) => t <= u}
From == IF open THEN cursor + 1 ELSE cursor

\* markToolUseAsComplete once the last result of the tool was taken.
MarkComplete == inProgress' = IF open THEN inProgress \ {cursor} ELSE inProgress

passUnchanged == <<kind, body, results, sent, interruptible, hasErrored, discarded,
                   loopVars, blockVars>>

\* Another of the current tool's results.
YieldResult ==
  /\ cursor # 0 /\ left # <<>>
  /\ left' = Tail(left)
  /\ emitted' = [emitted EXCEPT ![cursor] = @ + 1]
  /\ collected' = collected \cup {cursor}
  /\ UNCHANGED <<passUnchanged, status, progress, inProgress, pc, cursor, open, waitSet>>

YieldProgress ==
  /\ cursor # 0 /\ left = <<>>
  /\ MarkComplete
  /\ \E t \in NextStop(From) :
       /\ progress[t] > 0
       /\ progress' = [progress EXCEPT ![t] = @ - 1]
       /\ cursor' = t /\ open' = FALSE
  /\ UNCHANGED <<passUnchanged, status, left, pc, waitSet, listVars>>

Deliverable(t) == progress[t] = 0 /\ status[t] = "completed"

\* A completed tool is yielded: its status first, then its results.
YieldTool ==
  /\ cursor # 0 /\ left = <<>>
  /\ MarkComplete
  /\ \E t \in NextStop(From) :
       /\ Deliverable(t)
       /\ status' = [status EXCEPT ![t] = "yielded"]
       /\ cursor' = t /\ open' = TRUE /\ left' = Tail(results[t])
       /\ emitted' = [emitted EXCEPT ![t] = @ + 1]
       /\ collected' = collected \cup {t}
  /\ UNCHANGED <<passUnchanged, progress, pc, waitSet>>

\* getRemainingResults waits only if nothing can be yielded.
MustPark == /\ Executing(status) # {}
            /\ \A t \in Ids : status[t] # "completed" /\ progress[t] = 0

\* The generator ends (at the end, or at an executing unsafe tool), and the
\* loop that consumes it goes on.
PassEnd ==
  /\ cursor # 0 /\ left = <<>>
  /\ MarkComplete
  /\ \A t \in NextStop(From) : progress[t] = 0 /\ status[t] = "executing"
  /\ cursor' = 0 /\ open' = FALSE
  /\ pc' = CASE pc = "polling" -> "streaming"
             [] pc = "pass" -> (IF MustPark THEN "parked" ELSE "head")
             [] pc = "final" -> "finish"
  /\ waitSet' = IF pc' = "parked" THEN Executing(status) ELSE waitSet
  /\ UNCHANGED <<passUnchanged, status, progress, left, listVars>>

\* getRemainingResults: while (hasUnfinishedTools()) await processQueue() ...
DrainHead ==
  /\ pc = "head"
  /\ \E t \in Ids : status[t] \notin {"absent", "yielded"}
  /\ ProcessQueue(1, status, loops, wake)
  /\ awaited' = Awaiting(1, status)
  /\ IF awaited' = 0 THEN pc' = "pass" /\ cursor' = 1
                     ELSE pc' = "queue" /\ UNCHANGED cursor
  /\ UNCHANGED <<kind, progress, sent, hasErrored, discarded, blockVars, open,
                 left, waitSet, listVars>>

\* ... and one more getCompletedResults after the loop.
DrainLast ==
  /\ pc = "head"
  /\ \A t \in Ids : status[t] \in {"absent", "yielded"}
  /\ pc' = "final" /\ cursor' = 1
  /\ UNCHANGED <<execVars, blockVars, open, left, waitSet, listVars>>

\* Mutant of RaceWon: only progress is raced.
ProgressWon == \E t \in Ids : progress[t] > 0
RaceWon == \/ \E t \in waitSet : status[t] # "executing"
           \/ \E t \in Ids : progress[t] > 0

\* Promise.race of the tools that were executing and of the next progress.
Unpark ==
  /\ pc = "parked"
  /\ RaceWon
  /\ pc' = "head" /\ waitSet' = {}
  /\ UNCHANGED <<execVars, blockVars, genVars, listVars>>

\* The stream ends.  After an abort the results yielded so far are not in the
\* list that createMissingToolResultMessagesForBatch is given.
EndStream ==
  /\ pc = "streaming"
  /\ pc' = IF Blocks = {} /\ parent = "none" THEN "done" ELSE "head"
  /\ collected' = IF parent = "none" THEN collected ELSE {}
  /\ UNCHANGED <<execVars, blockVars, genVars, waitSet, emitted>>

Missing == Blocks \ collected

\* A result for every block of the turn that has none in the list.
Finish ==
  /\ pc = "finish"
  /\ emitted' = [b \in Ids |-> IF b \in Missing THEN emitted[b] + 1 ELSE emitted[b]]
  /\ pc' = "done"
  /\ UNCHANGED <<execVars, blockVars, genVars, waitSet, collected>>

\* A gate of the query loop refuses the whole turn: discardAndSettle().
GateTurn ==
  /\ "gate" \in Events
  /\ pc = "streaming" /\ parent = "none" /\ Blocks # {}
  /\ discarded' = TRUE
  /\ waitSet' = Executing(status)
  /\ pc' = "settling"
  /\ UNCHANGED <<toolVars, loopVars, hasErrored, blockVars, genVars, listVars>>

AllSettled == \A t \in waitSet : status[t] # "executing"

\* Promise.allSettled; then one blocked result for every block of the turn.
Settle ==
  /\ pc = "settling"
  /\ AllSettled
  /\ pc' = "gated" /\ waitSet' = {}
  /\ emitted' = [b \in Ids |-> IF b \in Blocks THEN emitted[b] + 1 ELSE emitted[b]]
  /\ UNCHANGED <<execVars, blockVars, genVars, collected>>

\* The stream falls back to another attempt: discard(), and the loop goes on
\* with a new executor and empty lists.
Fallback ==
  /\ "fallback" \in Events
  /\ pc = "streaming"
  /\ discarded' = TRUE
  /\ pc' = "abandoned"
  /\ collected' = {}
  /\ UNCHANGED <<toolVars, loopVars, hasErrored, blockVars, genVars, waitSet, emitted>>

-----------------------------------------------------------------------------
(* The user *)

Running == pc \notin {"done", "gated", "abandoned"}

\* A prompt submitted while only interruptible tools run (handlePromptSubmit).
Interrupt ==
  /\ "interrupt" \in Events /\ Running
  /\ parent = "none" /\ interruptible
  /\ parent' = "interrupt"
  /\ UNCHANGED <<execVars, queryVars>>

Cancel ==
  /\ "cancel" \in Events /\ Running
  /\ parent = "none"
  /\ parent' = "cancel"
  /\ UNCHANGED <<execVars, queryVars>>

\* The turn is over and every callback has run.
Idle == loops = {} /\ wake = {} /\ cursor = 0
Over == /\ ~Running /\ Idle /\ Executing(status) = {}
        /\ UNCHANGED vars

-----------------------------------------------------------------------------
Init ==
  /\ kind \in [Ids -> Kinds]
  /\ added = 0 /\ late = 0
  /\ status = [t \in Ids |-> "absent"]
  /\ body = [t \in Ids |-> "idle"]
  /\ results = [t \in Ids |-> <<>>]
  /\ progress = [t \in Ids |-> 0] /\ sent = [t \in Ids |-> 0]
  /\ hasErrored = FALSE /\ discarded = FALSE /\ parent = "none"
  /\ inProgress = {} /\ interruptible = FALSE
  /\ loops = {} /\ wake = {} /\ awaited = 0
  /\ pc = "streaming" /\ cursor = 0 /\ open = FALSE /\ left = <<>>
  /\ waitSet = {} /\ emitted = [t \in Ids |-> 0] /\ collected = {}

Pass == YieldResult \/ YieldProgress \/ YieldTool \/ PassEnd
Drain == DrainHead \/ DrainLast \/ Unpark \/ Finish \/ Settle

Next ==
  \/ AddTool \/ LateBlock \/ Poll \/ EndStream \/ GateTurn \/ Fallback
  \/ Pass \/ Drain
  \/ \E p \in 2 .. MaxTools + 1 : ResumeLoop(p)
  \/ \E t \in Ids : Wake(t) \/ ToolStep(t) \/ PermissionReject(t)
  \/ Interrupt \/ Cancel \/ Over

Spec == Init /\ [][Next]_vars

\* The microtask queue is served before any I/O: a tool is only sure to get
\* its next step while no suspended computation is ready and the query loop
\* itself waits.  Every tool is assumed to end.
ThreadFree == Idle /\ pc \in {"streaming", "parked", "settling", "done", "gated", "abandoned"}

Fairness ==
  /\ WF_vars(Pass) /\ WF_vars(Drain)
  /\ \A p \in 2 .. MaxTools + 1 : WF_vars(ResumeLoop(p))
  /\ \A t \in Ids : WF_vars(Wake(t)) /\ WF_vars(ThreadFree /\ ToolStep(t))

FairSpec == Spec /\ Fairness

-----------------------------------------------------------------------------
(* Properties *)

ToolTypes ==
  /\ kind \in [Ids -> Kinds]
  /\ status \in [Ids -> Statuses]
  /\ body \in [Ids -> Bodies]
  /\ results \in [Ids -> Seq(Results)]
  /\ progress \in [Ids -> Nat] /\ sent \in [Ids -> Nat]
  /\ inProgress \subseteq Ids
  /\ loops \subseteq 2 .. MaxTools + 1 /\ wake \subseteq Ids
FlagTypes ==
  /\ hasErrored \in BOOLEAN /\ discarded \in BOOLEAN
  /\ interruptible \in BOOLEAN /\ open \in BOOLEAN
  /\ parent \in {"none", "interrupt", "cancel"}
QueryTypes ==
  /\ added \in 0 .. MaxTools /\ late \in 0 .. MaxTools
  /\ awaited \in 0 .. MaxTools + 1
  /\ pc \in Phases
  /\ cursor \in 0 .. MaxTools
  /\ left \in Seq(Results)
  /\ waitSet \subseteq Ids
  /\ emitted \in [Ids -> Nat]
  /\ collected \subseteq Ids

\* Types of all variables; positions and counters stay within their bounds.
TypeOK == ToolTypes /\ FlagTypes /\ QueryTypes

\* "Non-concurrent tools must execute alone": while an unsafe tool executes no
\* other tool does, whatever the suspended calls of processQueue do.
ExclusiveAccess ==
  \A t, u \in Executing(status) : t # u => kind[t].safe /\ kind[u].safe

\* Tools start in the order of the stream: no tool that went through the queue
\* has started while an earlier one is still queued, and no suspended
\* processQueue has left a queued tool behind its position.
StartOrder ==
  \A t, u \in Ids :
    t < u /\ status[t] = "queued" => body[u] = "idle" \/ kind[u].gate

\* Tools run one at a time or as the stream and their kinds allow, and in the
\* order of the stream.
RunsInOrder == ExclusiveAccess /\ StartOrder

\* An unsafe tool that runs sees every earlier tool finished.
UnsafeSeesEarlier ==
  \A t, u \in Ids :
    t < u /\ status[u] = "executing" /\ ~kind[u].safe
      => status[t] \in {"completed", "yielded"}

\* The flag the prompt handler reads to decide on an interrupt is never stale:
\* it says whether the tools executing right now can all be cancelled.
InterruptibleIsCurrent == interruptible = Interruptible(status)

\* An interrupt by a new prompt never hits a tool that blocks interrupts while
\* it works: none is at work once the interrupt has come (one that was queued
\* is started and refused without running), and the executor itself reports
\* none as interrupted.
InterruptSparesRunning ==
  parent = "interrupt" =>
    \A t \in Ids : ~kind[t].stop =>
      /\ body[t] \notin {"running", "resulted"}
      /\ \A i \in DOMAIN results[t] : results[t][i] # "user_interrupted"

\* A tool that failed, or was refused because its signal was aborted, keeps that
\* result alone and is never also reported as cancelled by its sibling's error;
\* and the siblings are only cancelled because some Bash call had an error.
SiblingErrorBlame ==
  /\ \A t \in Ids : Errored(t) => Len(results[t]) = 1
  /\ (\E t \in Ids : \E i \in DOMAIN results[t] : results[t][i] = "sibling_error")
       => hasErrored

\* The spinner of a tool is on exactly from its start until its last result
\* has been taken.
InProgressIsCurrent ==
  \A t \in Ids :
    t \in inProgress <=>
      /\ ~kind[t].gate /\ body[t] # "idle"
      /\ status[t] = "yielded" => open /\ cursor = t

\* No progress message is lost: a yielded tool has none left.
ProgressDelivered == \A t \in Ids : status[t] = "yielded" => progress[t] = 0

\* No tool_use is left without a tool_result when the turn ends, also for
\* blocks that arrived after an abort or were refused.
NoOrphanToolUse ==
  pc \in {"done", "gated"} => \A b \in Blocks : emitted[b] >= 1

\* The results tell what happened to each tool, whatever ended it, and none is
\* left without one.
ResultsSound == InterruptSparesRunning /\ SiblingErrorBlame /\ NoOrphanToolUse

\* When a gate has refused the turn and discardAndSettle has returned, no tool
\* of the turn runs and none starts to (the read cache is cleared next).
SettledMeansQuiet == pc = "gated" => Executing(status) = {}

\* What others see of the executor is current: the interrupt flag, the spinner,
\* the progress messages, and the rest that a gated turn waits for.
ObserversAreCurrent ==
  /\ InterruptibleIsCurrent /\ InProgressIsCurrent
  /\ ProgressDelivered /\ SettledMeansQuiet

\* After discard() no queued tool runs.
DiscardStopsQueue ==
  [][\A t \in Ids : discarded /\ body[t] = "idle" => body'[t] \in {"idle", "settled"}]_vars

\* An unsafe tool is a barrier for what is yielded: no later tool is yielded
\* before it is, as long as no block up to that one was refused (the result of a
\* refused block does not wait for the queue).
UnsafeIsBarrier ==
  [][\A t, u \in Ids :
       /\ t < u /\ status[t] # "absent" /\ ~kind[t].safe
       /\ \A b \in 1 .. u : ~kind[b].gate
       /\ status[u] # "yielded" /\ status'[u] = "yielded"
       => status[t] = "yielded"]_vars

\* The drain of a turn ends once every tool does: no wake-up is missed and the
\* loop never spins.
DrainEnds == pc = "head" ~> pc = "done"
\* ... and so does discardAndSettle.
SettleEnds == pc = "settling" ~> pc = "gated"
\* No wait of the query loop on the executor lasts for ever.
WaitsEnd == DrainEnds /\ SettleEnds

\* "Results are buffered and emitted in the order tools were received".
ResultsInOrder ==
  [][\A t, u \in Ids :
       /\ t < u /\ status[t] # "absent"
       /\ status[u] # "yielded" /\ status'[u] = "yielded"
       => status[t] = "yielded"]_vars

\* "'block' tools shouldn't reach here (abort isn't fired)": an interrupt leaves
\* every tool that blocks interrupts its own result, the queued ones too.
InterruptSparesBlocking ==
  \A t \in Ids : parent = "interrupt" /\ ~kind[t].stop =>
    \A i \in DOMAIN results[t] : results[t][i] \notin {"user_interrupted", "cancelled"}

\* The synthesized result claims "tool execution completed without" a result:
\* it is only given to a tool that has yielded none.
MissingMeansMissing ==
  [][pc = "finish" => \A b \in Ids : emitted'[b] > emitted[b] => emitted[b] = 0]_vars
=============================================================================
