---------------------------- MODULE CommandQueue ----------------------------
(***************************************************************************)
(* How a prompt becomes a turn: the unified command queue                  *)
(* (utils/messageQueueManager.ts), the query guard (utils/QueryGuard.ts),  *)
(* the queue processor (utils/queueProcessor.ts, hooks/useQueueProcessor), *)
(* prompt submission (utils/handlePromptSubmit.ts) and the Escape handler  *)
(* (hooks/useCancelRequest.ts, onCancel of screens/REPL.tsx).              *)
(*                                                                         *)
(* Commands are submitted in the order 1..N, each of any of the Kinds. A   *)
(* slot is one call of executeUserInput, from the moment it takes its      *)
(* commands to its finally; a new call takes the least free one.           *)
(***************************************************************************)
EXTENDS Naturals, Sequences, FiniteSets

CONSTANTS
    N,          \* how many commands are submitted
    Kinds,      \* which kinds of command there may be
    MaxCalls,   \* bound: calls of executeUserInput alive at once
    MaxEscapes  \* bound: presses of Escape

AllKinds == {"prompt", "slash", "bash", "note", "meta", "agent", "mail"}

ASSUME NAssumption == N \in Nat
ASSUME KindsAssumption == Kinds \subseteq AllKinds
ASSUME MaxEscapesAssumption == MaxEscapes \in Nat
ASSUME MaxCallsAssumption == MaxCalls \in Nat

VARIABLES
    sent,       \* commands 1..sent have been submitted
    queue,      \* commandQueue
    status,     \* QueryGuard._status
    generation, \* QueryGuard._generation
    exec,       \* the calls of executeUserInput
    ctl,        \* REPL's abortController: the slot that created it
    due,        \* an effect of useQueueProcessor is to run
    jsx,        \* isShowingLocalJSXCommand
    agent,      \* the subagent's loop is alive
    escapes,    \* presses of Escape so far
    late,       \* history: an Escape hit a call still in processUserInput
    said,       \* history: how often command i entered a conversation or ran
    gone        \* history: why command i will not be said

vars == <<sent, queue, status, generation, exec, ctl, due, jsx, agent,
          escapes, late, said, gone>>

Commands == 1 .. N
Slots == 1 .. MaxCalls
None == 0   \* no controller
Entry == [id : Commands, kind : AllKinds]
Reasons == {"withdrawn", "failed", "purged", "overtaken"}

Call == [pc : {"free", "processing", "querying", "draining"},
         cmds : Seq(Entry), gen : Nat, aborted : BOOLEAN, snap : SUBSET Entry]

Free == [pc |-> "free", cmds |-> <<>>, gen |-> 0, aborted |-> FALSE,
         snap |-> {}]

TypeOK ==
    /\ sent \in 0 .. N
    /\ queue \in Seq(Entry)
    /\ status \in {"idle", "dispatching", "running"}
    /\ generation \in Nat
    /\ exec \in [Slots -> Call]
    /\ ctl \in Slots \cup {None}
    /\ {due, jsx, agent, late} \subseteq BOOLEAN
    /\ escapes \in 0 .. MaxEscapes
    /\ said \in [Commands -> Nat]
    /\ gone \in [Commands -> SUBSET Reasons]

Init ==
    /\ sent = 0
    /\ queue = <<>>
    /\ status = "idle"
    /\ generation = 0
    /\ exec = [s \in Slots |-> Free]
    /\ ctl = None
    /\ due = FALSE
    /\ jsx = FALSE
    /\ agent = TRUE
    /\ escapes = 0
    /\ late = FALSE
    /\ said = [i \in Commands |-> 0]
    /\ gone = [i \in Commands |-> {}]

-----------------------------------------------------------------------------
(* The queue. *)

Members(q) == {q[i] : i \in DOMAIN q}
Ids(S) == {x.id : x \in S}

\* cmd.agentId === undefined
IsMainThread(x) == x.kind # "agent"
\* QueuedCommand.mode
Mode(x) == CASE x.kind \in {"note", "agent"} -> "task-notification"
             [] x.kind = "bash" -> "bash"
             [] OTHER -> "prompt"
\* enqueue defaults to 'next' (1); notifications and scheduled prompts are
\* 'later' (2)
Priority(x) == IF x.kind \in {"note", "meta", "agent"} THEN 2 ELSE 1
IsEditable(x) == x.kind \in {"prompt", "slash", "bash"}
IsSystemGenerated(x) == x.kind \in {"note", "meta", "agent"}

\* peek(filter) and dequeue(filter): the first of the highest priority
\* Mutant of Candidates: no filter.
CandidatesAll(q) == DOMAIN q
Candidates(q) == {i \in DOMAIN q : IsMainThread(q[i])}
Best(q) == CHOOSE i \in Candidates(q) : \A j \in Candidates(q) :
               \/ Priority(q[i]) < Priority(q[j])
               \/ Priority(q[i]) = Priority(q[j]) /\ i <= j

\* dequeueAllMatching, remove: what is taken, and what stays, in order
Taken(q, S) ==
    LET upTo[n \in 0 .. Len(q)] ==
            IF n = 0 THEN <<>>
            ELSE IF q[n] \in S THEN Append(upTo[n - 1], q[n]) ELSE upTo[n - 1]
    IN  upTo[Len(q)]
\* Mutant of Left: the remaining commands are not put back.
LeftNone(q, S) == <<>>
Left(q, S) == Taken(q, Members(q) \ S)

\* The commands processQueueIfReady takes: one slash or bash command, or
\* every command of the mode of the first that is not a slash command.
BatchOf(q) ==
    LET next == q[Best(q)]
    IN  IF next.kind \in {"slash", "bash"} THEN {next}
        ELSE {x \in Members(q) : /\ IsMainThread(x)
                                 /\ x.kind # "slash"
                                 /\ Mode(x) = Mode(next)}

\* Mutant of Attachable: isForCurrentQueryThread is not asked.
AttachableAny(q, sleepRan, allowSystem) ==
    {x \in Members(q) : /\ Priority(x) <= (IF sleepRan THEN 2 ELSE 1)
                        /\ x.kind # "slash"
                        /\ Mode(x) # "bash"}

\* selectQueuedCommandsForQueryTurn for the main thread, then the modes that
\* getQueuedCommandAttachments turns into attachments
Attachable(q, sleepRan, allowSystem) ==
    {x \in Members(q) : /\ Priority(x) <= (IF sleepRan THEN 2 ELSE 1)
                        /\ x.kind # "slash"
                        /\ IsMainThread(x)
                        /\ sleepRan \/ allowSystem \/ ~IsSystemGenerated(x)
                        /\ Mode(x) # "bash"}

-----------------------------------------------------------------------------
(* The guard. *)

IsActive == status # "idle"
Reserved(st) == IF st = "idle" THEN "dispatching" ELSE st

\* Mutant of Cancelled: the finally does not release the reservation.
CancelledNot(st) == st
Cancelled(st) == IF st = "dispatching" THEN "idle" ELSE st

\* Mutant of Owns: end() does not compare the generations.
OwnsAny(s) == status = "running"
Owns(s) == status = "running" /\ exec[s].gen = generation

\* A subscriber of the queue or of the guard re-renders and its effect runs.
Notify == due' = (due \/ queue' # queue \/ IsActive # (status' # "idle"))

-----------------------------------------------------------------------------
(* Submission and the queue processor. *)

IsFree(s) == exec[s].pc = "free"
NextSlot(s) == IsFree(s) /\ \A t \in Slots : IsFree(t) => s <= t

\* executeUserInput up to its first await: a fresh controller, reserve().
Start(s, cmds) ==
    /\ NextSlot(s)
    /\ exec' = [exec EXCEPT ![s] = [Free EXCEPT !.pc = "processing",
                                                !.cmds = cmds]]
    /\ ctl' = s
    /\ status' = Reserved(status)

\* The user submits a prompt, a slash command or a bash command: it starts
\* at once, or waits in the queue while the guard is active.  Submitting
\* during a tool that may be interrupted aborts the turn.
Submit ==
    /\ sent < N
    /\ \E k \in Kinds \cap {"prompt", "slash", "bash"} :
       LET x == [id |-> sent + 1, kind |-> k]
       IN  /\ IF ~IsActive
              THEN /\ \E s \in Slots : Start(s, <<x>>)
                   /\ UNCHANGED queue
              ELSE /\ queue' = Append(queue, x)
                   /\ \/ UNCHANGED exec
                      \/ /\ ctl # None
                         /\ exec[ctl].pc = "querying"
                         /\ exec' = [exec EXCEPT ![ctl].aborted = TRUE]
                   /\ UNCHANGED <<ctl, status>>
    /\ sent' = sent + 1
    /\ UNCHANGED <<generation, jsx, agent, escapes, late, said, gone>>
    /\ Notify

\* enqueuePendingNotification: a task ended, or a scheduled task is due.
Notice ==
    /\ sent < N
    /\ \E k \in Kinds \cap {"note", "meta", "agent"} :
           queue' = Append(queue, [id |-> sent + 1, kind |-> k])
    /\ sent' = sent + 1
    /\ UNCHANGED <<status, generation, exec, ctl, jsx, agent, escapes,
                   late, said, gone>>
    /\ Notify

\* handleIncomingPrompt: a teammate's message becomes a turn of its own when
\* the guard is idle and no prompt or bash command waits.
Incoming ==
    /\ sent < N
    /\ "mail" \in Kinds
    /\ ~IsActive
    /\ \A x \in Members(queue) : Mode(x) = "task-notification"
    /\ \E s \in Slots :
           /\ NextSlot(s)
           /\ exec' = [exec EXCEPT ![s] =
                 [Free EXCEPT !.pc = "querying", !.gen = generation + 1,
                              !.cmds = <<[id |-> sent + 1, kind |-> "mail"]>>]]
           /\ ctl' = s
    /\ status' = "running"
    /\ generation' = generation + 1
    /\ sent' = sent + 1
    /\ said' = [said EXCEPT ![sent + 1] = @ + 1]
    /\ UNCHANGED <<queue, jsx, agent, escapes, late, gone>>
    /\ Notify

\* The effect of useQueueProcessor: processQueueIfReady, unless a query is
\* active or a local UI is shown.  It runs again only when one of its
\* dependencies changes.
Effect ==
    /\ due
    /\ IF IsActive \/ jsx \/ Candidates(queue) = {} \/ BatchOf(queue) = {}
       THEN /\ due' = FALSE
            /\ UNCHANGED <<queue, exec, ctl, status>>
       ELSE LET batch == BatchOf(queue)
            IN  /\ \E s \in Slots : Start(s, Taken(queue, batch))
                /\ queue' = Left(queue, batch)
                /\ due' = TRUE
    /\ UNCHANGED <<sent, generation, jsx, agent, escapes, late, said,
                   gone>>

-----------------------------------------------------------------------------
(* The rest of executeUserInput and of onQuery, after processUserInput. *)

Release(s) == exec' = [exec EXCEPT ![s] = [Free EXCEPT !.aborted = exec[s].aborted]]
SayAll(S) == said' = [i \in Commands |-> said[i] + (IF i \in S THEN 1 ELSE 0)]
GoneAll(S, why) ==
    gone' = [i \in Commands |-> gone[i] \cup (IF i \in S THEN {why} ELSE {})]

\* processUserInput threw: the finally releases the reservation; the
\* controller stays, the commands of the batch are not tried again.
Throws(s) ==
    /\ exec[s].pc = "processing"
    /\ Release(s)
    /\ status' = Cancelled(status)
    /\ GoneAll(Ids(Members(exec[s].cmds)), "failed")
    /\ UNCHANGED <<sent, queue, generation, ctl, jsx, agent, escapes,
                   late, said>>
    /\ Notify

\* A local slash command produced no message.
RunsLocally(s) ==
    /\ exec[s].pc = "processing"
    /\ exec[s].cmds[1].kind = "slash"
    /\ Release(s)
    /\ status' = Cancelled(status)
    /\ ctl' = None
    /\ SayAll(Ids(Members(exec[s].cmds)))
    /\ UNCHANGED <<sent, queue, generation, jsx, agent, escapes, late,
                   gone>>
    /\ Notify

\* onQuery finds a turn running: what is not meta is queued again, as prompts.
Overtaken(s) ==
    /\ exec[s].pc = "processing"
    /\ status = "running"
    /\ LET cmds == exec[s].cmds
           kept == Taken(cmds, {x \in Members(cmds) : x.kind # "meta"})
       IN  /\ queue' = queue \o [i \in DOMAIN kept |->
                                     [id |-> kept[i].id, kind |-> "prompt"]]
           /\ GoneAll({x.id : x \in {y \in Members(cmds) : y.kind = "meta"}},
                      "overtaken")
    /\ Release(s)
    /\ UNCHANGED <<sent, status, generation, ctl, jsx, agent, escapes,
                   late, said>>
    /\ Notify

\* onQuery takes the guard with tryStart and the model is asked.
Asks(s) ==
    /\ exec[s].pc = "processing"
    /\ status # "running"
    /\ exec[s].cmds[1].kind # "bash"
    /\ status' = "running"
    /\ generation' = generation + 1
    /\ exec' = [exec EXCEPT ![s].pc = "querying", ![s].gen = generation + 1]
    /\ SayAll(Ids(Members(exec[s].cmds)))
    /\ UNCHANGED <<sent, queue, ctl, jsx, agent, escapes, late, gone>>
    /\ Notify

\* onQuery takes the guard, shows the messages and ends: bash commands, slash
\* commands, prompts a hook blocks.
Shows(s) ==
    /\ exec[s].pc = "processing"
    /\ status # "running"
    /\ status' = "idle"
    /\ generation' = generation + 1
    /\ ctl' = None
    /\ Release(s)
    /\ SayAll(Ids(Members(exec[s].cmds)))
    /\ UNCHANGED <<sent, queue, jsx, agent, escapes, late, gone>>
    /\ Notify

\* The query loop, between two requests: the commands to attach are chosen...
DrainSelect(s) ==
    /\ exec[s].pc = "querying"
    /\ ~exec[s].aborted
    /\ \E sleepRan, allowSystem \in BOOLEAN :
           LET snap == Attachable(queue, sleepRan, allowSystem)
           IN  /\ snap # {}
               /\ exec' = [exec EXCEPT ![s].pc = "draining", ![s].snap = snap]
    /\ UNCHANGED <<sent, queue, status, generation, ctl, due, jsx, agent,
                   escapes, late, said, gone>>

\* ... and, the attachments being made, removed from the queue.
DrainRemove(s) ==
    /\ exec[s].pc = "draining"
    /\ queue' = Left(queue, exec[s].snap)
    /\ exec' = [exec EXCEPT ![s].pc = "querying", ![s].snap = {}]
    /\ SayAll(Ids(exec[s].snap))
    /\ UNCHANGED <<sent, status, generation, ctl, jsx, agent, escapes,
                   late, gone>>
    /\ Notify

\* The turn returned or threw: the finally of onQuery.
TurnEnds(s) ==
    /\ exec[s].pc = "querying"
    /\ Release(s)
    /\ IF Owns(s)
       THEN /\ status' = "idle"
            /\ ctl' = None
       ELSE UNCHANGED <<status, ctl>>
    /\ UNCHANGED <<sent, queue, generation, jsx, agent, escapes, late,
                   said, gone>>
    /\ Notify

-----------------------------------------------------------------------------
(* The user, the local UI and the subagent. *)

\* popAllEditable: the editable commands go back into the input.
PopAllEditable ==
    LET S == {x \in Members(queue) : IsEditable(x)}
    IN  /\ S # {}
        /\ queue' = Left(queue, S)
        /\ GoneAll(Ids(S), "withdrawn")

CanCancel == ctl # None /\ ~exec[ctl].aborted

\* handleCancel: the task of the controller first, else the queue.
Escape ==
    /\ escapes < MaxEscapes
    /\ ~jsx
    /\ escapes' = escapes + 1
    /\ IF CanCancel
       THEN /\ status' = "idle"
            /\ generation' = IF IsActive THEN generation + 1 ELSE generation
            /\ exec' = [exec EXCEPT ![ctl].aborted = TRUE]
            /\ ctl' = None
            /\ late' = (late \/ \E s \in Slots : exec[s].pc = "processing")
            /\ UNCHANGED <<queue, gone>>
       ELSE /\ PopAllEditable
            /\ UNCHANGED <<status, generation, exec, ctl, late>>
    /\ UNCHANGED <<sent, jsx, agent, said>>
    /\ Notify

\* Up in the prompt.
PopUp ==
    /\ PopAllEditable
    /\ UNCHANGED <<sent, status, generation, exec, ctl, jsx, agent,
                   escapes, late, said>>
    /\ Notify

\* A local UI opens (an immediate command, while a turn runs) and closes.
OpenUI ==
    /\ ~jsx
    /\ IsActive
    /\ sent < N
    /\ jsx' = TRUE
    /\ due' = TRUE
    /\ UNCHANGED <<sent, queue, status, generation, exec, ctl, agent,
                   escapes, late, said, gone>>

CloseUI ==
    /\ jsx
    /\ jsx' = FALSE
    /\ due' = TRUE
    /\ UNCHANGED <<sent, queue, status, generation, exec, ctl, agent,
                   escapes, late, said, gone>>

\* The subagent's own loop drains what is addressed to it.
AgentDrains ==
    /\ agent
    /\ LET S == {x \in Members(queue) : ~IsMainThread(x)}
       IN  /\ S # {}
           /\ queue' = Left(queue, S)
           /\ SayAll(Ids(S))
    /\ UNCHANGED <<sent, status, generation, exec, ctl, jsx, agent,
                   escapes, late, gone>>
    /\ Notify

\* killShellTasksForAgent, when the subagent ends.
AgentEnds ==
    /\ agent
    /\ agent' = FALSE
    /\ LET S == {x \in Members(queue) : ~IsMainThread(x)}
       IN  /\ queue' = Left(queue, S)
           /\ GoneAll(Ids(S), "purged")
    /\ UNCHANGED <<sent, status, generation, exec, ctl, jsx, escapes,
                   late, said>>
    /\ Notify

-----------------------------------------------------------------------------
Processed(s) == Throws(s) \/ RunsLocally(s) \/ Overtaken(s) \/ Asks(s)
                \/ Shows(s)

Next ==
    \/ Submit \/ Notice \/ Incoming \/ Effect
    \/ \E s \in Slots : Throws(s) \/ RunsLocally(s) \/ Overtaken(s) \/ Asks(s)
                        \/ Shows(s) \/ DrainSelect(s) \/ DrainRemove(s)
                        \/ TurnEnds(s)
    \/ Escape \/ PopUp \/ OpenUI \/ CloseUI \/ AgentDrains \/ AgentEnds

\* React runs a pending effect, input processing settles (its awaits are
\* bounded by the abort signal and by timeouts), a turn ends, a drain removes
\* what it selected and the user closes a local UI.
Fairness ==
    /\ WF_vars(Effect)
    /\ WF_vars(CloseUI)
    /\ \A s \in Slots : /\ WF_vars(Processed(s))
                        /\ WF_vars(DrainRemove(s))
                        /\ SF_vars(TurnEnds(s))

Spec == Init /\ [][Next]_vars /\ Fairness

-----------------------------------------------------------------------------
(* Properties. *)

Live(s) == exec[s].pc \in {"querying", "draining"}

\* The guard is never held by nobody: when it is running exactly one turn
\* holds its generation, whatever stale finally blocks are still to come, and
\* when it is dispatching some call is still to give the reservation back.
GuardHeld ==
    /\ status = "running" =>
           Cardinality({s \in Slots : Live(s) /\ exec[s].gen = generation}) = 1
    /\ status = "dispatching" => \E s \in Slots : exec[s].pc = "processing"

\* Unless an Escape hit a call that was still preparing its input, at most
\* one turn that nobody cancelled is alive, and Escape reaches it.
OneLiveTurn ==
    ~late => /\ \A s, t \in Slots :
                    /\ Live(s) /\ ~exec[s].aborted
                    /\ Live(t) /\ ~exec[t].aborted
                    => s = t
             /\ \A s \in Slots : Live(s) /\ ~exec[s].aborted => ctl = s

\* No command is forgotten: it waits in the queue, or a call holds it, or it
\* was said, withdrawn by the user, dropped with its agent, or its own input
\* processing failed.  A scheduled prompt is dropped because a turn is
\* already running only after an Escape hit a call preparing its input.
NothingForgotten ==
    \A i \in 1 .. sent :
        /\ \/ i \in Ids(Members(queue))
           \/ \E s \in Slots : /\ exec[s].pc = "processing"
                               /\ i \in Ids(Members(exec[s].cmds))
           \/ said[i] > 0
           \/ gone[i] # {}
        /\ "overtaken" \in gone[i] => late

\* What is addressed to a subagent never reaches the main conversation.
AgentsApart ==
    \A s \in Slots : \A x \in Members(exec[s].cmds) \cup exec[s].snap :
        x.kind # "agent"

\* The guard and the calls are sound: their types, who holds the guard, and no
\* call of the main thread holds what is a subagent's.
CallsSound == TypeOK /\ GuardHeld /\ AgentsApart

\* The queue never stalls: what waits for the main thread leaves the queue.
QueueMoves ==
    \A i \in Commands :
        (\E x \in Members(queue) : x.id = i /\ IsMainThread(x))
            ~> (\A x \in Members(queue) : x.id # i)

\* The claim of useCancelRequest.ts:95-96 that the user can always interrupt:
\* the turn that holds the guard is the one Escape reaches.  The code breaks
\* it when an Escape hit a call that was still preparing its input.
AlwaysInterruptible ==
    \A s \in Slots : Live(s) /\ Owns(s) /\ ~exec[s].aborted => ctl = s
=============================================================================
