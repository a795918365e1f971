----------------------------- MODULE QueryLoop -----------------------------
(***************************************************************************)
(* The loop of query.ts that answers one prompt: it compacts the           *)
(* conversation when it is long, calls the model, recovers from the errors *)
(* it withheld from the user, runs the stop hooks and the final gates on   *)
(* an answer without tool uses, runs the tools of an answer with tool      *)
(* uses, and goes round again.  Its state between two iterations is the    *)
(* record State of query.ts; every continue site writes the whole of it.   *)
(*                                                                         *)
(* The model, the hooks and the gates answer what they like, as often as   *)
(* they like when it is an error, and at most Answers times when it is a   *)
(* real answer; the user may abort at any moment.                          *)
(***************************************************************************)
EXTENDS Naturals

CONSTANTS MaxTurns,        \* params.maxTurns, 0 when there is no limit
          RecoveryLimit,   \* MAX_OUTPUT_TOKENS_RECOVERY_LIMIT
          FailureLimit,    \* MAX_CONSECUTIVE_AUTOCOMPACT_FAILURES
          Answers          \* bound: real answers that do not end the loop

ASSUME LoopConstants ==
    /\ MaxTurns \in Nat
    /\ RecoveryLimit \in Nat
    /\ FailureLimit \in Nat \ {0}
    /\ Answers \in Nat

VARIABLES config,       \* what the build and the settings enable
          reactiveOn,   \* isReactiveCompactEnabled(), which may flip
          aborted,      \* toolUseContext.abortController.signal.aborted
          pc,           \* where the iteration is
          state,        \* the State of the loop, as the last continue left it
          tracking,     \* the consecutive failures of autocompact, as the
                        \* iteration knows them
          messages,     \* what the gates look for in messagesForQuery
          media,        \* mediaRecoveryEnabled, read once per iteration
          reply,        \* what the model answered in this iteration
          withheld,     \* the reply ends in an error the user was not shown
          reason,       \* the reason of the Terminal
          answers       \* real answers left before the model must conclude

\* History, for the properties only: reactive compactions and escalations since
\* work last progressed, failures of autocompact in a row, batches of tools that
\* the gates let through, whether tools ran in a turn beyond the limit, whether
\* the conversation lost the marker, calls started after the abort.
VARIABLES compacts, escalations, failures, batches, overrun, forgot, lateCalls

seen == <<compacts, escalations, failures, batches, overrun, forgot, lateCalls>>

vars == <<config, reactiveOn, aborted, pc, state, tracking, messages, media,
          reply, withheld, reason, answers, seen>>

environment == <<config, reactiveOn>>

\* Replies: a final text, tool uses, tool uses cut short by the output limit
\* (the error message follows them), the errors the loop recovers from, and
\* any other API error.
Errors == {"too_long", "media", "cut", "api_error"}
ToolReplies == {"tools", "tools_cut"}
Replies == {"final"} \union ToolReplies \union Errors

Reasons == {"none", "blocking_limit", "image_error", "model_error",
            "aborted_streaming", "prompt_too_long", "completed",
            "stop_hook_prevented", "aborted_tools", "hook_stopped", "max_turns"}

AtMost(n, limit) == IF n > limit THEN limit ELSE n

\* The State of query.ts, and what the gates look for in a conversation: results
\* of tools, and the marker that reserves the last turn for the answer.
States == [turnCount : Nat \ {0}, recoveries : 0 .. RecoveryLimit,
           attempted : BOOLEAN, override : BOOLEAN, tracking : Nat]

Conversations == [evidence : BOOLEAN, marker : BOOLEAN]

\* The features of the build and the settings; streaming is
\* config.gates.streamingToolExecution.
Configs == [reactive : BOOLEAN, collapse : BOOLEAN, auto : BOOLEAN,
            escalate : BOOLEAN, budget : BOOLEAN, streaming : BOOLEAN]

TypeOK ==
    /\ config \in Configs
    /\ reactiveOn \in BOOLEAN /\ aborted \in BOOLEAN
    /\ pc \in {"top", "call", "streamed", "hooks", "tools", "drain", "done"}
    /\ state \in States
    /\ tracking \in Nat
    /\ messages \in Conversations
    /\ media \in BOOLEAN
    /\ reply \in Replies \union {"none"}
    /\ withheld \in BOOLEAN
    /\ reason \in Reasons /\ (pc = "done" <=> reason # "none")
    /\ answers \in 0 .. Answers
    /\ compacts \in 0 .. 2 /\ escalations \in 0 .. 2 /\ lateCalls \in 0 .. 2
    /\ failures \in Nat /\ batches \in Nat
    /\ overrun \in BOOLEAN /\ forgot \in BOOLEAN

\* Every continue site writes the whole State.
StateOf(turnCount, recoveries, attempted, override, failed) ==
    [turnCount |-> turnCount, recoveries |-> recoveries, attempted |-> attempted,
     override |-> override, tracking |-> failed]

\* The first iteration: the defaults of State, with or without an override of
\* the output limit from the caller.  A resumed conversation already holds
\* results of tools.
Init ==
    /\ config \in Configs
    /\ reactiveOn \in BOOLEAN
    /\ aborted = FALSE
    /\ pc = "top"
    /\ \E given \in BOOLEAN : state = StateOf(1, 0, FALSE, given, 0)
    /\ tracking = 0
    /\ \E found \in BOOLEAN : messages = [evidence |-> found, marker |-> FALSE]
    /\ media = FALSE
    /\ reply = "none"
    /\ withheld = FALSE
    /\ reason = "none"
    /\ answers = Answers
    /\ compacts = 0 /\ escalations = 0 /\ failures = 0
    /\ batches = 0 /\ overrun = FALSE /\ forgot = FALSE /\ lateCalls = 0

-----------------------------------------------------------------------------
(* How an iteration ends *)

Return(why) ==
    /\ pc' = "done"
    /\ reason' = why

\* A continue site: the state of the next iteration, whose own variables start
\* afresh.
GoOn(next) ==
    /\ state' = next
    /\ pc' = "top"
    /\ tracking' = 0
    /\ media' = FALSE
    /\ reply' = "none"
    /\ withheld' = FALSE
    /\ UNCHANGED reason

\* What every continue site but the ones that recover from an error writes:
\* the recoveries start again, the guard of the reactive compaction stays.
Nudged == StateOf(state.turnCount, 0, state.attempted, FALSE, tracking)

\* What the sites that start a new stretch of work write; the history of the
\* recoveries starts again with it.
Progressed(turn) == StateOf(turn, 0, FALSE, FALSE, tracking)

NewStretch ==
    /\ compacts' = 0 /\ escalations' = 0
    /\ UNCHANGED <<failures, batches, overrun, forgot, lateCalls>>

\* What a summary leaves of the conversation: the messages it keeps verbatim
\* may hold results of tools and the marker of the final synthesis, or not.
Summaries == {m \in Conversations : m.marker => messages.marker}

\* What buildDsxuLatestUserIntentContextView leaves of it: when the last prompt
\* stops the work or asks about something else, only that prompt, which is a
\* result of a tool where these are not told from prompts.
Views(m) == {m} \union [evidence : {FALSE, m.evidence}, marker : {FALSE}]

Forgets(m) == messages.marker /\ ~m.marker

-----------------------------------------------------------------------------
(* Before the call *)

\* The call to the model starts.  mediaRecoveryEnabled is read here, once.
StartCall ==
    /\ pc' = "call"
    /\ media' = (config.reactive /\ reactiveOn)
    /\ lateCalls' = IF aborted THEN AtMost(lateCalls + 1, 2) ELSE lateCalls
    /\ UNCHANGED <<reason, compacts, escalations, batches, overrun>>

\* The conversation is at the limit and nobody will shorten it.
Blocked ==
    /\ ~(config.reactive /\ reactiveOn /\ config.auto)
    /\ Return("blocking_limit")
    /\ UNCHANGED <<media, compacts, escalations, batches, overrun, lateCalls>>

\* The view of the conversation that the call and the gates after it get.
TakeView ==
    /\ messages' \in Views(messages)
    /\ forgot' = (forgot \/ Forgets(messages'))

\* The conversation is short enough, automatic compaction is off, or its
\* circuit breaker is open.
Proceed ==
    /\ pc = "top"
    /\ tracking' = state.tracking
    /\ TakeView
    /\ UNCHANGED <<environment, aborted, state, reply, withheld, answers, failures>>
    /\ StartCall \/ Blocked

\* The circuit breaker of autoCompactIfNeeded.
MayCompact == config.auto /\ state.tracking < FailureLimit

\* The view of a summary is one of the summaries.
Autocompact ==
    /\ pc = "top"
    /\ MayCompact
    /\ messages' \in Summaries
    /\ tracking' = 0
    /\ failures' = 0
    /\ forgot' = (forgot \/ Forgets(messages'))
    /\ UNCHANGED <<environment, aborted, state, reply, withheld, answers>>
    /\ StartCall

AutocompactFails ==
    /\ pc = "top"
    /\ MayCompact
    /\ tracking' = state.tracking + 1
    /\ failures' = failures + 1
    /\ TakeView
    /\ UNCHANGED <<environment, aborted, state, reply, withheld, answers>>
    /\ StartCall \/ Blocked

-----------------------------------------------------------------------------
(* The call and its answer *)

\* Which errors the streaming loop keeps from the user.
Withholds(r) ==
    \/ r = "too_long" /\ config.reactive
    \/ r = "media" /\ media
    \/ r \in {"cut", "tools_cut"}

PastLimit == MaxTurns > 0 /\ state.turnCount > MaxTurns

\* A real answer is a step towards the end; errors come as often as they like.
\* With streaming execution its tools have run, or begun to, when it is complete
\* and no gate has seen it.
Reply ==
    /\ pc = "call"
    /\ \E r \in Replies :
          /\ r \in ToolReplies => answers > 0
          /\ reply' = r
          /\ withheld' = Withholds(r)
          /\ answers' = IF r \in Errors \/ answers = 0 THEN answers ELSE answers - 1
          /\ overrun' = (overrun \/ (r \in ToolReplies /\ config.streaming /\ PastLimit))
    /\ pc' = "streamed"
    /\ UNCHANGED <<environment, aborted, state, tracking, messages, media, reason,
                   compacts, escalations, failures, batches, forgot, lateCalls>>

\* deps.callModel throws: an image that is too large, or a defect.
CallThrows ==
    /\ pc = "call"
    /\ Return("image_error") \/ Return("model_error")
    /\ UNCHANGED <<environment, aborted, state, tracking, messages, media, reply,
                   withheld, answers, seen>>

\* The user aborted while the model answered.
AbortedStreaming ==
    /\ pc = "streamed"
    /\ aborted
    /\ Return("aborted_streaming")
    /\ UNCHANGED <<environment, aborted, state, tracking, messages, media, reply,
                   withheld, answers, seen>>

\* Mutant: the signal is not looked at after the stream.
StreamedAnyway == pc = "streamed"

Streamed == pc = "streamed" /\ ~aborted

-----------------------------------------------------------------------------
(* Recovery from the errors that were withheld *)

TooLong == reply = "too_long"

\* Mutant: the gate is read again after the call.
TooMuchMediaNow == reply = "media" /\ config.reactive /\ reactiveOn

\* The media error is recognised under the gate as it was read before the call.
TooMuchMedia == reply = "media" /\ media

\* tryReactiveCompact summarises the conversation, once.
ReactiveCompact ==
    /\ Streamed
    /\ (TooLong \/ TooMuchMedia) /\ config.reactive
    /\ ~state.attempted
    /\ messages' \in Summaries
    /\ compacts' = AtMost(compacts + 1, 2)
    /\ failures' = 0
    /\ forgot' = (forgot \/ Forgets(messages'))
    /\ GoOn(StateOf(state.turnCount, state.recoveries, TRUE, FALSE, 0))
    /\ UNCHANGED <<environment, aborted, answers, escalations, batches, overrun,
                   lateCalls>>

\* It has been tried, or it fails: the error is shown.
Surface ==
    /\ Streamed
    /\ \/ (TooLong \/ TooMuchMedia) /\ config.reactive
       \/ TooLong /\ config.collapse
    /\ withheld' = FALSE
    /\ Return(IF TooMuchMedia THEN "image_error" ELSE "prompt_too_long")
    /\ UNCHANGED <<environment, aborted, state, tracking, messages, media, reply,
                   answers, seen>>

\* Mutant: the override is not kept.
EscalateAgain ==
    /\ Streamed
    /\ reply = "cut"
    /\ config.escalate /\ ~state.override
    /\ escalations' = AtMost(escalations + 1, 2)
    /\ GoOn(StateOf(state.turnCount, state.recoveries, state.attempted, FALSE, tracking))
    /\ UNCHANGED <<environment, aborted, messages, answers, compacts, failures,
                   batches, overrun, forgot, lateCalls>>

\* The same request again under the higher limit.
Escalate ==
    /\ Streamed
    /\ reply = "cut"
    /\ config.escalate /\ ~state.override
    /\ escalations' = AtMost(escalations + 1, 2)
    /\ GoOn(StateOf(state.turnCount, state.recoveries, state.attempted, TRUE, tracking))
    /\ UNCHANGED <<environment, aborted, messages, answers, compacts, failures,
                   batches, overrun, forgot, lateCalls>>

\* The model is told to resume where it was cut.
Resume ==
    /\ Streamed
    /\ reply = "cut"
    /\ ~(config.escalate /\ ~state.override)
    /\ state.recoveries < RecoveryLimit
    /\ GoOn(StateOf(state.turnCount, state.recoveries + 1, state.attempted, FALSE, tracking))
    /\ UNCHANGED <<environment, aborted, messages, answers, seen>>

\* Any other error, or a cut answer whose recoveries are used up (it is shown
\* now): the loop ends, and the stop hooks do not see it.
EndOnError ==
    /\ Streamed
    /\ \/ reply = "api_error"
       \/ reply = "cut" /\ ~(config.escalate /\ ~state.override)
                        /\ state.recoveries >= RecoveryLimit
       \/ TooLong /\ ~config.reactive /\ ~config.collapse
       \/ reply = "media" /\ ~TooMuchMedia
    /\ withheld' = (withheld /\ reply # "cut")
    /\ Return("completed")
    /\ UNCHANGED <<environment, aborted, state, tracking, messages, media, reply,
                   answers, seen>>

-----------------------------------------------------------------------------
(* A final answer: stop hooks, final gates, token budget *)

StartHooks ==
    /\ Streamed
    /\ reply = "final"
    /\ pc' = "hooks"
    /\ UNCHANGED <<environment, aborted, state, tracking, messages, media, reply,
                   withheld, reason, answers, seen>>

\* A hook forbids to go on, or the user aborted while a hook ran.
HookPrevents ==
    /\ pc = "hooks"
    /\ Return("stop_hook_prevented")
    /\ UNCHANGED <<environment, aborted, state, tracking, messages, media, reply,
                   withheld, answers, seen>>

\* Mutant: a blocking hook resets the guard of the reactive compaction.
HookBlocksAfresh ==
    /\ pc = "hooks"
    /\ answers > 0
    /\ GoOn(Progressed(state.turnCount))
    /\ UNCHANGED <<environment, aborted, messages, answers, seen>>

\* A blocking error of a hook, an answer one of the final gates refuses: the
\* model is told and answers again.
HookBlocks ==
    /\ pc = "hooks"
    /\ answers > 0
    /\ GoOn(Nudged)
    /\ UNCHANGED <<environment, aborted, messages, answers, seen>>

FinalGateBlocks ==
    /\ pc = "hooks"
    /\ answers > 0
    /\ GoOn(Nudged)
    /\ UNCHANGED <<environment, aborted, messages, answers, seen>>

\* The answer stands, but the budget of tokens is far from spent.
ContinueBudget ==
    /\ pc = "hooks"
    /\ config.budget /\ answers > 0
    /\ GoOn(Progressed(state.turnCount))
    /\ NewStretch
    /\ UNCHANGED <<environment, aborted, messages, answers>>

Complete ==
    /\ pc = "hooks"
    /\ Return("completed")
    /\ UNCHANGED <<environment, aborted, state, tracking, messages, media, reply,
                   withheld, answers, seen>>

-----------------------------------------------------------------------------
(* Tool uses *)

\* Mutant: the reserved turn may run tools.
MayAlwaysRunTools == FALSE

\* The gate of the final synthesis: once the last turn is reserved for the
\* final answer, and the conversation still says so, the results of tools are
\* refused.
MustConclude == messages.marker

\* A gate refuses the tools and tells the model so in their results: their
\* intent is not visible, the budget of tools is spent, the last turn was
\* reserved.  What has run while the answer streamed is discarded.  The turn is
\* not counted.
ToolGateBlocks ==
    /\ Streamed
    /\ reply \in ToolReplies
    /\ messages' = [messages EXCEPT !.evidence = TRUE]
    /\ GoOn(Nudged)
    /\ UNCHANGED <<environment, aborted, answers, seen>>

RunTools ==
    /\ Streamed
    /\ reply \in ToolReplies
    /\ ~MustConclude
    /\ batches' = batches + 1
    /\ overrun' = (overrun \/ PastLimit)
    /\ pc' = "tools"
    /\ UNCHANGED <<environment, aborted, state, tracking, messages, media, reply,
                   withheld, reason, answers, compacts, escalations, failures,
                   forgot, lateCalls>>

\* All results are in: a tool came after the verified end of the work, the
\* user aborted, a hook stops the loop, or the attachments are collected.  Only
\* results that are plain text count as evidence.
ToolsEnd ==
    /\ pc = "tools"
    /\ messages' \in {messages, [messages EXCEPT !.evidence = TRUE]}
    /\ \/ Return("completed")
       \/ aborted /\ Return("aborted_tools")
       \/ ~aborted /\ Return("hook_stopped")
       \/ ~aborted /\ pc' = "drain" /\ UNCHANGED reason
    /\ UNCHANGED <<environment, aborted, state, tracking, media, reply, withheld,
                   answers, seen>>

NextTurn == state.turnCount + 1

AtLimit == MaxTurns > 0 /\ NextTurn > MaxTurns

\* The next turn; at the limit it is the one reserved for the final answer, if
\* there is something to answer from.
Recurse ==
    /\ pc = "drain"
    /\ AtLimit => messages.evidence /\ ~messages.marker
    /\ messages' = [messages EXCEPT !.marker = @ \/ AtLimit]
    /\ GoOn(Progressed(NextTurn))
    /\ NewStretch
    /\ UNCHANGED <<environment, aborted, answers>>

ReachLimit ==
    /\ pc = "drain"
    /\ AtLimit /\ ~(messages.evidence /\ ~messages.marker)
    /\ Return("max_turns")
    /\ UNCHANGED <<environment, aborted, state, tracking, messages, media, reply,
                   withheld, answers, seen>>

-----------------------------------------------------------------------------
(* The user, the settings, and the specification *)

Abort ==
    /\ pc # "done" /\ ~aborted
    /\ aborted' = TRUE
    /\ UNCHANGED <<environment, pc, state, tracking, messages, media, reply,
                   withheld, reason, answers, seen>>

\* A cached value of a remote gate is refreshed.
GateFlips ==
    /\ pc # "done"
    /\ reactiveOn' = ~reactiveOn
    /\ UNCHANGED <<config, aborted, pc, state, tracking, messages, media, reply,
                   withheld, reason, answers, seen>>

Ended == pc = "done" /\ UNCHANGED vars

Step ==
    \/ Proceed \/ Autocompact \/ AutocompactFails
    \/ Reply \/ CallThrows \/ AbortedStreaming
    \/ ReactiveCompact \/ Surface \/ Escalate \/ Resume \/ EndOnError
    \/ StartHooks \/ HookPrevents \/ HookBlocks \/ FinalGateBlocks
    \/ ContinueBudget \/ Complete
    \/ ToolGateBlocks \/ RunTools \/ ToolsEnd \/ Recurse \/ ReachLimit

Next == Step \/ Abort \/ GateFlips \/ Ended

\* Calls, hooks and tools end: each is bounded by timeouts.
Spec == Init /\ [][Next]_vars /\ WF_vars(Step)

-----------------------------------------------------------------------------
(* Properties *)

\* Between two stretches of work the conversation is summarised at most once on
\* account of an error, and doomed attempts of autocompact stop at the circuit
\* breaker, whatever hooks, gates and errors come in between: the spiral of
\* query.ts, compact, still too long, hook blocks, compact again.
NoSpiral ==
    /\ compacts <= 1
    /\ failures <= FailureLimit

\* The gates let tools through in at most MaxTurns turns, and only streaming
\* execution, which does not wait for the gates, runs tools in a turn beyond, as
\* long as neither a compaction nor the view of the last prompt dropped the marker
\* that reserves this turn for the answer.
TurnLimit ==
    (MaxTurns > 0 /\ ~forgot) =>
        /\ batches <= MaxTurns
        /\ overrun => config.streaming

\* What the nudge of the reserved turn asks for, `do not call tools', the gate
\* enforces: no tool runs once the turns are spent.
NoToolsPastLimit == ~overrun

\* A loop that ends on an error it kept from the user has shown it, unless the
\* user aborted: what the streaming loop withholds, the recovery or the end of
\* the loop accounts for, also when the settings change during the call.
WithheldIsShown ==
    (pc = "done" /\ reply \in Errors /\ withheld) => reason = "aborted_streaming"

\* The loop is sound: its types, among them the number of recoveries, and the
\* account of its errors.
LoopSound == TypeOK /\ WithheldIsShown

\* After the user aborted at most one more call to the model starts.
AbortStops == lateCalls <= 1

\* The loop ends, however many errors the model answers with.
LoopEnds == <>(pc = "done")

\* What the comment at the escalation promises: it fires once per turn.
EscalatesOnce == escalations <= 1

=============================================================================
