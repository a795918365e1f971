-------------------------- MODULE QueryLoopProofs --------------------------
(***************************************************************************)
(* What the query loop keeps for every limit of turns, recoveries and      *)
(* failures and for any number of answers.  The inductive invariant is the *)
(* type invariant and one conjunct per property; the conjuncts do not need *)
(* each other, only the types.                                             *)
(***************************************************************************)
EXTENDS QueryLoop, TLAPS

USE DEF environment

\* The guard of the reactive compaction is down only if none has been made
\* since work last progressed.
Guarded ==
    /\ compacts <= 1
    /\ ~state.attempted => compacts = 0

Inside == {"call", "streamed", "hooks", "tools", "drain"}

\* The count the circuit breaker reads is the number of failures in a row: no
\* continue site loses it.
Counted ==
    /\ failures <= FailureLimit
    /\ pc = "top" => failures = state.tracking
    /\ pc \in Inside => failures = tracking

Spiral == Guarded /\ Counted

\* Past the limit the conversation holds the marker; each batch of tools but the
\* last belongs to a turn that was counted.
Limited ==
    (MaxTurns > 0 /\ ~forgot) =>
        /\ state.turnCount > MaxTurns => messages.marker
        /\ pc \in {"tools", "drain"} => state.turnCount <= MaxTurns
        /\ pc \in {"top", "call", "streamed", "hooks"} => batches < state.turnCount
        /\ batches <= state.turnCount
        /\ state.turnCount <= MaxTurns + 1
        /\ batches <= MaxTurns
        /\ overrun => config.streaming

\* The late call is the last one.
Heeded ==
    /\ lateCalls <= 1
    /\ lateCalls = 1 => aborted /\ pc \in {"call", "streamed", "done"}

\* What is withheld is what the end of the loop accounts for.
Kept ==
    /\ withheld => Withholds(reply)
    /\ pc \in {"top", "call"} => ~withheld
    /\ pc = "hooks" => reply = "final"
    /\ pc \in {"tools", "drain"} => reply \in ToolReplies
    /\ WithheldIsShown

-----------------------------------------------------------------------------

LEMMA StateTyped ==
    ASSUME NEW n \in Nat \ {0}, NEW r \in 0 .. RecoveryLimit, NEW a \in BOOLEAN,
           NEW o \in BOOLEAN, NEW f \in Nat
    PROVE  StateOf(n, r, a, o, f) \in States
  BY DEF StateOf, States

LEMMA FieldsTyped ==
    ASSUME TypeOK
    PROVE  /\ state.turnCount \in Nat \ {0} /\ state.turnCount + 1 \in Nat \ {0}
           /\ state.recoveries \in 0 .. RecoveryLimit
           /\ state.attempted \in BOOLEAN /\ state.override \in BOOLEAN
           /\ state.tracking \in Nat
  BY DEF TypeOK, States

LEMMA MessagesTyped ==
    ASSUME NEW m \in Conversations, NEW b \in BOOLEAN
    PROVE  /\ [m EXCEPT !.evidence = b] \in Conversations
           /\ [m EXCEPT !.marker = b] \in Conversations
  BY DEF Conversations

\* What the continue sites that nudge or progress write is a State.
LEMMA SitesTyped ==
    ASSUME TypeOK
    PROVE  /\ Nudged \in States
           /\ Progressed(state.turnCount) \in States
           /\ Progressed(NextTurn) \in States
<1>1. tracking \in Nat /\ 0 \in 0 .. RecoveryLimit
  BY LoopConstants DEF TypeOK
<1> QED
  BY <1>1, FieldsTyped, StateTyped DEF Nudged, Progressed, NextTurn

\* The parts of the type invariant: numbers for the SMT solver, the rest.
Counters ==
    /\ tracking \in Nat /\ answers \in 0 .. Answers
    /\ compacts \in 0 .. 2 /\ escalations \in 0 .. 2 /\ lateCalls \in 0 .. 2
    /\ failures \in Nat /\ batches \in Nat

Flags ==
    /\ config \in Configs
    /\ reactiveOn \in BOOLEAN /\ aborted \in BOOLEAN
    /\ pc \in {"top", "call", "streamed", "hooks", "tools", "drain", "done"}
    /\ state \in States
    /\ messages \in Conversations
    /\ media \in BOOLEAN
    /\ reply \in Replies \union {"none"}
    /\ withheld \in BOOLEAN
    /\ reason \in Reasons /\ (pc = "done" <=> reason # "none")
    /\ overrun \in BOOLEAN /\ forgot \in BOOLEAN

\* The views and the summaries of a conversation.
LEMMA ViewsTyped ==
    ASSUME messages \in Conversations
    PROVE  Views(messages) \subseteq Conversations
  BY DEF Views, Conversations

LEMMA Parts == (TypeOK <=> Counters /\ Flags) /\ (TypeOK' <=> Counters' /\ Flags')
  BY DEF TypeOK, Counters, Flags

\* The state keeps its types.
THEOREM TypeCorrect == Spec => []TypeOK
<1> USE LoopConstants DEF Counters, Flags, AtMost, Reasons, Replies, Errors,
   ToolReplies,
                          Return, GoOn, NewStretch, environment, seen
<1>1. Init => TypeOK
  <2> SUFFICES ASSUME Init PROVE TypeOK
    OBVIOUS
  <2>1. state \in States
    <3>1. 0 \in 0 .. RecoveryLimit /\ 1 \in Nat \ {0} /\ 0 \in Nat
      OBVIOUS
    <3> QED
      BY <3>1, StateTyped, ZenonT(40) DEF Init
  <2>2. messages \in Conversations
    BY DEF Init, Conversations
  <2>3. Counters
    BY DEF Init
  <2>4. Flags
    BY <2>1, <2>2 DEF Init
  <2> QED
    BY <2>3, <2>4, Parts
<1>2. TypeOK /\ [Next]_vars => TypeOK'
  <2> SUFFICES ASSUME Counters, Flags, [Next]_vars
               PROVE  TypeOK'
    BY Parts
  <2>a. TypeOK
    BY Parts
  <2>1. CASE Proceed
    <3>1. Counters'
      BY <2>1, FieldsTyped, <2>a DEF Proceed, TakeView, StartCall, Blocked
    <3>2. Flags'
      BY <2>1, FieldsTyped, ViewsTyped, <2>a DEF Proceed, TakeView, StartCall, Blocked
    <3> QED
      BY <3>1, <3>2, Parts
  <2>2. CASE Autocompact
    <3>1. Counters'
      BY <2>2 DEF Autocompact, StartCall, Summaries, Forgets
    <3>2. Flags'
      BY <2>2 DEF Autocompact, StartCall, Summaries, Forgets
    <3> QED
      BY <3>1, <3>2, Parts
  <2>3. CASE AutocompactFails
    <3>1. Counters'
      BY <2>3, FieldsTyped, <2>a DEF AutocompactFails, StartCall, Blocked
    <3>2. Flags'
      BY <2>3, FieldsTyped, ViewsTyped, <2>a DEF AutocompactFails, TakeView, StartCall, Blocked
    <3> QED
      BY <3>1, <3>2, Parts
  <2>4. CASE Reply
    <3>1. Counters'
      BY <2>4 DEF Reply, Withholds
    <3>2. Flags'
      BY <2>4 DEF Reply, Withholds
    <3> QED
      BY <3>1, <3>2, Parts
  <2>5. CASE CallThrows \/ AbortedStreaming
    <3>1. Counters'
      BY <2>5 DEF CallThrows, AbortedStreaming
    <3>2. Flags'
      BY <2>5 DEF CallThrows, AbortedStreaming
    <3> QED
      BY <3>1, <3>2, Parts
  <2>6. CASE ReactiveCompact
    <3>1. state' \in States
      BY <2>6, <2>a, FieldsTyped, StateTyped DEF ReactiveCompact
    <3>2. Counters'
      BY <2>6 DEF ReactiveCompact, Streamed, Summaries, Forgets
    <3>3. Flags'
      BY <2>6, <3>1 DEF ReactiveCompact, Streamed, Summaries, Forgets
    <3> QED
      BY <3>2, <3>3, Parts
  <2>7. CASE Surface \/ EndOnError
    <3>1. Counters'
      BY <2>7 DEF Surface, EndOnError, Streamed
    <3>2. Flags'
      BY <2>7 DEF Surface, EndOnError, Streamed
    <3> QED
      BY <3>1, <3>2, Parts
  <2>8. CASE Escalate
    <3>1. state' \in States
      BY <2>8, <2>a, FieldsTyped, StateTyped DEF Escalate
    <3>2. Counters'
      BY <2>8 DEF Escalate, Streamed
    <3>3. Flags'
      BY <2>8, <3>1 DEF Escalate, Streamed
    <3> QED
      BY <3>2, <3>3, Parts
  <2>9. CASE Resume
    <3>1. state.recoveries + 1 \in 0 .. RecoveryLimit
      BY <2>9, <2>a, FieldsTyped DEF Resume
    <3>2. state' \in States
      BY <2>9, <3>1, <2>a, FieldsTyped, StateTyped DEF Resume
    <3>3. Counters'
      BY <2>9 DEF Resume, Streamed
    <3>4. Flags'
      BY <2>9, <3>1, <3>2 DEF Resume, Streamed
    <3> QED
      BY <3>3, <3>4, Parts
  <2>10. CASE StartHooks \/ HookPrevents \/ Complete
    <3>1. Counters'
      BY <2>10 DEF StartHooks, HookPrevents, Complete, Streamed
    <3>2. Flags'
      BY <2>10 DEF StartHooks, HookPrevents, Complete, Streamed
    <3> QED
      BY <3>1, <3>2, Parts
  <2>11. CASE HookBlocks \/ FinalGateBlocks \/ ContinueBudget
    <3>1. Counters'
      BY <2>11, SitesTyped, <2>a DEF HookBlocks, FinalGateBlocks, ContinueBudget
    <3>2. Flags'
      BY <2>11, SitesTyped, <2>a DEF HookBlocks, FinalGateBlocks, ContinueBudget
    <3> QED
      BY <3>1, <3>2, Parts
  <2>12. CASE ToolGateBlocks
    <3>1. Counters'
      BY <2>12, SitesTyped, MessagesTyped, <2>a DEF ToolGateBlocks, Streamed
    <3>2. Flags'
      BY <2>12, SitesTyped, MessagesTyped, <2>a DEF ToolGateBlocks, Streamed
    <3> QED
      BY <3>1, <3>2, Parts
  <2>13. CASE RunTools
    <3>1. Counters'
      BY <2>13 DEF RunTools, Streamed
    <3>2. Flags'
      BY <2>13 DEF RunTools, Streamed
    <3> QED
      BY <3>1, <3>2, Parts
  <2>14. CASE ToolsEnd \/ ReachLimit
    <3>1. Counters'
      BY <2>14, MessagesTyped DEF ToolsEnd, ReachLimit
    <3>2. Flags'
      BY <2>14, MessagesTyped, ZenonT(40) DEF ToolsEnd, ReachLimit
    <3> QED
      BY <3>1, <3>2, Parts
  <2>15. CASE Recurse
    <3>1. messages' \in Conversations
      BY <2>15, MessagesTyped DEF Recurse, Conversations
    <3>2. Counters'
      BY <2>15, SitesTyped, <2>a DEF Recurse
    <3>3. Flags'
      BY <2>15, SitesTyped, <2>a, <3>1 DEF Recurse
    <3> QED
      BY <3>2, <3>3, Parts
  <2>16. CASE Abort
    <3>1. Counters'
      BY <2>16 DEF Abort
    <3>2. Flags'
      BY <2>16 DEF Abort
    <3> QED
      BY <3>1, <3>2, Parts
  <2>17. CASE GateFlips
    <3>1. Counters'
      BY <2>17 DEF GateFlips
    <3>2. Flags'
      BY <2>17 DEF GateFlips
    <3> QED
      BY <3>1, <3>2, Parts
  <2>18. CASE Ended \/ UNCHANGED vars
    <3>1. Counters'
      BY <2>18 DEF Ended, vars
    <3>2. Flags'
      BY <2>18 DEF Ended, vars
    <3> QED
      BY <3>1, <3>2, Parts
  <2> QED
    BY <2>1, <2>2, <2>3, <2>4, <2>5, <2>6, <2>7, <2>8, <2>9, <2>10, <2>11, <2>12,
       <2>13, <2>14, <2>15, <2>16, <2>17, <2>18 DEF Next, Step
<1> QED
  BY <1>1, <1>2, PTL DEF Spec
-----------------------------------------------------------------------------
(* One theorem per property *)

\* Recoveries do not spiral: no order of errors, blocking hooks, gates and
\* answers makes the loop compact on an error twice in one stretch of work or
\* lose the count of its failed compactions.
THEOREM RecoveriesDoNotSpiral == Spec => []NoSpiral
<1> USE LoopConstants DEF Spiral, Guarded, Counted, Inside, TypeOK, StateOf, Return,
   GoOn, environment, seen
<1>1. Init => Spiral
  BY DEF Init
<1>2. TypeOK /\ Spiral /\ [Next]_vars => Spiral'
  <2> SUFFICES ASSUME TypeOK, Spiral, [Next]_vars
               PROVE  Spiral'
    OBVIOUS
  <2> USE FieldsTyped
  <2>1. CASE Proceed
    BY <2>1 DEF Proceed, StartCall, Blocked
  <2>2. CASE Autocompact
    BY <2>2 DEF Autocompact, StartCall, MayCompact
  <2>3. CASE AutocompactFails
    BY <2>3 DEF AutocompactFails, StartCall, Blocked, MayCompact
  <2>4. CASE Reply \/ CallThrows \/ AbortedStreaming
    BY <2>4 DEF Reply, CallThrows, AbortedStreaming
  <2>5. CASE ReactiveCompact
    BY <2>5 DEF ReactiveCompact, Streamed, StateOf, AtMost
  <2>6. CASE Surface \/ EndOnError
    BY <2>6 DEF Surface, EndOnError, Streamed
  <2>7. CASE Escalate \/ Resume
    BY <2>7 DEF Escalate, Resume, Streamed, StateOf
  <2>8. CASE StartHooks \/ HookPrevents \/ Complete
    BY <2>8 DEF StartHooks, HookPrevents, Complete, Streamed
  <2>9. CASE HookBlocks \/ FinalGateBlocks
    BY <2>9 DEF HookBlocks, FinalGateBlocks, Nudged, StateOf
  <2>10. CASE ContinueBudget
    BY <2>10 DEF ContinueBudget, Progressed, StateOf, NewStretch
  <2>11. CASE ToolGateBlocks
    BY <2>11 DEF ToolGateBlocks, Streamed, Nudged, StateOf
  <2>12. CASE RunTools
    BY <2>12 DEF RunTools, Streamed
  <2>13. CASE ToolsEnd \/ ReachLimit
    BY <2>13 DEF ToolsEnd, ReachLimit
  <2>14. CASE Recurse
    BY <2>14 DEF Recurse, Progressed, StateOf, NewStretch
  <2>15. CASE Abort \/ GateFlips
    BY <2>15 DEF Abort, GateFlips
  <2>16. CASE Ended \/ UNCHANGED vars
    BY <2>16 DEF Ended, vars
  <2> QED
    BY <2>1, <2>2, <2>3, <2>4, <2>5, <2>6, <2>7, <2>8, <2>9, <2>10, <2>11, <2>12,
       <2>13, <2>14, <2>15, <2>16 DEF Next, Step
<1>3. Spiral => NoSpiral
  BY DEF NoSpiral
<1> QED
  BY <1>1, <1>2, <1>3, TypeCorrect, PTL DEF Spec

\* A view keeps the marker, or the loop forgets it.
LEMMA ViewOrLoss ==
    ASSUME messages \in Conversations, NEW m \in Views(messages), ~Forgets(m)
    PROVE  m.marker = messages.marker
  BY DEF Views, Forgets, Conversations

\* The gates let tools through in at most MaxTurns turns, and no tool runs beyond
\* without streaming execution, as long as the conversation keeps the marker of the
\* reserved turn.
THEOREM TurnsAreLimited == Spec => []TurnLimit
<1> USE LoopConstants DEF Limited, TypeOK, StateOf, Return, GoOn, environment, seen
<1>1. Init => Limited
  BY DEF Init
<1>2. TypeOK /\ Limited /\ [Next]_vars => Limited'
  <2> SUFFICES ASSUME TypeOK, Limited, [Next]_vars
               PROVE  Limited'
    OBVIOUS
  <2> USE FieldsTyped
  <2>1. CASE Proceed
    BY <2>1, ViewOrLoss DEF Proceed, TakeView, StartCall, Blocked
  <2>2. CASE Autocompact
    BY <2>2 DEF Autocompact, StartCall, Summaries, Forgets
  <2>3. CASE AutocompactFails
    BY <2>3, ViewOrLoss DEF AutocompactFails, TakeView, StartCall, Blocked
  <2>4. CASE Reply \/ CallThrows \/ AbortedStreaming
    BY <2>4 DEF Reply, CallThrows, AbortedStreaming
  <2>5. CASE ReactiveCompact
    BY <2>5 DEF ReactiveCompact, Streamed, StateOf, Summaries, Forgets
  <2>6. CASE Surface \/ EndOnError
    BY <2>6 DEF Surface, EndOnError, Streamed
  <2>7. CASE Escalate \/ Resume
    BY <2>7 DEF Escalate, Resume, Streamed, StateOf
  <2>8. CASE StartHooks \/ HookPrevents \/ Complete
    BY <2>8 DEF StartHooks, HookPrevents, Complete, Streamed
  <2>9. CASE HookBlocks \/ FinalGateBlocks
    BY <2>9 DEF HookBlocks, FinalGateBlocks, Nudged, StateOf
  <2>10. CASE ContinueBudget
    BY <2>10 DEF ContinueBudget, Progressed, StateOf, NewStretch
  <2>11. CASE ToolGateBlocks
    BY <2>11 DEF ToolGateBlocks, Streamed, Conversations, Nudged, StateOf
  <2>12. CASE RunTools
    BY <2>12 DEF RunTools, Streamed, MustConclude, PastLimit
  <2>13. CASE ToolsEnd \/ ReachLimit
    BY <2>13 DEF ToolsEnd, ReachLimit, Conversations
  <2>14. CASE Recurse
    BY <2>14 DEF Recurse, Progressed, StateOf, NewStretch, Conversations, NextTurn,
       AtLimit
  <2>15. CASE Abort \/ GateFlips
    BY <2>15 DEF Abort, GateFlips
  <2>16. CASE Ended \/ UNCHANGED vars
    BY <2>16 DEF Ended, vars
  <2> QED
    BY <2>1, <2>2, <2>3, <2>4, <2>5, <2>6, <2>7, <2>8, <2>9, <2>10, <2>11, <2>12,
       <2>13, <2>14, <2>15, <2>16 DEF Next, Step
<1>3. Limited => TurnLimit
  BY DEF TurnLimit
<1> QED
  BY <1>1, <1>2, <1>3, TypeCorrect, PTL DEF Spec

\* After the user aborted at most one more call starts.
THEOREM AbortIsHeeded == Spec => []AbortStops
<1> USE LoopConstants DEF Heeded, TypeOK, Return, GoOn, environment, seen
<1>1. Init => Heeded
  BY DEF Init
<1>2. TypeOK /\ Heeded /\ [Next]_vars => Heeded'
  <2> SUFFICES ASSUME TypeOK, Heeded, [Next]_vars
               PROVE  Heeded'
    OBVIOUS
  <2> USE FieldsTyped
  <2>1. CASE Proceed \/ AutocompactFails
    BY <2>1 DEF Proceed, AutocompactFails, StartCall, Blocked, AtMost
  <2>2. CASE Autocompact
    BY <2>2 DEF Autocompact, StartCall, AtMost
  <2>3. CASE Reply \/ CallThrows \/ AbortedStreaming
    BY <2>3 DEF Reply, CallThrows, AbortedStreaming
  <2>4. CASE ReactiveCompact \/ Surface \/ EndOnError \/ Escalate \/ Resume
    BY <2>4 DEF ReactiveCompact, Surface, EndOnError, Escalate, Resume, Streamed
  <2>5. CASE StartHooks \/ HookPrevents \/ Complete \/ HookBlocks \/ FinalGateBlocks
    BY <2>5 DEF StartHooks, HookPrevents, Complete, HookBlocks, FinalGateBlocks,
       Streamed
  <2>6. CASE ContinueBudget \/ Recurse
    BY <2>6 DEF ContinueBudget, Recurse, NewStretch
  <2>7. CASE ToolGateBlocks \/ RunTools
    BY <2>7 DEF ToolGateBlocks, RunTools, Streamed
  <2>8. CASE ToolsEnd \/ ReachLimit
    BY <2>8 DEF ToolsEnd, ReachLimit
  <2>9. CASE Abort \/ GateFlips
    BY <2>9 DEF Abort, GateFlips
  <2>10. CASE Ended \/ UNCHANGED vars
    BY <2>10 DEF Ended, vars
  <2> QED
    BY <2>1, <2>2, <2>3, <2>4, <2>5, <2>6, <2>7, <2>8, <2>9, <2>10 DEF Next, Step
<1>3. Heeded => AbortStops
  BY DEF AbortStops
<1> QED
  BY <1>1, <1>2, <1>3, TypeCorrect, PTL DEF Spec

\* A loop that ends on an error it withheld has shown it, unless the user
\* aborted, whenever the remote gate flips.
THEOREM NoErrorIsSwallowed == Spec => []WithheldIsShown
<1> USE LoopConstants DEF Kept, TypeOK, Withholds, WithheldIsShown, Errors,
   ToolReplies, Return, GoOn, environment, seen
<1>1. Init => Kept
  BY DEF Init
<1>2. TypeOK /\ Kept /\ [Next]_vars => Kept'
  <2> SUFFICES ASSUME TypeOK, Kept, [Next]_vars
               PROVE  Kept'
    OBVIOUS
  <2> USE FieldsTyped
  <2>1. CASE Proceed \/ AutocompactFails
    BY <2>1 DEF Proceed, AutocompactFails, StartCall, Blocked
  <2>2. CASE Autocompact
    BY <2>2 DEF Autocompact, StartCall
  <2>3. CASE Reply
    BY <2>3 DEF Reply
  <2>4. CASE CallThrows \/ AbortedStreaming
    BY <2>4 DEF CallThrows, AbortedStreaming
  <2>5. CASE ReactiveCompact \/ Escalate \/ Resume
    BY <2>5 DEF ReactiveCompact, Escalate, Resume, Streamed
  <2>6. CASE Surface
    BY <2>6 DEF Surface, Streamed
  <2>7. CASE EndOnError
    BY <2>7 DEF EndOnError, Streamed, TooLong, TooMuchMedia
  <2>8. CASE StartHooks \/ HookPrevents \/ Complete
    BY <2>8 DEF StartHooks, HookPrevents, Complete, Streamed
  <2>9. CASE HookBlocks \/ FinalGateBlocks \/ ContinueBudget \/ Recurse
    BY <2>9 DEF HookBlocks, FinalGateBlocks, ContinueBudget, Recurse
  <2>10. CASE ToolGateBlocks \/ RunTools
    BY <2>10 DEF ToolGateBlocks, RunTools, Streamed
  <2>11. CASE ToolsEnd \/ ReachLimit
    BY <2>11 DEF ToolsEnd, ReachLimit
  <2>12. CASE Abort \/ GateFlips
    BY <2>12 DEF Abort, GateFlips
  <2>13. CASE Ended \/ UNCHANGED vars
    BY <2>13 DEF Ended, vars
  <2> QED
    BY <2>1, <2>2, <2>3, <2>4, <2>5, <2>6, <2>7, <2>8, <2>9, <2>10, <2>11, <2>12,
       <2>13 DEF Next, Step
<1>3. Kept => WithheldIsShown
  OBVIOUS
<1> QED
  BY <1>1, <1>2, <1>3, TypeCorrect, PTL DEF Spec

\* The loop keeps its types and accounts for its errors, for any limits.
THEOREM LoopIsSound == Spec => []LoopSound
<1>1. TypeOK /\ WithheldIsShown => LoopSound
  BY DEF LoopSound
<1> QED
  BY <1>1, TypeCorrect, NoErrorIsSwallowed, PTL
=============================================================================
