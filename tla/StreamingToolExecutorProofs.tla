--------------------- MODULE StreamingToolExecutorProofs ---------------------
(* Theorems about StreamingToolExecutor, for any number of tools, any mix of *)
(* kinds, any bound on progress messages and any set of events.              *)
EXTENDS StreamingToolExecutor, TLAPS

USE DEF Ids

(* The facts about the query loop and the tool bodies that typing rests on.  *)
BodyFollowsStatus ==
  \A t \in Ids :
    /\ status[t] = "executing" <=> body[t] \in {"running", "barred", "resulted", "closing"}
    /\ status[t] \in {"completed", "yielded"} <=> body[t] = "settled"
    /\ body[t] \in {"resulted", "closing", "settled"} => results[t] # <<>>
CursorFollowsPc == cursor # 0 <=> pc \in {"polling", "pass", "final"}

AbsentFromAdded == \A t \in Ids : status[t] = "absent" <=> t > added

TypeInv == TypeOK /\ BodyFollowsStatus /\ CursorFollowsPc /\ AbsentFromAdded

LEMMA ReasonType == ASSUME NEW t PROVE AbortReason(t) \in Synthetic \cup {"none"}
  BY DEF AbortReason, Synthetic

LEMMA PickedType ==
  ASSUME NEW st, NEW p PROVE \A t \in Picked(st, p) : t \in Ids /\ st[t] = "queued"
  BY DEF Picked

\* Where the awaited call of processQueue stands is a position of the queue.
LEMMA AwaitingType ==
  ASSUME MaxTools \in Nat, NEW st, NEW p PROVE Awaiting(p, st) \in 0 .. MaxTools + 1
<1>1. CASE Picked(st, p) = {}
  BY <1>1, MaxToolsAssumption DEF Awaiting
<1>2. CASE Picked(st, p) # {}
  <2>1. (CHOOSE t \in Picked(st, p) : TRUE) \in Picked(st, p)
    BY <1>2
  <2> QED BY <2>1, <1>2, PickedType, MaxToolsAssumption DEF Awaiting
<1> QED BY <1>1, <1>2

\* A call of processQueue keeps types, what is absent, and the relation of body to status, for
\* the statuses st it finds.
LEMMA ProcessQueueType ==
  ASSUME TypeOK, NEW st \in [Ids -> Statuses], NEW p,
         NEW ls \in SUBSET (2 .. MaxTools + 1), NEW wk \in SUBSET Ids,
         ProcessQueue(p, st, ls, wk),
         \A t \in Ids :
           /\ st[t] = "executing" <=> body[t] \in {"running", "barred", "resulted", "closing"}
           /\ st[t] \in {"completed", "yielded"} <=> body[t] = "settled"
           /\ body[t] \in {"resulted", "closing", "settled"} => results[t] # <<>>
  PROVE /\ status' \in [Ids -> Statuses]
        /\ body' \in [Ids -> Bodies]
        /\ results' \in [Ids -> Seq(Results)]
        /\ inProgress' \subseteq Ids
        /\ interruptible' \in BOOLEAN
        /\ loops' \subseteq 2 .. MaxTools + 1
        /\ wake' \subseteq Ids
        /\ BodyFollowsStatus'
        /\ \A t \in Ids : status'[t] = "absent" <=> st[t] = "absent"
<1>1. CASE Picked(st, p) = {} /\ status' = st
             /\ loops' = ls /\ wake' = wk
             /\ UNCHANGED <<body, results, inProgress, interruptible>>
  BY <1>1 DEF TypeOK, ToolTypes, FlagTypes, QueryTypes, BodyFollowsStatus
<1>2. ASSUME NEW t \in Picked(st, p), ExecuteTool(t, st, ls, wk)
      PROVE /\ status' \in [Ids -> Statuses]
            /\ body' \in [Ids -> Bodies]
            /\ results' \in [Ids -> Seq(Results)]
            /\ inProgress' \subseteq Ids
            /\ interruptible' \in BOOLEAN
            /\ loops' \subseteq 2 .. MaxTools + 1
            /\ wake' \subseteq Ids
            /\ BodyFollowsStatus'
            /\ \A u \in Ids : status'[u] = "absent" <=> st[u] = "absent"
  <2>1. t \in Ids /\ st[t] = "queued"
    BY PickedType
  <2> DEFINE r == AbortReason(t)
  <2>2. r \in Synthetic \cup {"none"}
    BY ReasonType
  <2> HIDE DEF r
  <2>3. CASE r = "none"
    <3>0. StartedAs \in {"running", "barred"}
      BY DEF StartedAs
    <3>1. /\ status' = [st EXCEPT ![t] = "executing"]
          /\ body' = [body EXCEPT ![t] = StartedAs]
          /\ results' = results
          /\ wake' = wk
      BY <1>2, <2>3 DEF ExecuteTool, r
    <3>2. BodyFollowsStatus'
      BY <3>0, <3>1, <2>1 DEF BodyFollowsStatus, TypeOK, ToolTypes, FlagTypes, QueryTypes, Statuses, Bodies
    <3> QED
      BY <1>2, <2>1, <3>0, <3>1, <3>2, MaxToolsAssumption, SMTT(30)
         DEF ExecuteTool, UpdateInterruptible, Interruptible, TypeOK, ToolTypes, FlagTypes, QueryTypes, Statuses, Bodies
  <2>4. CASE r # "none"
    <3>1. /\ status' = [st EXCEPT ![t] = "completed"]
          /\ body' = [body EXCEPT ![t] = "settled"]
          /\ results' = [results EXCEPT ![t] = <<r>>]
          /\ wake' = wk \cup {t}
      BY <1>2, <2>4 DEF ExecuteTool, r
    <3>2. <<r>> \in Seq(Results) /\ <<r>> # <<>>
      BY <2>2, <2>4 DEF Results
    <3>3. BodyFollowsStatus'
      BY <3>1, <3>2, <2>1 DEF BodyFollowsStatus, TypeOK, ToolTypes, FlagTypes, QueryTypes, Statuses, Bodies
    <3> QED
      BY <1>2, <2>1, <3>1, <3>2, <3>3, MaxToolsAssumption
         DEF ExecuteTool, UpdateInterruptible, Interruptible, TypeOK, ToolTypes, FlagTypes, QueryTypes, Statuses, Bodies
  <2> QED BY <2>3, <2>4
<1> QED BY <1>1, <1>2 DEF ProcessQueue

(* TypeInv is inductive. *)
LEMMA TypeInit == Init => TypeInv
<1> SUFFICES ASSUME Init PROVE TypeInv
  OBVIOUS
<1>1. <<>> \in Seq(Results)
  OBVIOUS
<1>2. TypeOK
  <2>1. ToolTypes
    BY <1>1, MaxToolsAssumption DEF Init, ToolTypes, Statuses, Bodies
  <2>2. FlagTypes
    BY DEF Init, FlagTypes
  <2>3. QueryTypes
    BY <1>1, MaxToolsAssumption DEF Init, QueryTypes, Phases
  <2> QED BY <2>1, <2>2, <2>3 DEF TypeOK, ToolTypes, FlagTypes, QueryTypes
<1>3. BodyFollowsStatus
  BY DEF Init, BodyFollowsStatus
<1>4. CursorFollowsPc /\ AbsentFromAdded
  BY DEF Init, CursorFollowsPc, AbsentFromAdded
<1> QED BY <1>2, <1>3, <1>4 DEF TypeInv

\* addTool: a refused block is complete at once, another goes to the queue.
LEMMA TypeAddTool == TypeInv /\ AddTool => TypeInv'
<1> SUFFICES ASSUME TypeInv, AddTool PROVE TypeInv'
  OBVIOUS
<1> USE MaxToolsAssumption DEF TypeInv
<1> DEFINE t == added + 1
<1>1. t \in Ids /\ pc = "streaming" /\ added' = t /\ status[t] = "absent"
  BY DEF AddTool, TypeOK, ToolTypes, FlagTypes, QueryTypes, AbsentFromAdded
<1>2. UNCHANGED <<kind, progress, sent, hasErrored, discarded, awaited, parent, late, pc,
                  cursor, open, left, waitSet, emitted, collected>>
  BY DEF AddTool, blockVars, genVars, listVars
<1>3. CASE kind[t].gate
  <2>1. /\ status' = [status EXCEPT ![t] = "completed"]
        /\ body' = [body EXCEPT ![t] = "settled"]
        /\ results' = [results EXCEPT ![t] = <<"refused">>]
        /\ UNCHANGED <<inProgress, interruptible, loops, wake>>
    BY <1>3 DEF AddTool
  <2>2. <<"refused">> \in Seq(Results) /\ <<"refused">> # <<>>
    BY DEF Results
  <2>3. BodyFollowsStatus'
    BY <2>1, <2>2, <1>1 DEF TypeOK, ToolTypes, FlagTypes, QueryTypes, BodyFollowsStatus, Statuses, Bodies
  <2>4. AbsentFromAdded'
    BY <2>1, <1>1, SMTT(30) DEF TypeOK, ToolTypes, FlagTypes, QueryTypes, AbsentFromAdded
  <2>5. TypeOK'
    <3>1. ToolTypes'
      BY <1>1, <1>2, <2>1, <2>2 DEF TypeOK, ToolTypes, Statuses, Bodies
    <3>2. FlagTypes'
      BY <1>2, <2>1 DEF TypeOK, FlagTypes
    <3>3. QueryTypes'
      BY <1>1, <1>2 DEF TypeOK, QueryTypes
    <3> QED BY <3>1, <3>2, <3>3 DEF TypeOK
  <2>6. CursorFollowsPc'
    BY <1>2 DEF CursorFollowsPc
  <2> QED BY <2>3, <2>4, <2>5, <2>6
<1>4. CASE ~kind[t].gate
  <2> DEFINE st == [status EXCEPT ![t] = "queued"]
  <2>1. ProcessQueue(1, st, loops, wake)
    BY <1>4 DEF AddTool
  <2>2. st \in [Ids -> Statuses]
    BY <1>1 DEF TypeOK, ToolTypes, FlagTypes, QueryTypes, Statuses
  <2>3. \A u \in Ids :
          /\ st[u] = "executing" <=> body[u] \in {"running", "barred", "resulted", "closing"}
          /\ st[u] \in {"completed", "yielded"} <=> body[u] = "settled"
          /\ body[u] \in {"resulted", "closing", "settled"} => results[u] # <<>>
    BY <1>1 DEF TypeOK, ToolTypes, FlagTypes, QueryTypes, BodyFollowsStatus
  <2>4. \A u \in Ids : st[u] = "absent" <=> u > added + 1
    BY <1>1, SMTT(30) DEF TypeOK, ToolTypes, FlagTypes, QueryTypes, AbsentFromAdded
  <2> HIDE DEF st
  <2>5. /\ status' \in [Ids -> Statuses]
        /\ body' \in [Ids -> Bodies]
        /\ results' \in [Ids -> Seq(Results)]
        /\ inProgress' \subseteq Ids
        /\ interruptible' \in BOOLEAN
        /\ loops' \subseteq 2 .. MaxTools + 1
        /\ wake' \subseteq Ids
        /\ BodyFollowsStatus'
        /\ \A u \in Ids : status'[u] = "absent" <=> st[u] = "absent"
    BY <2>1, <2>2, <2>3, ProcessQueueType DEF TypeOK, ToolTypes, FlagTypes, QueryTypes
  <2>6. TypeOK'
    <3>1. ToolTypes'
      BY <1>2, <2>5 DEF TypeOK, ToolTypes
    <3>2. FlagTypes'
      BY <1>2, <2>5 DEF TypeOK, FlagTypes
    <3>3. QueryTypes'
      BY <1>1, <1>2 DEF TypeOK, QueryTypes
    <3> QED BY <3>1, <3>2, <3>3 DEF TypeOK
  <2>7. CursorFollowsPc'
    BY <1>2 DEF CursorFollowsPc
  <2>8. AbsentFromAdded'
    BY <1>1, <2>4, <2>5 DEF AbsentFromAdded
  <2> QED BY <2>5, <2>6, <2>7, <2>8
<1> QED BY <1>3, <1>4

\* The three other callers of processQueue.
LEMMA TypeQueue ==
  TypeInv /\ ((\E p \in 2 .. MaxTools + 1 : ResumeLoop(p)) \/ (\E t \in Ids : Wake(t)) \/ DrainHead)
    => TypeInv'
<1> USE MaxToolsAssumption DEF TypeInv
<1>1. ASSUME TypeInv, NEW p, NEW ls \in SUBSET (2 .. MaxTools + 1), NEW wk \in SUBSET Ids,
             ProcessQueue(p, status, ls, wk)
      PROVE  /\ status' \in [Ids -> Statuses]
             /\ body' \in [Ids -> Bodies]
             /\ results' \in [Ids -> Seq(Results)]
             /\ inProgress' \subseteq Ids
             /\ interruptible' \in BOOLEAN
             /\ loops' \subseteq 2 .. MaxTools + 1
             /\ wake' \subseteq Ids
             /\ BodyFollowsStatus'
             /\ \A u \in Ids : status'[u] = "absent" <=> status[u] = "absent"
  BY <1>1, ProcessQueueType DEF TypeOK, ToolTypes, FlagTypes, QueryTypes, BodyFollowsStatus
<1>2. ASSUME TypeInv, NEW p \in 2 .. MaxTools + 1, ResumeLoop(p) PROVE TypeInv'
  <2>1. ProcessQueue(p, status, loops \ {p}, wake)
    BY <1>2 DEF ResumeLoop
  <2>2. UNCHANGED <<kind, progress, sent, hasErrored, discarded, parent, added, late,
                    open, left, waitSet, emitted, collected>>
    BY <1>2 DEF ResumeLoop, blockVars, listVars
  <2>3. /\ awaited' \in 0 .. MaxTools + 1
        /\ pc' \in Phases /\ cursor' \in 0 .. MaxTools
        /\ CursorFollowsPc'
    <3>1. CASE awaited # p
      BY <1>2, <3>1 DEF ResumeLoop, TypeOK, ToolTypes, FlagTypes, QueryTypes, CursorFollowsPc
    <3>2. CASE awaited = p
      BY <1>2, <3>2, AwaitingType, SMTT(30) DEF ResumeLoop, TypeOK, ToolTypes, FlagTypes, QueryTypes, CursorFollowsPc, Phases
    <3> QED BY <3>1, <3>2
  <2>4. TypeOK'
    BY <1>1, <1>2, <2>1, <2>2, <2>3 DEF TypeOK, ToolTypes, FlagTypes, QueryTypes
  <2> QED BY <1>1, <1>2, <2>1, <2>2, <2>3, <2>4 DEF TypeOK, ToolTypes, FlagTypes, QueryTypes, AbsentFromAdded
<1>3. ASSUME TypeInv, NEW t \in Ids, Wake(t) PROVE TypeInv'
  <2>1. ProcessQueue(1, status, loops, wake \ {t})
    BY <1>3 DEF Wake
  <2>2. UNCHANGED <<kind, progress, sent, hasErrored, discarded, awaited, parent, added, late,
                    pc, cursor, open, left, waitSet, emitted, collected>>
    BY <1>3 DEF Wake, queryVars, genVars, listVars
  <2>3. TypeOK'
    BY <1>1, <1>3, <2>1, <2>2 DEF TypeOK, ToolTypes, FlagTypes, QueryTypes
  <2> QED BY <1>1, <1>3, <2>1, <2>2, <2>3 DEF TypeOK, ToolTypes, FlagTypes, QueryTypes, AbsentFromAdded, CursorFollowsPc
<1>4. ASSUME TypeInv, DrainHead PROVE TypeInv'
  <2>1. ProcessQueue(1, status, loops, wake)
    BY <1>4 DEF DrainHead
  <2>2. UNCHANGED <<kind, progress, sent, hasErrored, discarded, parent, added, late,
                    open, left, waitSet, emitted, collected>>
    BY <1>4 DEF DrainHead, blockVars, listVars
  <2>3. /\ awaited' \in 0 .. MaxTools + 1
        /\ pc' \in Phases /\ cursor' \in 0 .. MaxTools
        /\ CursorFollowsPc'
    BY <1>4, AwaitingType, SMTT(30) DEF DrainHead, TypeOK, ToolTypes, FlagTypes, QueryTypes, CursorFollowsPc, Phases
  <2>4. TypeOK'
    BY <1>1, <1>4, <2>1, <2>2, <2>3 DEF TypeOK, ToolTypes, FlagTypes, QueryTypes
  <2> QED BY <1>1, <1>4, <2>1, <2>2, <2>3, <2>4 DEF TypeOK, ToolTypes, FlagTypes, QueryTypes, AbsentFromAdded
<1> QED BY <1>2, <1>3, <1>4

\* The steps of a tool's body.
LEMMA TypeTool == TypeInv /\ (\E t \in Ids : ToolStep(t) \/ PermissionReject(t)) => TypeInv'
<1> SUFFICES ASSUME TypeInv, NEW t \in Ids, ToolStep(t) \/ PermissionReject(t) PROVE TypeInv'
  OBVIOUS
<1> USE DEF TypeInv, bodyUnchanged, queryVars, genVars, listVars
<1>1. AbortReason(t) # "none" => AbortReason(t) \in Results
  BY ReasonType DEF Results
<1>2. \A r \in Results : /\ Append(results[t], r) \in Seq(Results)
                         /\ Append(results[t], r) # <<>>
  BY DEF TypeOK, ToolTypes
<1>3. CASE ToolAborted(t)
  <2>1. ToolTypes'
    BY <1>1, <1>2, <1>3 DEF ToolAborted, NotAborted, TypeOK, ToolTypes, Bodies
  <2>3. FlagTypes' /\ QueryTypes'
    BY <1>3 DEF ToolAborted, TypeOK, FlagTypes, QueryTypes
  <2>2. BodyFollowsStatus'
    BY <1>1, <1>2, <1>3 DEF ToolAborted, NotAborted, TypeOK, ToolTypes, BodyFollowsStatus
  <2> QED BY <1>3, <2>1, <2>2, <2>3 DEF ToolAborted, TypeOK, CursorFollowsPc, AbsentFromAdded
<1>4. CASE ToolProgress(t)
  <2>1. ToolTypes'
    BY <1>4 DEF ToolProgress, TypeOK, ToolTypes
  <2>2. FlagTypes' /\ QueryTypes'
    BY <1>4 DEF ToolProgress, TypeOK, FlagTypes, QueryTypes
  <2> QED BY <1>4, <2>1, <2>2 DEF ToolProgress, TypeOK, BodyFollowsStatus, CursorFollowsPc, AbsentFromAdded
<1>5. ASSUME NEW r \in {"ok", "error"}, ToolResult(t, r) PROVE TypeInv'
  <2>1. r \in Results
    BY DEF Results
  <2>2. ToolTypes' /\ FlagTypes' /\ QueryTypes'
    BY <1>2, <1>5, <2>1 DEF ToolResult, TypeOK, ToolTypes, FlagTypes, QueryTypes, Bodies
  <2>3. BodyFollowsStatus'
    BY <1>2, <1>5, <2>1 DEF ToolResult, TypeOK, ToolTypes, BodyFollowsStatus
  <2> QED BY <1>5, <2>2, <2>3 DEF ToolResult, TypeOK, CursorFollowsPc, AbsentFromAdded
<1>10. ASSUME NEW r \in {"cancelled", "error"}, BarredResult(t, r) PROVE TypeInv'
  <2>1. r \in Results
    BY DEF Results
  <2>2. ToolTypes' /\ FlagTypes' /\ QueryTypes'
    BY <1>2, <1>10, <2>1 DEF BarredResult, TypeOK, ToolTypes, FlagTypes, QueryTypes, Bodies
  <2>3. BodyFollowsStatus'
    BY <1>2, <1>10, <2>1 DEF BarredResult, TypeOK, ToolTypes, BodyFollowsStatus
  <2> QED BY <1>10, <2>2, <2>3 DEF BarredResult, TypeOK, CursorFollowsPc, AbsentFromAdded
<1>6. ASSUME NEW rs \in Seq(Results), rs # <<>>, Complete(t, rs),
             UNCHANGED <<bodyUnchanged, progress, sent, hasErrored, parent>>,
             body[t] \in {"running", "barred", "resulted", "closing"}
      PROVE TypeInv'
  <2>1. ToolTypes' /\ FlagTypes' /\ QueryTypes'
    BY <1>6 DEF Complete, UpdateInterruptible, Interruptible, TypeOK, ToolTypes, FlagTypes,
                QueryTypes, Bodies, Statuses
  <2>2. BodyFollowsStatus'
    BY <1>6 DEF Complete, TypeOK, ToolTypes, BodyFollowsStatus
  <2>3. AbsentFromAdded'
    BY <1>6 DEF Complete, TypeOK, ToolTypes, BodyFollowsStatus, AbsentFromAdded
  <2> QED BY <1>6, <2>1, <2>2, <2>3 DEF TypeOK, CursorFollowsPc
<1>7. CASE ToolEnd(t)
  <2>1. results[t] \in Seq(Results) /\ results[t] # <<>>
    BY <1>7 DEF ToolEnd, TypeOK, ToolTypes, BodyFollowsStatus
  <2> QED BY <1>6, <1>7, <2>1 DEF ToolEnd
<1>8. CASE ToolThrow(t)
  <2>1. <<"exception">> \in Seq(Results) /\ <<"exception">> # <<>>
    BY DEF Results
  <2> QED BY <1>6, <1>8, <2>1 DEF ToolThrow
<1>9. CASE PermissionReject(t)
  BY <1>9 DEF PermissionReject, execVars, toolVars, loopVars, TypeOK, ToolTypes, FlagTypes,
              QueryTypes, BodyFollowsStatus, CursorFollowsPc, AbsentFromAdded
<1> QED BY <1>3, <1>4, <1>5, <1>10, <1>7, <1>8, <1>9 DEF ToolStep

\* getCompletedResults.
LEMMA TypePass == TypeInv /\ Pass => TypeInv'
<1> SUFFICES ASSUME TypeInv, Pass PROVE TypeInv'
  OBVIOUS
<1> USE DEF TypeInv, passUnchanged, loopVars, blockVars, listVars
<1>1. \A c : NextStop(c) \subseteq Ids
  BY DEF NextStop
<1>2. CASE YieldResult
  <2>1. left' \in Seq(Results) /\ cursor \in Ids
    BY <1>2 DEF YieldResult, TypeOK, QueryTypes
  <2>2. ToolTypes' /\ FlagTypes' /\ QueryTypes'
    <3>1. ToolTypes'
      BY <1>2, <2>1, SMTT(30) DEF YieldResult, TypeOK, ToolTypes, QueryTypes
    <3>2. FlagTypes'
      BY <1>2, SMTT(30) DEF YieldResult, TypeOK, FlagTypes
    <3>3. QueryTypes'
      BY <1>2, <2>1, SMTT(30) DEF YieldResult, TypeOK, QueryTypes
    <3> QED BY <3>1, <3>2, <3>3
  <2> QED BY <1>2, <2>2 DEF YieldResult, TypeOK, BodyFollowsStatus, CursorFollowsPc, AbsentFromAdded
<1>3. CASE YieldProgress
  <2>1. PICK t \in NextStop(From) : /\ progress[t] > 0
                                   /\ progress' = [progress EXCEPT ![t] = @ - 1]
                                   /\ cursor' = t /\ open' = FALSE
    BY <1>3 DEF YieldProgress
  <2>2. t \in Ids
    BY <1>1
  <2>6. UNCHANGED <<passUnchanged, status, left, pc, waitSet, listVars>> /\ MarkComplete
    BY <1>3 DEF YieldProgress
  <2>7. progress' \in [Ids -> Nat] /\ inProgress' \subseteq Ids
    <3>1. inProgress' \subseteq Ids
      BY <2>6 DEF MarkComplete, TypeOK, ToolTypes
    <3>2. progress \in [Ids -> Nat]
      BY DEF TypeOK, ToolTypes
    <3>3. progress[t] - 1 \in Nat
      BY <2>1, <2>2, <3>2
    <3> QED BY <2>1, <2>2, <3>1, <3>2, <3>3
  <2>3. ToolTypes'
    BY <2>6, <2>7 DEF TypeOK, ToolTypes
  <2>5. FlagTypes' /\ QueryTypes'
    <3>1. FlagTypes'
      BY <2>1, <2>6 DEF TypeOK, FlagTypes
    <3>2. QueryTypes'
      BY <2>1, <2>2, <2>6 DEF TypeOK, QueryTypes
    <3> QED BY <3>1, <3>2
  <2>4. CursorFollowsPc'
    BY <1>3, <2>1, <2>2 DEF YieldProgress, CursorFollowsPc
  <2> QED BY <1>3, <2>3, <2>4, <2>5 DEF YieldProgress, TypeOK, BodyFollowsStatus, AbsentFromAdded
<1>4. CASE YieldTool
  <2>1. PICK t \in NextStop(From) :
          /\ Deliverable(t)
          /\ status' = [status EXCEPT ![t] = "yielded"]
          /\ cursor' = t /\ open' = TRUE /\ left' = Tail(results[t])
          /\ emitted' = [emitted EXCEPT ![t] = @ + 1]
          /\ collected' = collected \cup {t}
    BY <1>4 DEF YieldTool
  <2>2. t \in Ids /\ status[t] = "completed"
    BY <1>1, <2>1 DEF Deliverable
  <2>3. left' \in Seq(Results)
    BY <2>1, <2>2 DEF TypeOK, ToolTypes, BodyFollowsStatus
  <2>4. ToolTypes'
    BY <1>4, <2>1, <2>2 DEF YieldTool, MarkComplete, TypeOK, ToolTypes, Statuses
  <2>7. FlagTypes' /\ QueryTypes'
    BY <1>4, <2>1, <2>2, <2>3 DEF YieldTool, TypeOK, FlagTypes, QueryTypes
  <2>5. CursorFollowsPc'
    BY <1>4, <2>1, <2>2 DEF YieldTool, CursorFollowsPc
  <2>6. BodyFollowsStatus' /\ AbsentFromAdded'
    BY <1>4, <2>1, <2>2 DEF YieldTool, TypeOK, ToolTypes, BodyFollowsStatus, AbsentFromAdded
  <2> QED BY <2>4, <2>5, <2>6, <2>7 DEF TypeOK
<1>5. CASE PassEnd
  <2>1. pc \in {"polling", "pass", "final"}
    BY <1>5 DEF PassEnd, CursorFollowsPc
  <2>2. pc' \in {"streaming", "parked", "head", "finish"}
    BY <1>5, <2>1 DEF PassEnd
  <2>3. ToolTypes' /\ FlagTypes'
    BY <1>5 DEF PassEnd, MarkComplete, TypeOK, ToolTypes, FlagTypes
  <2>4. QueryTypes'
    <3>1. cursor' = 0
      BY <1>5 DEF PassEnd
    <3>3. cursor' \in 0 .. MaxTools /\ pc' \in Phases
      BY <2>2, <3>1, MaxToolsAssumption DEF Phases
    <3>2. waitSet' \subseteq Ids
      BY <1>5 DEF PassEnd, TypeOK, QueryTypes, Executing
    <3> QED BY <1>5, <3>2, <3>3 DEF PassEnd, TypeOK, QueryTypes
  <2>5. CursorFollowsPc'
    BY <1>5, <2>2 DEF PassEnd, CursorFollowsPc
  <2> QED BY <1>5, <2>3, <2>4, <2>5 DEF PassEnd, TypeOK, BodyFollowsStatus, AbsentFromAdded
<1> QED BY <1>2, <1>3, <1>4, <1>5 DEF Pass

\* The other steps of the query loop and of the user leave the tools alone.
LEMMA TypeQuery ==
  TypeInv /\ (\/ LateBlock \/ Poll \/ EndStream \/ GateTurn \/ Fallback \/ DrainLast \/ Unpark
              \/ Finish \/ Settle \/ Interrupt \/ Cancel \/ Over \/ UNCHANGED vars)
    => TypeInv'
<1> SUFFICES ASSUME TypeInv,
                    \/ LateBlock \/ Poll \/ EndStream \/ GateTurn \/ Fallback \/ DrainLast
                    \/ Unpark \/ Finish \/ Settle \/ Interrupt \/ Cancel \/ Over
                    \/ UNCHANGED vars
             PROVE TypeInv'
  OBVIOUS
<1> USE MaxToolsAssumption
        DEF TypeInv, toolVars, loopVars, execVars, blockVars, genVars, listVars, queryVars, vars
<1>1. UNCHANGED <<toolVars, loopVars, open, hasErrored, added>>
  BY DEF LateBlock, Poll, EndStream, GateTurn, Fallback, DrainLast, Unpark, Finish, Settle,
         Interrupt, Cancel, Over
<1>2. ToolTypes' /\ BodyFollowsStatus' /\ AbsentFromAdded'
  BY <1>1 DEF TypeOK, ToolTypes, BodyFollowsStatus, AbsentFromAdded
<1>3. discarded' \in BOOLEAN /\ parent' \in {"none", "interrupt", "cancel"}
  BY DEF LateBlock, Poll, EndStream, GateTurn, Fallback, DrainLast, Unpark, Finish, Settle,
         Interrupt, Cancel, Over, TypeOK, FlagTypes
<1>4. FlagTypes'
  BY <1>1, <1>3 DEF TypeOK, FlagTypes
<1>5. pc' \in Phases /\ cursor' \in 0 .. MaxTools /\ CursorFollowsPc'
  BY DEF LateBlock, Poll, EndStream, GateTurn, Fallback, DrainLast, Unpark, Finish, Settle,
         Interrupt, Cancel, Over, TypeOK, QueryTypes, CursorFollowsPc, Phases
<1>6. late' \in 0 .. MaxTools /\ awaited' \in 0 .. MaxTools + 1 /\ left' \in Seq(Results)
  BY DEF LateBlock, Poll, EndStream, GateTurn, Fallback, DrainLast, Unpark, Finish, Settle,
         Interrupt, Cancel, Over, TypeOK, QueryTypes
<1>7. waitSet' \subseteq Ids /\ collected' \subseteq Ids
  BY DEF LateBlock, Poll, EndStream, GateTurn, Fallback, DrainLast, Unpark, Finish, Settle,
         Interrupt, Cancel, Over, TypeOK, QueryTypes, Executing
<1>8. emitted' \in [Ids -> Nat]
  <2>1. CASE Finish
    BY <2>1 DEF Finish, TypeOK, QueryTypes
  <2>2. CASE Settle
    BY <2>2 DEF Settle, TypeOK, QueryTypes
  <2>3. CASE ~Finish /\ ~Settle
    BY <2>3 DEF LateBlock, Poll, EndStream, GateTurn, Fallback, DrainLast, Unpark,
         Interrupt, Cancel, Over, TypeOK, QueryTypes
  <2> QED BY <2>1, <2>2, <2>3
<1>9. QueryTypes'
  BY <1>1, <1>5, <1>6, <1>7, <1>8 DEF TypeOK, QueryTypes
<1> QED BY <1>2, <1>4, <1>5, <1>9 DEF TypeOK

LEMMA TypeStep == TypeInv /\ [Next]_vars => TypeInv'
<1> SUFFICES ASSUME TypeInv, [Next]_vars PROVE TypeInv'
  OBVIOUS
<1>1. CASE AddTool
  BY <1>1, TypeAddTool
<1>2. CASE (\E p \in 2 .. MaxTools + 1 : ResumeLoop(p)) \/ (\E t \in Ids : Wake(t)) \/ DrainHead
  BY <1>2, TypeQueue
<1>3. CASE \E t \in Ids : ToolStep(t) \/ PermissionReject(t)
  BY <1>3, TypeTool
<1>4. CASE Pass
  BY <1>4, TypePass
<1>5. CASE \/ LateBlock \/ Poll \/ EndStream \/ GateTurn \/ Fallback \/ DrainLast \/ Unpark
           \/ Finish \/ Settle \/ Interrupt \/ Cancel \/ Over \/ UNCHANGED vars
  BY <1>5, TypeQuery
<1> QED BY <1>1, <1>2, <1>3, <1>4, <1>5 DEF Next, Drain

\* Every variable keeps its type and its bounds, and the relation of the query
\* loop's position to its generator and of a tool's body to its status, for
\* every stream of blocks.
THEOREM TypeCorrect == Spec => []TypeOK
<1>1. TypeInv => TypeOK
  BY DEF TypeInv
<1> QED BY <1>1, TypeInit, TypeStep, PTL DEF Spec

-----------------------------------------------------------------------------
(* Exclusive access and the order of starts.  ExclusiveAccess and StartOrder *)
(* are not inductive alone: a suspended processQueue could start a tool past *)
(* a queued one.  What keeps it from doing so is that no call has a queued   *)
(* tool behind its position (Queue(...)[3]).                                 *)

\* The tools in statuses st with bodies bd, and the calls of processQueue ls.
Exclusive(st) == \A t, u \in Ids : st[t] = "executing" /\ st[u] = "executing" /\ t # u
                                     => kind[t].safe /\ kind[u].safe
Started(st, bd) == \A t, u \in Ids :
                     t < u /\ st[t] = "queued" => bd[u] = "idle" \/ kind[u].gate
Behind(st, ls) == \A p \in ls : \A t \in Ids : t < p => st[t] \notin {"queued", "absent"}
GateSkipsQueue(st) == \A t \in Ids : kind[t].gate => st[t] \notin {"queued", "executing"}
Queue(st, bd, ls) == Exclusive(st) /\ Started(st, bd) /\ Behind(st, ls) /\ GateSkipsQueue(st)

OrderInv == TypeInv /\ Queue(status, body, loops)

\* The tool processQueue starts can execute, and no queued tool precedes it.
LEMMA PickedFirst ==
  ASSUME NEW st, NEW p \in Nat, \A u \in Ids : u < p => st[u] # "queued",
         NEW t \in Picked(st, p)
  PROVE /\ t \in Ids /\ st[t] = "queued" /\ CanExecute(st, t)
        /\ \A u \in Ids : u < t => st[u] # "queued"
<1>1. t \in Ids /\ st[t] = "queued" /\ CanExecute(st, t)
  BY DEF Picked
<1>2. ASSUME NEW u \in Ids, u < t, st[u] = "queued" PROVE FALSE
  <2>1. p <= u
    BY <1>2, MaxToolsAssumption
  <2>2. kind[u].safe /\ ~CanExecute(st, u)
    BY <1>2, <2>1 DEF Picked
  <2> QED BY <1>1, <2>2 DEF CanExecute
<1> QED BY <1>1, <1>2

\* A call of processQueue keeps the queue's invariant.
LEMMA ProcessQueueOrder ==
  ASSUME TypeOK, NEW st \in [Ids -> Statuses], NEW p \in Nat, NEW ls, NEW wk,
         ProcessQueue(p, st, ls, wk),
         Queue(st, body, ls),
         \A u \in Ids : u < p => st[u] # "queued",
         \A t, u \in Ids : t < u /\ st[t] = "absent" => st[u] = "absent",
         UNCHANGED kind
  PROVE Queue(status, body, loops)'
<1> SUFFICES Queue(status', body', loops')
  BY DEF Queue, Exclusive, Started, Behind, GateSkipsQueue
<1>1. CASE status' = st /\ body' = body /\ loops' = ls
  BY <1>1 DEF Queue, Exclusive, Started, Behind, GateSkipsQueue
<1>2. ASSUME NEW t \in Picked(st, p), ExecuteTool(t, st, ls, wk)
      PROVE Queue(status', body', loops')
  <2>1. /\ t \in Ids /\ st[t] = "queued" /\ CanExecute(st, t)
        /\ \A u \in Ids : u < t => st[u] # "queued"
    BY PickedFirst
  <2>2. PICK s \in {"executing", "completed"}, b \in {"running", "barred", "settled"} :
          status' = [st EXCEPT ![t] = s] /\ body' = [body EXCEPT ![t] = b]
    BY <1>2 DEF ExecuteTool, StartedAs
  <2>3. loops' = ls \cup {t + 1}
    BY <1>2 DEF ExecuteTool
  <2>4. Exclusive(status')
    <3>1. \A u \in Ids : u # t /\ st[u] = "executing" => kind[t].safe /\ kind[u].safe
      BY <2>1 DEF CanExecute, Executing
    <3> QED BY <2>1, <2>2, <3>1 DEF Queue, Exclusive
  <2>5. Started(status', body')
    BY <2>1, <2>2 DEF Queue, Started, TypeOK, ToolTypes
  <2>6. Behind(status', loops')
    <3>1. \A u \in Ids : u < t + 1 => status'[u] \notin {"queued", "absent"}
      BY <2>1, <2>2, MaxToolsAssumption
    <3>2. \A q \in ls : \A u \in Ids : u < q => status'[u] \notin {"queued", "absent"}
      BY <2>1, <2>2 DEF Queue, Behind
    <3> QED BY <2>3, <3>1, <3>2 DEF Behind
  <2>7. GateSkipsQueue(status')
    BY <2>1, <2>2 DEF Queue, GateSkipsQueue
  <2> QED BY <2>4, <2>5, <2>6, <2>7 DEF Queue
<1> QED BY <1>1, <1>2 DEF ProcessQueue

LEMMA OrderStep == OrderInv /\ [Next]_vars => OrderInv'
<1> SUFFICES ASSUME OrderInv, [Next]_vars PROVE Queue(status, body, loops)'
  BY TypeStep DEF OrderInv
<1> USE MaxToolsAssumption
<1>0. /\ TypeOK /\ status \in [Ids -> Statuses] /\ body \in [Ids -> Bodies]
      /\ loops \subseteq 2 .. MaxTools + 1
      /\ \A t, u \in Ids : t < u /\ status[t] = "absent" => status[u] = "absent"
  <2>1. TypeOK /\ ToolTypes /\ QueryTypes /\ AbsentFromAdded
    BY DEF OrderInv, TypeInv, TypeOK
  <2>2. \A t, u \in Ids : t < u /\ status[t] = "absent" => status[u] = "absent"
    BY <2>1 DEF AbsentFromAdded, QueryTypes
  <2> QED BY <2>1, <2>2 DEF ToolTypes
<1>1. \A ls : ls \subseteq loops => Queue(status, body, ls)
  BY DEF OrderInv, Queue, Behind
<1>2. CASE AddTool
  <2> DEFINE t == added + 1
  <2>1. /\ t \in Ids /\ status[t] = "absent" /\ UNCHANGED kind
        /\ \A u \in Ids : status[u] = "absent" <=> u >= t
    BY <1>2 DEF AddTool, OrderInv, TypeInv, TypeOK, QueryTypes, AbsentFromAdded
  <2>2. \A u \in Ids : u >= t => body[u] = "idle"
    BY <2>1 DEF OrderInv, TypeInv, TypeOK, ToolTypes, BodyFollowsStatus, Bodies
  <2>3. CASE kind[t].gate
    <3>1. /\ status' = [status EXCEPT ![t] = "completed"]
          /\ body' = [body EXCEPT ![t] = "settled"]
          /\ loops' = loops
      BY <1>2, <2>3 DEF AddTool
    <3> QED BY <1>0, <1>1, <2>1, <2>2, <2>3, <3>1
               DEF Queue, Exclusive, Started, Behind, GateSkipsQueue
  <2>4. CASE ~kind[t].gate
    <3> DEFINE st == [status EXCEPT ![t] = "queued"]
    <3>1. ProcessQueue(1, st, loops, wake)
      BY <1>2, <2>4 DEF AddTool
    <3>2. Queue(st, body, loops)
      <4>1. Exclusive(st) /\ GateSkipsQueue(st)
        BY <1>0, <1>1, <2>1, <2>4 DEF Queue, Exclusive, GateSkipsQueue
      <4>2. Started(st, body)
        BY <1>0, <1>1, <2>1, <2>2 DEF Queue, Started
      <4>3. Behind(st, loops)
        BY <1>0, <1>1, <2>1 DEF Queue, Behind
      <4> QED BY <4>1, <4>2, <4>3 DEF Queue
    <3>3. st \in [Ids -> Statuses]
      BY <1>0, <2>1 DEF Statuses
    <3>4. \A u, v \in Ids : u < v /\ st[u] = "absent" => st[v] = "absent"
      BY <1>0, <2>1
    <3> HIDE DEF st
    <3> QED BY <1>0, <2>1, <3>1, <3>2, <3>3, <3>4, ProcessQueueOrder
  <2> QED BY <2>3, <2>4
<1>3. ASSUME NEW p \in 2 .. MaxTools + 1, ResumeLoop(p) PROVE Queue(status, body, loops)'
  <2>1. ProcessQueue(p, status, loops \ {p}, wake) /\ UNCHANGED kind /\ p \in loops
    BY <1>3 DEF ResumeLoop
  <2>2. \A u \in Ids : u < p => status[u] # "queued"
    BY <1>1, <2>1 DEF Queue, Behind
  <2> QED BY <1>0, <1>1, <2>1, <2>2, ProcessQueueOrder
<1>4. ASSUME NEW t \in Ids, Wake(t) PROVE Queue(status, body, loops)'
  <2>1. ProcessQueue(1, status, loops, wake \ {t}) /\ UNCHANGED kind
    BY <1>4 DEF Wake
  <2> QED BY <1>0, <1>1, <2>1, ProcessQueueOrder
<1>5. CASE DrainHead
  <2>1. ProcessQueue(1, status, loops, wake) /\ UNCHANGED kind
    BY <1>5 DEF DrainHead
  <2> QED BY <1>0, <1>1, <2>1, ProcessQueueOrder
<1>6. ASSUME NEW t \in Ids, NEW s \in {"completed", "yielded"},
             NEW b \in {"running", "barred", "resulted", "closing", "settled"},
             status[t] \in {"executing", "completed"},
             status' = status \/ status' = [status EXCEPT ![t] = s],
             body' = body \/ body' = [body EXCEPT ![t] = b],
             UNCHANGED <<kind, loops>>
      PROVE Queue(status, body, loops)'
  <2>1. body[t] # "idle"
    BY <1>0, <1>6 DEF OrderInv, TypeInv, BodyFollowsStatus
  <2> QED BY <1>0, <1>1, <1>6, <2>1 DEF Queue, Exclusive, Started, Behind, GateSkipsQueue
<1>7. ASSUME NEW t \in Ids, ToolStep(t) \/ PermissionReject(t) PROVE Queue(status, body, loops)'
  <2>1. status[t] = "executing"
    BY <1>7 DEF ToolStep, ToolAborted, ToolProgress, ToolResult, BarredResult, ToolEnd, ToolThrow, Complete,
                PermissionReject, OrderInv, TypeInv, BodyFollowsStatus
  <2>2. /\ status' = status \/ status' = [status EXCEPT ![t] = "completed"]
        /\ \E b \in {"running", "barred", "resulted", "closing", "settled"} :
             body' = body \/ body' = [body EXCEPT ![t] = b]
        /\ UNCHANGED <<kind, loops>>
    BY <1>7 DEF ToolStep, ToolAborted, ToolProgress, ToolResult, BarredResult, ToolEnd, ToolThrow, Complete,
                PermissionReject, bodyUnchanged, execVars, toolVars, loopVars
  <2> QED BY <1>6, <2>1, <2>2
<1>8. CASE Pass
  <2>1. UNCHANGED <<kind, loops, body>>
    BY <1>8 DEF Pass, YieldResult, YieldProgress, YieldTool, PassEnd, passUnchanged, loopVars
  <2>2. CASE UNCHANGED status
    BY <1>1, <2>1, <2>2 DEF Queue, Exclusive, Started, Behind, GateSkipsQueue
  <2>3. ASSUME NEW t \in Ids, status[t] = "completed", status' = [status EXCEPT ![t] = "yielded"]
        PROVE Queue(status, body, loops)'
    BY <1>6, <2>1, <2>3
  <2>4. UNCHANGED status \/ \E t \in Ids : /\ status[t] = "completed"
                                          /\ status' = [status EXCEPT ![t] = "yielded"]
    BY <1>8 DEF Pass, YieldResult, YieldProgress, YieldTool, PassEnd, Deliverable, NextStop
  <2> QED BY <2>2, <2>3, <2>4
<1>9. CASE \/ LateBlock \/ Poll \/ EndStream \/ GateTurn \/ Fallback \/ DrainLast \/ Unpark
           \/ Finish \/ Settle \/ Interrupt \/ Cancel \/ Over \/ UNCHANGED vars
  <2>1. UNCHANGED <<kind, status, body, loops>>
    BY <1>9 DEF LateBlock, Poll, EndStream, GateTurn, Fallback, DrainLast, Unpark, Finish,
                Settle, Interrupt, Cancel, Over, vars, execVars, toolVars, loopVars
  <2> QED BY <1>1, <2>1 DEF Queue, Exclusive, Started, Behind, GateSkipsQueue
<1> QED BY <1>2, <1>3, <1>4, <1>5, <1>7, <1>8, <1>9 DEF Next, Drain

LEMMA OrderAlways == Spec => []OrderInv
<1>1. Init => OrderInv
  <2>1. Init => Queue(status, body, loops)
    BY DEF Init, Queue, Exclusive, Started, Behind, GateSkipsQueue
  <2> QED BY <2>1, TypeInit DEF OrderInv
<1> QED BY <1>1, OrderStep, PTL DEF Spec

\* "Non-concurrent tools must execute alone", for any number of tools: however
\* the suspended calls of processQueue, the callbacks of settled tools and the
\* query loop interleave, an executing unsafe tool is the only one.
THEOREM Exclusivity == Spec => []ExclusiveAccess
<1>1. OrderInv => ExclusiveAccess
  BY DEF OrderInv, Queue, Exclusive, ExclusiveAccess, Executing
<1> QED BY <1>1, OrderAlways, PTL

\* Tools start in the order of the stream, for any number of tools.
THEOREM StartsInOrder == Spec => []StartOrder
<1>1. OrderInv => StartOrder
  BY DEF OrderInv, Queue, Started, StartOrder
<1> QED BY <1>1, OrderAlways, PTL

\* Both, as the order of the runs: no interleaving of suspended calls of
\* processQueue breaks it.
THEOREM OrderOfRuns == Spec => []RunsInOrder
<1>1. ExclusiveAccess /\ StartOrder => RunsInOrder
  BY DEF RunsInOrder
<1> QED BY <1>1, Exclusivity, StartsInOrder, PTL

\* An unsafe tool starts after every earlier tool has finished.
THEOREM UnsafeStartsLast == Spec => []UnsafeSeesEarlier
<1>1. OrderInv => UnsafeSeesEarlier
  <2> SUFFICES ASSUME OrderInv, NEW t \in Ids, NEW u \in Ids, t < u,
                      status[u] = "executing", ~kind[u].safe
               PROVE status[t] \in {"completed", "yielded"}
    BY DEF UnsafeSeesEarlier
  <2>1. status[t] # "executing"
    BY DEF OrderInv, Queue, Exclusive
  <2>2. status[t] # "queued"
    BY DEF OrderInv, TypeInv, BodyFollowsStatus, Queue, Started, GateSkipsQueue
  <2>3. status[t] # "absent"
    BY MaxToolsAssumption DEF OrderInv, TypeInv, TypeOK, QueryTypes, AbsentFromAdded
  <2> QED BY <2>1, <2>2, <2>3 DEF OrderInv, TypeInv, TypeOK, ToolTypes, Statuses
<1> QED BY <1>1, OrderAlways, PTL
-----------------------------------------------------------------------------
(* What the steps do to the tools, said once for the invariants below.       *)

\* The statuses a call of processQueue finds: addTool has queued its tool.
Enqueued(st) ==
  \/ st = status
  \/ \E u \in Ids : /\ status[u] = "absent" /\ ~kind[u].gate
                    /\ st = [status EXCEPT ![u] = "queued"]

\* A queued tool starts, or gets the result of an aborted one at once.
Starts(t, st) ==
  /\ st[t] = "queued" /\ body[t] = "idle" /\ status[t] \in {"absent", "queued"}
  /\ inProgress' = inProgress \cup {t}
  /\ interruptible' = Interruptible(status')
  /\ \/ /\ AbortReason(t) = "none"
        /\ status' = [st EXCEPT ![t] = "executing"]
        /\ body' = [body EXCEPT ![t] = StartedAs]
        /\ results' = results
     \/ /\ AbortReason(t) \in Synthetic
        /\ status' = [st EXCEPT ![t] = "completed"]
        /\ body' = [body EXCEPT ![t] = "settled"]
        /\ results' = [results EXCEPT ![t] = <<AbortReason(t)>>]

QueueCall ==
  /\ \E st : /\ Enqueued(st)
             /\ \/ status' = st /\ UNCHANGED <<body, results, inProgress, interruptible>>
                \/ \E t \in Ids : Starts(t, st)
  /\ UNCHANGED <<kind, progress, sent, hasErrored, discarded, parent, late, open, left,
                 waitSet, emitted, collected>>

\* A call of processQueue, whoever makes it.
LEMMA QueueCallOf ==
  ASSUME TypeInv, NEW st, Enqueued(st), NEW p, NEW ls, NEW wk, ProcessQueue(p, st, ls, wk)
  PROVE \/ status' = st /\ UNCHANGED <<body, results, inProgress, interruptible>>
        \/ \E t \in Ids : Starts(t, st)
<1>1. ASSUME NEW t \in Picked(st, p), ExecuteTool(t, st, ls, wk) PROVE t \in Ids /\ Starts(t, st)
  <2>1. t \in Ids /\ st[t] = "queued"
    BY PickedType
  <2>2. status[t] \in {"absent", "queued"}
    BY <2>1 DEF Enqueued, TypeInv, TypeOK, ToolTypes
  <2>3. body[t] = "idle"
    BY <2>1, <2>2 DEF TypeInv, TypeOK, ToolTypes, BodyFollowsStatus, Bodies
  <2>4. AbortReason(t) \in Synthetic \cup {"none"} /\ "none" \notin Synthetic
    BY ReasonType DEF Synthetic
  <2> QED BY <1>1, <2>1, <2>2, <2>3, <2>4 DEF ExecuteTool, UpdateInterruptible, Starts
<1> QED BY <1>1 DEF ProcessQueue

QueueStep == (\E p \in 2 .. MaxTools + 1 : ResumeLoop(p)) \/ (\E t \in Ids : Wake(t)) \/ DrainHead
Refused == AddTool /\ kind[added + 1].gate

LEMMA QueueCalls ==
  ASSUME TypeInv, QueueStep \/ (AddTool /\ ~kind[added + 1].gate) PROVE QueueCall
<1>1. Enqueued(status)
  BY DEF Enqueued
<1>2. ASSUME NEW p \in 2 .. MaxTools + 1, ResumeLoop(p) PROVE QueueCall
  <2>1. ProcessQueue(p, status, loops \ {p}, wake)
    BY <1>2 DEF ResumeLoop
  <2> QED BY <1>1, <1>2, <2>1, QueueCallOf DEF ResumeLoop, blockVars, listVars, QueueCall
<1>3. ASSUME NEW t \in Ids, Wake(t) PROVE QueueCall
  <2>1. ProcessQueue(1, status, loops, wake \ {t})
    BY <1>3 DEF Wake
  <2> QED BY <1>1, <1>3, <2>1, QueueCallOf DEF Wake, queryVars, genVars, listVars, QueueCall
<1>4. CASE DrainHead
  <2>1. ProcessQueue(1, status, loops, wake)
    BY <1>4 DEF DrainHead
  <2> QED BY <1>1, <1>4, <2>1, QueueCallOf DEF DrainHead, blockVars, listVars, QueueCall
<1>5. CASE AddTool /\ ~kind[added + 1].gate
  <2> DEFINE st == [status EXCEPT ![added + 1] = "queued"]
  <2>1. ProcessQueue(1, st, loops, wake)
    BY <1>5 DEF AddTool
  <2>2. added + 1 \in Ids /\ status[added + 1] = "absent"
    BY <1>5, MaxToolsAssumption DEF AddTool, TypeInv, TypeOK, QueryTypes, AbsentFromAdded
  <2>3. Enqueued(st)
    BY <1>5, <2>2 DEF Enqueued
  <2> HIDE DEF st
  <2> QED BY <1>5, <2>1, <2>3, QueueCallOf DEF AddTool, genVars, listVars, QueueCall
<1> QED BY <1>2, <1>3, <1>4, <1>5 DEF QueueStep

\* A refused block is complete at once.
LEMMA Refusal ==
  ASSUME TypeInv, Refused
  PROVE LET t == added + 1 IN
        /\ t \in Ids /\ status[t] = "absent" /\ body[t] = "idle" /\ kind[t].gate
        /\ status' = [status EXCEPT ![t] = "completed"]
        /\ body' = [body EXCEPT ![t] = "settled"]
        /\ results' = [results EXCEPT ![t] = <<"refused">>]
        /\ pc = "streaming"
        /\ UNCHANGED <<inProgress, interruptible, kind, progress, sent, hasErrored, discarded,
                       parent, late, awaited, pc, cursor, open, left, waitSet, emitted,
                       collected>>
<1>1. added + 1 \in Ids /\ status[added + 1] = "absent"
  BY MaxToolsAssumption DEF Refused, AddTool, TypeInv, TypeOK, QueryTypes, AbsentFromAdded
<1>2. body[added + 1] = "idle"
  BY <1>1 DEF TypeInv, TypeOK, ToolTypes, BodyFollowsStatus, Bodies
<1> QED BY <1>1, <1>2 DEF Refused, AddTool, genVars, listVars

\* A step of a tool's body: its results grow, or it completes with them.
LEMMA ToolSteps ==
  ASSUME TypeInv, NEW t \in Ids, ToolStep(t)
  PROVE /\ status[t] = "executing" /\ body[t] \in {"running", "barred", "resulted", "closing"}
        /\ \/ /\ UNCHANGED <<status, interruptible>>
              /\ body' = body \/ \E b \in {"resulted", "closing"} : body' = [body EXCEPT ![t] = b]
           \/ /\ status' = [status EXCEPT ![t] = "completed"]
              /\ body' = [body EXCEPT ![t] = "settled"]
              /\ interruptible' = Interruptible(status')
        /\ progress' = progress \/ progress' = [progress EXCEPT ![t] = @ + 1]
        /\ UNCHANGED <<kind, inProgress, discarded, loops, awaited, queryVars, parent>>
  BY DEF ToolStep, ToolAborted, ToolProgress, ToolResult, BarredResult, ToolEnd, ToolThrow, Complete,
         UpdateInterruptible, bodyUnchanged, TypeInv, BodyFollowsStatus

\* The steps that leave the tools alone.
OtherStep ==
  \/ LateBlock \/ Poll \/ EndStream \/ GateTurn \/ Fallback \/ DrainLast \/ Unpark
  \/ Finish \/ Settle \/ Interrupt \/ Cancel \/ Over \/ UNCHANGED vars
  \/ \E t \in Ids : PermissionReject(t)

LEMMA OtherSteps == OtherStep => UNCHANGED <<toolVars, loopVars, hasErrored, open, left, added>>
  BY DEF OtherStep, LateBlock, Poll, EndStream, GateTurn, Fallback, DrainLast, Unpark, Finish,
         Settle, Interrupt, Cancel, Over, PermissionReject, vars, execVars, loopVars, queryVars,
         blockVars, genVars

\* Every step is one of these.
LEMMA Steps ==
  ASSUME [Next]_vars
  PROVE \/ QueueStep \/ (AddTool /\ ~kind[added + 1].gate) \/ Refused
        \/ \E t \in Ids : ToolStep(t)
        \/ Pass \/ OtherStep
  BY DEF Next, Drain, QueueStep, Refused, OtherStep

\* The generator delivers progress, delivers a tool, or goes on in one or ends.
Moves(t) == t \in Ids /\ t \in NextStop(From) /\ cursor' = t

LEMMA PassSteps ==
  ASSUME TypeInv, Pass
  PROVE /\ cursor \in Ids
        /\ UNCHANGED <<kind, body, results, sent, interruptible, hasErrored, discarded, loops,
                       awaited, parent, added, late>>
        /\ \/ YieldResult /\ UNCHANGED <<status, progress, inProgress, pc, cursor, open, waitSet>>
           \/ /\ MarkComplete
              /\ \E t : /\ Moves(t) /\ open' = FALSE /\ progress[t] > 0
                        /\ progress' = [progress EXCEPT ![t] = @ - 1]
              /\ UNCHANGED <<status, pc, waitSet, emitted, collected>>
           \/ /\ MarkComplete
              /\ \E t : /\ Moves(t) /\ open' = TRUE /\ Deliverable(t)
                        /\ status' = [status EXCEPT ![t] = "yielded"]
                        /\ emitted' = [emitted EXCEPT ![t] = @ + 1]
                        /\ collected' = collected \cup {t}
              /\ UNCHANGED <<progress, pc, waitSet>>
           \/ /\ MarkComplete /\ cursor' = 0 /\ open' = FALSE
              /\ pc' \in {"streaming", "parked", "head", "finish"}
              /\ UNCHANGED <<status, progress, emitted, collected>>
<1>1. cursor \in Ids /\ pc \in {"polling", "pass", "final"}
  <2>1. cursor # 0
    BY DEF Pass, YieldResult, YieldProgress, YieldTool, PassEnd
  <2> QED BY <2>1 DEF TypeInv, TypeOK, QueryTypes, CursorFollowsPc
<1>2. CASE YieldResult
  BY <1>1, <1>2 DEF YieldResult, passUnchanged, loopVars, blockVars
<1>3. CASE YieldProgress
  <2>1. PICK t \in NextStop(From) : /\ progress[t] > 0
                                   /\ progress' = [progress EXCEPT ![t] = @ - 1]
                                   /\ cursor' = t /\ open' = FALSE
    BY <1>3 DEF YieldProgress
  <2>2. Moves(t)
    BY <2>1 DEF Moves, NextStop
  <2> QED BY <1>1, <1>3, <2>1, <2>2
             DEF YieldProgress, passUnchanged, loopVars, blockVars, listVars
<1>4. CASE YieldTool
  <2>1. PICK t \in NextStop(From) :
          /\ Deliverable(t)
          /\ status' = [status EXCEPT ![t] = "yielded"]
          /\ cursor' = t /\ open' = TRUE
          /\ emitted' = [emitted EXCEPT ![t] = @ + 1]
          /\ collected' = collected \cup {t}
    BY <1>4 DEF YieldTool
  <2>2. Moves(t)
    BY <2>1 DEF Moves, NextStop
  <2> QED BY <1>1, <1>4, <2>1, <2>2 DEF YieldTool, passUnchanged, loopVars, blockVars
<1>5. CASE PassEnd
  BY <1>1, <1>5 DEF PassEnd, passUnchanged, loopVars, blockVars, listVars
<1> QED BY <1>2, <1>3, <1>4, <1>5 DEF Pass

-----------------------------------------------------------------------------
(* What others see of the executor.                                          *)

\* The generator is open only in a tool it has yielded, and the drain awaits a
\* call of processQueue only at "queue".
OpenIsYielded == open => cursor # 0 /\ status[cursor] = "yielded"
AwaitedFollowsPc == awaited # 0 <=> pc = "queue"

\* discardAndSettle waits for what runs, and nothing starts meanwhile.
SettleWaits ==
  /\ pc \in {"settling", "gated"} => discarded
  /\ pc = "settling" => Executing(status) \subseteq waitSet

SeenInv ==
  /\ OrderInv
  /\ InterruptibleIsCurrent
  /\ OpenIsYielded /\ AwaitedFollowsPc /\ InProgressIsCurrent
  /\ ProgressDelivered
  /\ SettleWaits /\ SettledMeansQuiet

\* What a step does to the set of the executing tools is what the flag is told.
LEMMA FlagStep == TypeInv /\ InterruptibleIsCurrent /\ [Next]_vars => InterruptibleIsCurrent'
<1> SUFFICES ASSUME TypeInv, InterruptibleIsCurrent, [Next]_vars PROVE InterruptibleIsCurrent'
  OBVIOUS
<1>0. status \in [Ids -> Statuses]
  BY DEF TypeInv, TypeOK, ToolTypes
<1>1. ASSUME UNCHANGED <<kind, interruptible>>, Executing(status') = Executing(status)
      PROVE InterruptibleIsCurrent'
  BY <1>1 DEF InterruptibleIsCurrent, Interruptible
<1>2. ASSUME UNCHANGED kind, interruptible' = Interruptible(status')
      PROVE InterruptibleIsCurrent'
  BY <1>2 DEF InterruptibleIsCurrent, Interruptible, Executing
<1>3. CASE QueueStep \/ (AddTool /\ ~kind[added + 1].gate)
  <2>1. QueueCall
    BY <1>3, QueueCalls
  <2>2. PICK st : /\ Enqueued(st)
                  /\ \/ status' = st /\ UNCHANGED <<body, results, inProgress, interruptible>>
                     \/ \E t \in Ids : Starts(t, st)
    BY <2>1 DEF QueueCall
  <2>3. Executing(st) = Executing(status)
    BY <1>0, <2>2 DEF Enqueued, Executing
  <2> QED BY <1>1, <1>2, <2>1, <2>2, <2>3 DEF QueueCall, Starts
<1>4. CASE Refused
  BY <1>0, <1>1, <1>4, Refusal DEF Executing
<1>5. ASSUME NEW t \in Ids, ToolStep(t) PROVE InterruptibleIsCurrent'
  BY <1>1, <1>2, <1>5, ToolSteps
<1>6. CASE Pass
  <2>1. UNCHANGED <<kind, interruptible>>
    BY <1>6, PassSteps
  <2>2. Executing(status') = Executing(status)
    BY <1>0, <1>6, PassSteps DEF Deliverable, Executing, Moves
  <2> QED BY <1>1, <2>1, <2>2
<1>7. CASE OtherStep
  BY <1>1, <1>7, OtherSteps DEF toolVars
<1> QED BY <1>3, <1>4, <1>5, <1>6, <1>7, Steps

\* Nothing is yielded with progress left, since only running tools make some.
LEMMA ProgressStep == TypeInv /\ ProgressDelivered /\ [Next]_vars => ProgressDelivered'
<1> SUFFICES ASSUME TypeInv, ProgressDelivered, [Next]_vars,
                    NEW u \in Ids, status'[u] = "yielded"
             PROVE progress'[u] = 0
  BY DEF ProgressDelivered
<1>0. status \in [Ids -> Statuses] /\ progress \in [Ids -> Nat]
  BY DEF TypeInv, TypeOK, ToolTypes
<1>1. status[u] = "yielded" => progress[u] = 0
  BY DEF ProgressDelivered
<1>3. CASE QueueStep \/ (AddTool /\ ~kind[added + 1].gate)
  BY <1>0, <1>1, <1>3, QueueCalls DEF QueueCall, Enqueued, Starts
<1>4. CASE Refused
  BY <1>0, <1>1, <1>4, Refusal
<1>5. ASSUME NEW t \in Ids, ToolStep(t) PROVE progress'[u] = 0
  BY <1>0, <1>1, <1>5, ToolSteps
<1>6. CASE Pass
  <2>1. CASE UNCHANGED <<status, progress>>
    BY <1>1, <2>1
  <2>2. ASSUME NEW t \in Ids, progress[t] > 0, UNCHANGED status,
               progress' = [progress EXCEPT ![t] = @ - 1]
        PROVE progress'[u] = 0
    BY <1>0, <1>1, <2>2
  <2>3. ASSUME NEW t \in Ids, Deliverable(t), UNCHANGED progress,
               status' = [status EXCEPT ![t] = "yielded"]
        PROVE progress'[u] = 0
    BY <1>0, <1>1, <2>3 DEF Deliverable
  <2> QED BY <1>6, <2>1, <2>2, <2>3, PassSteps DEF Moves
<1>7. CASE OtherStep
  BY <1>1, <1>7, OtherSteps DEF toolVars
<1> QED BY <1>3, <1>4, <1>5, <1>6, <1>7, Steps

\* The generator is open in a yielded tool only, and not at all while the drain
\* awaits a call of processQueue.
LEMMA OpenStep ==
  TypeInv /\ OpenIsYielded /\ AwaitedFollowsPc /\ [Next]_vars => OpenIsYielded' /\ AwaitedFollowsPc'
<1> SUFFICES ASSUME TypeInv, OpenIsYielded, AwaitedFollowsPc, [Next]_vars
             PROVE OpenIsYielded' /\ AwaitedFollowsPc'
  OBVIOUS
<1>0. /\ status \in [Ids -> Statuses] /\ CursorFollowsPc /\ cursor \in 0 .. MaxTools
      /\ MaxTools \in Nat /\ open \in BOOLEAN
      /\ (cursor # 0 => cursor \in Ids)
  BY MaxToolsAssumption DEF TypeInv, TypeOK, ToolTypes, QueryTypes, FlagTypes
<1>1. ASSUME UNCHANGED <<cursor, open>>, \A t \in Ids : status[t] = "yielded" => status'[t] = "yielded"
      PROVE OpenIsYielded'
  BY <1>0, <1>1 DEF OpenIsYielded
<1>2. ASSUME QueueCall PROVE \A t \in Ids : status[t] = "yielded" => status'[t] = "yielded"
  BY <1>0, <1>2 DEF QueueCall, Enqueued, Starts
<1>3. ASSUME NEW p \in 2 .. MaxTools + 1, ResumeLoop(p) PROVE OpenIsYielded' /\ AwaitedFollowsPc'
  <2>1. QueueCall
    BY <1>3, QueueCalls DEF QueueStep
  <2>2. CASE awaited # p
    <3>1. UNCHANGED <<awaited, pc, cursor, open>>
      BY <1>3, <2>2 DEF ResumeLoop
    <3> QED BY <1>1, <1>2, <2>1, <3>1 DEF AwaitedFollowsPc
  <2>3. CASE awaited = p
    <3>1. pc = "queue" /\ cursor = 0 /\ open = FALSE
      BY <1>0, <2>3 DEF AwaitedFollowsPc, CursorFollowsPc, OpenIsYielded
    <3>2. open' = FALSE
      BY <2>1, <3>1 DEF QueueCall
    <3>3. AwaitedFollowsPc'
      BY <1>3, <2>3, <3>1 DEF ResumeLoop, AwaitedFollowsPc
    <3> QED BY <3>2, <3>3 DEF OpenIsYielded
  <2> QED BY <2>2, <2>3
<1>4. ASSUME NEW t \in Ids, Wake(t) PROVE OpenIsYielded' /\ AwaitedFollowsPc'
  <2>1. QueueCall
    BY <1>4, QueueCalls DEF QueueStep
  <2>2. UNCHANGED <<awaited, pc, cursor, open>>
    BY <1>4 DEF Wake, queryVars, genVars
  <2> QED BY <1>1, <1>2, <2>1, <2>2 DEF AwaitedFollowsPc
<1>5. CASE DrainHead
  <2>1. pc = "head" /\ cursor = 0 /\ open = FALSE /\ open' = FALSE
    BY <1>0, <1>5 DEF DrainHead, CursorFollowsPc, OpenIsYielded
  <2>2. AwaitedFollowsPc'
    BY <1>5, <2>1 DEF DrainHead, AwaitedFollowsPc
  <2> QED BY <2>1, <2>2 DEF OpenIsYielded
<1>6. CASE AddTool
  <2>1. /\ UNCHANGED <<awaited, pc, cursor, open>>
        /\ \A t \in Ids : status[t] = "yielded" => status'[t] = "yielded"
    <3>1. UNCHANGED <<awaited, pc, cursor, open>>
      BY <1>6 DEF AddTool, genVars
    <3>2. CASE Refused
      BY <1>0, <3>1, <3>2, Refusal
    <3>3. CASE ~Refused
      BY <1>2, <1>6, <3>1, <3>3, QueueCalls DEF Refused
    <3> QED BY <3>2, <3>3
  <2> QED BY <1>1, <2>1 DEF AwaitedFollowsPc
<1>7. ASSUME NEW t \in Ids, ToolStep(t) PROVE OpenIsYielded' /\ AwaitedFollowsPc'
  <2>1. /\ UNCHANGED <<awaited, pc, cursor, open>>
        /\ \A u \in Ids : status[u] = "yielded" => status'[u] = "yielded"
    BY <1>0, <1>7, ToolSteps DEF queryVars, genVars
  <2> QED BY <1>1, <2>1 DEF AwaitedFollowsPc
<1>8. CASE Pass
  <2>0. pc \in {"polling", "pass", "final"}
    BY <1>0, <1>8, PassSteps DEF CursorFollowsPc
  <2>1. AwaitedFollowsPc'
    BY <1>8, <2>0, PassSteps DEF AwaitedFollowsPc
  <2>2. OpenIsYielded'
    <3>1. CASE UNCHANGED <<status, cursor, open>>
      BY <1>1, <3>1
    <3>2. ASSUME NEW t \in Ids, cursor' = t, status' = [status EXCEPT ![t] = "yielded"]
          PROVE OpenIsYielded'
      BY <1>0, <3>2 DEF OpenIsYielded
    <3>3. CASE open' = FALSE
      BY <3>3 DEF OpenIsYielded
    <3> QED BY <1>8, <3>1, <3>2, <3>3, PassSteps DEF Moves
  <2> QED BY <2>1, <2>2
<1>9. CASE OtherStep
  <2>1. UNCHANGED <<status, awaited, open>>
    BY <1>9, OtherSteps DEF toolVars, loopVars
  <2>2. AwaitedFollowsPc'
    <3>1. UNCHANGED pc \/ (pc # "queue" /\ pc' # "queue")
      BY <1>9 DEF OtherStep, LateBlock, Poll, EndStream, GateTurn, Fallback, DrainLast, Unpark,
         Finish, Settle, Interrupt, Cancel, Over, PermissionReject, vars, execVars, queryVars
    <3> QED BY <2>1, <3>1 DEF AwaitedFollowsPc
  <2>3. UNCHANGED cursor \/ cursor = 0
    BY <1>0, <1>9 DEF OtherStep, LateBlock, Poll, EndStream, GateTurn, Fallback, DrainLast, Unpark,
         Finish, Settle, Interrupt, Cancel, Over, PermissionReject, vars, queryVars,
         genVars, CursorFollowsPc
  <2> QED BY <1>1, <2>1, <2>2, <2>3 DEF OpenIsYielded
<1> QED BY <1>3, <1>4, <1>5, <1>6, <1>7, <1>8, <1>9, Steps DEF QueueStep, Refused

\* The generator is not moved while it is open, but by itself.
LEMMA CursorStays ==
  ASSUME TypeInv, OpenIsYielded, AwaitedFollowsPc, QueueStep \/ AddTool \/ OtherStep
  PROVE UNCHANGED cursor \/ open = FALSE
<1>0. CursorFollowsPc /\ open \in BOOLEAN
  BY DEF TypeInv, TypeOK, FlagTypes
<1>1. ASSUME NEW p \in 2 .. MaxTools + 1, ResumeLoop(p) PROVE UNCHANGED cursor \/ open = FALSE
  BY <1>0, <1>1 DEF ResumeLoop, AwaitedFollowsPc, CursorFollowsPc, OpenIsYielded
<1>2. CASE DrainHead
  BY <1>0, <1>2 DEF DrainHead, CursorFollowsPc, OpenIsYielded
<1>3. CASE (\E t \in Ids : Wake(t)) \/ AddTool
  BY <1>3 DEF Wake, AddTool, queryVars, genVars
<1>4. CASE OtherStep
  BY <1>0, <1>4 DEF OtherStep, LateBlock, Poll, EndStream, GateTurn, Fallback, DrainLast, Unpark,
     Finish, Settle, Interrupt, Cancel, Over, PermissionReject, vars, queryVars,
     genVars, CursorFollowsPc, OpenIsYielded
<1> QED BY <1>1, <1>2, <1>3, <1>4 DEF QueueStep

\* A spinner is switched on by a start and off by the generator leaving the tool.
LEMMA InProgressStep ==
  OrderInv /\ OpenIsYielded /\ AwaitedFollowsPc /\ InProgressIsCurrent /\ [Next]_vars
    => InProgressIsCurrent'
<1> SUFFICES ASSUME OrderInv, OpenIsYielded, AwaitedFollowsPc, InProgressIsCurrent, [Next]_vars
             PROVE InProgressIsCurrent'
  OBVIOUS
<1>0. /\ status \in [Ids -> Statuses] /\ body \in [Ids -> Bodies] /\ TypeInv
      /\ inProgress \subseteq Ids
  BY DEF OrderInv, TypeInv, TypeOK, ToolTypes
<1>1. ASSUME UNCHANGED <<kind, inProgress, open>>, UNCHANGED cursor \/ open = FALSE,
             \A t \in Ids : /\ status'[t] = "yielded" <=> status[t] = "yielded"
                            /\ body'[t] = "idle" <=> body[t] = "idle"
      PROVE InProgressIsCurrent'
  BY <1>1 DEF InProgressIsCurrent
<1>2. CASE QueueStep \/ (AddTool /\ ~kind[added + 1].gate)
  <2>1. QueueCall /\ UNCHANGED <<kind, open>> /\ (UNCHANGED cursor \/ open = FALSE)
    BY <1>0, <1>2, QueueCalls, CursorStays DEF QueueCall
  <2>2. PICK st : /\ Enqueued(st)
                  /\ \/ status' = st /\ UNCHANGED <<body, results, inProgress, interruptible>>
                     \/ \E t \in Ids : Starts(t, st)
    BY <2>1 DEF QueueCall
  <2>3. CASE status' = st /\ UNCHANGED <<body, inProgress>>
    <3>1. \A t \in Ids : status'[t] = "yielded" <=> status[t] = "yielded"
      BY <1>0, <2>2, <2>3 DEF Enqueued
    <3> QED BY <1>1, <2>1, <2>3, <3>1
  <2>4. ASSUME NEW t \in Ids, Starts(t, st) PROVE InProgressIsCurrent'
    <3>1. ~kind[t].gate
      BY <1>0, <2>2, <2>4 DEF Starts, StartedAs, Enqueued, OrderInv, Queue, GateSkipsQueue
    <3>4. st \in [Ids -> Statuses] /\ \A u \in Ids : st[u] = "yielded" <=> status[u] = "yielded"
      BY <1>0, <2>2 DEF Enqueued, Statuses
    <3>5. \A u \in Ids : u # t => status'[u] = st[u] /\ body'[u] = body[u]
      BY <1>0, <2>4, <3>4 DEF Starts
    <3>2. \A u \in Ids : u # t => /\ status'[u] = "yielded" <=> status[u] = "yielded"
                                  /\ body'[u] = body[u]
      BY <3>4, <3>5
    <3>3. status'[t] # "yielded" /\ body'[t] # "idle" /\ inProgress' = inProgress \cup {t}
      BY <1>0, <2>2, <2>4 DEF Starts, StartedAs, Enqueued
    <3> QED BY <2>1, <3>1, <3>2, <3>3 DEF InProgressIsCurrent
  <2> QED BY <2>2, <2>3, <2>4
<1>3. CASE Refused
  <2> DEFINE t == added + 1
  <2>1. /\ t \in Ids /\ kind[t].gate /\ UNCHANGED <<kind, inProgress, open, cursor>>
        /\ status' = [status EXCEPT ![t] = "completed"]
        /\ body' = [body EXCEPT ![t] = "settled"]
    BY <1>0, <1>3, Refusal
  <2>2. \A u \in Ids : u # t => status'[u] = status[u] /\ body'[u] = body[u]
    BY <2>1
  <2> HIDE DEF t
  <2> QED BY <2>1, <2>2 DEF InProgressIsCurrent
<1>4. ASSUME NEW t \in Ids, ToolStep(t) PROVE InProgressIsCurrent'
  <2>1. /\ UNCHANGED <<kind, inProgress, open, cursor>>
        /\ \A u \in Ids : /\ status'[u] = "yielded" <=> status[u] = "yielded"
                          /\ body'[u] = "idle" <=> body[u] = "idle"
    BY <1>0, <1>4, ToolSteps DEF queryVars, genVars
  <2> QED BY <1>1, <2>1
<1>5. CASE Pass
  <2>1. cursor \in Ids /\ UNCHANGED <<kind, body>>
    BY <1>0, <1>5, PassSteps
  <2>2. CASE UNCHANGED <<status, inProgress, open, cursor>>
    BY <1>1, <2>1, <2>2
  <2>3. ASSUME MarkComplete, open' = FALSE, UNCHANGED status PROVE InProgressIsCurrent'
    <3>1. \A t \in Ids : t \in inProgress' <=> t \in inProgress /\ ~(open /\ cursor = t)
      BY <2>3 DEF MarkComplete
    <3>2. open => status[cursor] = "yielded"
      BY DEF OpenIsYielded
    <3> QED BY <2>1, <2>3, <3>1, <3>2 DEF InProgressIsCurrent
  <2>4. ASSUME MarkComplete, NEW u, Moves(u), open' = TRUE, Deliverable(u),
               status' = [status EXCEPT ![u] = "yielded"]
        PROVE InProgressIsCurrent'
    <3>1. \A t \in Ids : t \in inProgress' <=> t \in inProgress /\ ~(open /\ cursor = t)
      BY <2>4 DEF MarkComplete
    <3>2. open => status[cursor] = "yielded"
      BY DEF OpenIsYielded
    <3>3. u \in Ids /\ status[u] = "completed" /\ cursor' = u
      BY <2>4 DEF Moves, Deliverable
    <3>4. \A t \in Ids : status'[t] = (IF t = u THEN "yielded" ELSE status[t])
      BY <1>0, <2>4
    <3> QED BY <2>1, <2>4, <3>1, <3>2, <3>3, <3>4 DEF InProgressIsCurrent
  <2> QED BY <1>0, <1>5, <2>2, <2>3, <2>4, PassSteps
<1>6. CASE OtherStep
  <2>1. UNCHANGED <<kind, status, body, inProgress, open>>
    BY <1>6, OtherSteps DEF toolVars
  <2> QED BY <1>0, <1>1, <1>6, <2>1, CursorStays
<1> QED BY <1>2, <1>3, <1>4, <1>5, <1>6, Steps

\* After a discard a call of processQueue starts no tool.
LEMMA DiscardedStartsNone ==
  ASSUME TypeInv, discarded, QueueCall
  PROVE /\ Executing(status') = Executing(status)
        /\ \A t \in Ids : body'[t] \in {body[t], "settled"}
<1>0. status \in [Ids -> Statuses] /\ body \in [Ids -> Bodies]
  BY DEF TypeInv, TypeOK, ToolTypes
<1>1. \A t : AbortReason(t) # "none"
  BY DEF AbortReason
<1>2. PICK st : /\ Enqueued(st)
                /\ \/ status' = st /\ UNCHANGED <<body, results, inProgress, interruptible>>
                   \/ \E t \in Ids : Starts(t, st)
  BY DEF QueueCall
<1>3. Executing(st) = Executing(status) /\ st \in [Ids -> Statuses]
  BY <1>0, <1>2 DEF Enqueued, Executing, Statuses
<1>4. ASSUME NEW t \in Ids, Starts(t, st)
      PROVE /\ Executing(status') = Executing(status)
            /\ \A u \in Ids : body'[u] \in {body[u], "settled"}
  <2>1. /\ status' = [st EXCEPT ![t] = "completed"] /\ body' = [body EXCEPT ![t] = "settled"]
        /\ st[t] = "queued"
    BY <1>1, <1>4 DEF Starts
  <2>2. Executing(status') = Executing(st)
    BY <1>3, <2>1 DEF Executing
  <2> QED BY <1>0, <1>3, <2>1, <2>2
<1> QED BY <1>2, <1>3, <1>4

\* A gated turn is discarded, and waits for every tool that ran.
LEMMA SettleStep ==
  TypeInv /\ SettleWaits /\ SettledMeansQuiet /\ [Next]_vars => SettleWaits' /\ SettledMeansQuiet'
<1> SUFFICES ASSUME TypeInv, SettleWaits, SettledMeansQuiet, [Next]_vars
             PROVE SettleWaits' /\ SettledMeansQuiet'
  OBVIOUS
<1>0. status \in [Ids -> Statuses] /\ CursorFollowsPc /\ discarded \in BOOLEAN
  BY DEF TypeInv, TypeOK, ToolTypes, FlagTypes
<1> DEFINE Inside(c) == c \in {"settling", "gated"}
<1>1. ASSUME Inside(pc') => /\ UNCHANGED <<pc, discarded, waitSet>>
                            /\ Executing(status') \subseteq Executing(status)
      PROVE SettleWaits' /\ SettledMeansQuiet'
  <2>1. Executing(status)' = Executing(status')
    BY DEF Executing
  <2> QED BY <1>1, <2>1 DEF SettleWaits, SettledMeansQuiet
<1>2. CASE QueueStep \/ (AddTool /\ ~kind[added + 1].gate)
  <2>1. QueueCall /\ UNCHANGED <<discarded, waitSet>>
    BY <1>2, QueueCalls DEF QueueCall
  <2>2. Inside(pc') => UNCHANGED pc
    BY <1>2 DEF QueueStep, ResumeLoop, Wake, DrainHead, AddTool, queryVars
  <2>3. Inside(pc') => Executing(status') = Executing(status)
    BY <2>1, <2>2, DiscardedStartsNone DEF SettleWaits
  <2> QED BY <1>1, <2>1, <2>2, <2>3
<1>3. CASE Refused
  BY <1>1, <1>3, Refusal
<1>4. ASSUME NEW t \in Ids, ToolStep(t) PROVE SettleWaits' /\ SettledMeansQuiet'
  <2>1. UNCHANGED <<pc, discarded, waitSet>>
    BY <1>4, ToolSteps DEF queryVars
  <2>2. Executing(status') \subseteq Executing(status)
    BY <1>0, <1>4, ToolSteps DEF Executing
  <2> QED BY <1>1, <2>1, <2>2
<1>5. CASE Pass
  <2>0. pc \in {"polling", "pass", "final"}
    BY <1>0, <1>5, PassSteps DEF CursorFollowsPc
  <2>2. pc' = pc \/ pc' \in {"streaming", "parked", "head", "finish"}
    BY <1>5, PassSteps
  <2>1. ~Inside(pc')
    BY <2>0, <2>2
  <2> QED BY <1>1, <2>1
<1>6. CASE GateTurn
  BY <1>6 DEF GateTurn, toolVars, SettleWaits, SettledMeansQuiet, Executing
<1>7. CASE Settle
  <2>1. discarded /\ \A t \in Executing(status) : t \in waitSet
    BY <1>7 DEF Settle, SettleWaits
  <2>2. Executing(status) = {}
    BY <1>7, <2>1 DEF Settle, AllSettled, Executing
  <2> QED BY <1>7, <2>1, <2>2 DEF Settle, execVars, toolVars, SettleWaits, SettledMeansQuiet, Executing
<1>8. CASE OtherStep /\ ~GateTurn /\ ~Settle
  <2>1. UNCHANGED status
    BY <1>8, OtherSteps DEF toolVars
  <2>2. Inside(pc') => UNCHANGED <<pc, discarded, waitSet>>
    BY <1>8 DEF OtherStep, LateBlock, Poll, EndStream, Fallback, DrainLast, Unpark,
       Finish, Interrupt, Cancel, Over, PermissionReject, vars, execVars, queryVars
  <2> QED BY <1>1, <2>1, <2>2
<1> QED BY <1>2, <1>3, <1>4, <1>5, <1>6, <1>7, <1>8, Steps

LEMMA SeenStep == SeenInv /\ [Next]_vars => SeenInv'
  BY OrderStep, FlagStep, OpenStep, InProgressStep, ProgressStep, SettleStep DEF SeenInv, OrderInv

LEMMA SeenAlways == Spec => []SeenInv
<1>1. Init => SeenInv
  <2>1. Init => OrderInv
    <3>1. Init => Queue(status, body, loops)
      BY DEF Init, Queue, Exclusive, Started, Behind, GateSkipsQueue
    <3> QED BY <3>1, TypeInit DEF OrderInv
  <2>2. Init => InterruptibleIsCurrent
    BY DEF Init, InterruptibleIsCurrent, Interruptible, Executing
  <2>3. Init => OpenIsYielded /\ AwaitedFollowsPc /\ InProgressIsCurrent /\ ProgressDelivered
    BY DEF Init, OpenIsYielded, AwaitedFollowsPc, InProgressIsCurrent, ProgressDelivered
  <2>4. Init => SettleWaits /\ SettledMeansQuiet
    BY DEF Init, SettleWaits, SettledMeansQuiet
  <2> QED BY <2>1, <2>2, <2>3, <2>4 DEF SeenInv
<1> QED BY <1>1, SeenStep, PTL DEF Spec

\* For any stream of blocks and any events: the interrupt flag tells whether the
\* tools that run now can be cancelled, a spinner is on from the start of its tool
\* until its last result was taken, no progress message is lost, and when
\* discardAndSettle has returned no tool of the turn runs.
THEOREM ObserversSeeTheState == Spec => []ObserversAreCurrent
<1>1. SeenInv => ObserversAreCurrent
  BY DEF SeenInv, ObserversAreCurrent
<1> QED BY <1>1, SeenAlways, PTL

\* After discard() no queued tool runs: it is given a result and never starts.
THEOREM DiscardIsFinal == Spec => DiscardStopsQueue
<1>1. TypeInv /\ [Next]_vars =>
        \A t \in Ids : discarded /\ body[t] = "idle" => body'[t] \in {"idle", "settled"}
  <2> SUFFICES ASSUME TypeInv, [Next]_vars, NEW t \in Ids, discarded, body[t] = "idle"
               PROVE body'[t] \in {"idle", "settled"}
    OBVIOUS
  <2>0. body \in [Ids -> Bodies]
    BY DEF TypeInv, TypeOK, ToolTypes
  <2>1. CASE QueueStep \/ (AddTool /\ ~kind[added + 1].gate)
    BY <2>1, QueueCalls, DiscardedStartsNone
  <2>2. CASE Refused
    BY <2>0, <2>2, Refusal
  <2>3. ASSUME NEW u \in Ids, ToolStep(u) PROVE body'[t] \in {"idle", "settled"}
    BY <2>0, <2>3, ToolSteps
  <2>4. CASE Pass
    BY <2>4, PassSteps
  <2>5. CASE OtherStep
    BY <2>5, OtherSteps DEF toolVars
  <2> QED BY <2>1, <2>2, <2>3, <2>4, <2>5, Steps
<1>2. TypeInv /\ [Next]_vars =>
        [\A t \in Ids : discarded /\ body[t] = "idle" => body'[t] \in {"idle", "settled"}]_vars
  BY <1>1
<1>3. Spec => []TypeInv
  BY TypeInit, TypeStep, PTL DEF Spec
<1> QED BY <1>2, <1>3, PTL DEF Spec, DiscardStopsQueue

\* What the results of a tool can be, given who has aborted.
Holds(t, r) == \E i \in DOMAIN results[t] : results[t][i] = r
Tells(t) ==
  /\ body[t] \in {"idle", "running", "barred"} => results[t] = <<>>
  /\ Errored(t) => Len(results[t]) = 1
  /\ Holds(t, "sibling_error") => hasErrored
  /\ Holds(t, "user_interrupted") =>
       parent = "cancel" \/ (parent = "interrupt" /\ kind[t].stop)
ResultsTell == \A t \in Ids : Tells(t)
Accounted ==
  /\ added + late <= MaxTools
  /\ \A b \in collected : emitted[b] >= 1
  /\ NoOrphanToolUse
\* No tool that blocks interrupts is at work once one has come.
Spared ==
  parent = "interrupt" =>
    \A t \in Ids : ~kind[t].stop => body[t] \notin {"running", "resulted"}
ResultsInv == TypeInv /\ InterruptibleIsCurrent /\ Spared /\ ResultsTell /\ Accounted

\* The reason a tool is aborted for is true when it is asked for.
LEMMA ReasonTells ==
  ASSUME TypeInv, NEW t \in Ids, AbortReason(t) # "none"
  PROVE /\ AbortReason(t) \in Results \ {"error", "cancelled"}
        /\ AbortReason(t) = "sibling_error" => hasErrored
        /\ AbortReason(t) = "user_interrupted" =>
             parent = "cancel" \/ (parent = "interrupt" /\ kind[t].stop)
  BY DEF AbortReason, Results, Synthetic, TypeInv, TypeOK, FlagTypes

\* What was told stays true: errors stay, and the first abort is the only one.
LEMMA StillTells ==
  ASSUME TypeInv, NEW t \in Ids, Tells(t), UNCHANGED kind, results'[t] = results[t],
         body'[t] = body[t] \/ body'[t] \notin {"idle", "running", "barred"},
         hasErrored => hasErrored', parent' = parent \/ parent = "none"
  PROVE Tells(t)'
  BY DEF Tells, Errored, Holds

\* A result of its own for a tool that had none.
LEMMA FirstTells ==
  ASSUME NEW t \in Ids, NEW r, results'[t] = <<r>>, body'[t] \notin {"idle", "running", "barred"},
         UNCHANGED <<kind, parent>>,
         r = "sibling_error" => hasErrored',
         r = "user_interrupted" => parent = "cancel" \/ (parent = "interrupt" /\ kind[t].stop)
  PROVE Tells(t)'
<1>1. /\ DOMAIN results'[t] = {1} /\ results'[t][1] = r /\ Len(results'[t]) = 1
  OBVIOUS
<1> QED BY <1>1 DEF Tells, Errored, Holds

\* No step makes a result tell what did not happen.
LEMMA ResultsStep == TypeInv /\ ResultsTell /\ [Next]_vars => ResultsTell'
<1> SUFFICES ASSUME TypeInv, ResultsTell, [Next]_vars, NEW u \in Ids PROVE Tells(u)'
  BY DEF ResultsTell
<1>0. /\ Tells(u) /\ body \in [Ids -> Bodies] /\ results \in [Ids -> Seq(Results)]
      /\ hasErrored \in BOOLEAN
  BY DEF ResultsTell, TypeInv, TypeOK, ToolTypes, FlagTypes
<1>1. CASE QueueStep \/ (AddTool /\ ~kind[added + 1].gate)
  <2>1. QueueCall
    BY <1>1, QueueCalls
  <2>2. PICK st : \/ UNCHANGED <<body, results>> \/ \E t \in Ids : Starts(t, st)
    BY <2>1 DEF QueueCall
  <2>3. CASE UNCHANGED <<body, results>>
    BY <1>0, <2>1, <2>3, StillTells DEF QueueCall
  <2>4. ASSUME NEW t \in Ids, Starts(t, st) PROVE Tells(u)'
    <3>1. CASE u # t
      <4>1. body'[u] = body[u] /\ results'[u] = results[u]
        BY <1>0, <2>4, <3>1 DEF Starts
      <4> QED BY <1>0, <2>1, <4>1, StillTells DEF QueueCall
    <3>2. CASE u = t /\ results' = results /\ body' = [body EXCEPT ![t] = StartedAs]
      <4>1. results[t] = <<>> /\ body[t] = "idle"
        BY <1>0, <2>4, <3>2 DEF Starts, Tells
      <4> QED BY <1>0, <3>2, <4>1 DEF Tells, Errored, Holds
    <3>3. CASE u = t /\ AbortReason(t) \in Synthetic /\ body' = [body EXCEPT ![t] = "settled"]
               /\ results' = [results EXCEPT ![t] = <<AbortReason(t)>>]
      <4>1. AbortReason(t) # "none"
        BY <3>3 DEF Synthetic
      <4>2. results'[u] = <<AbortReason(t)>> /\ body'[u] = "settled"
        BY <1>0, <3>3
      <4> QED BY <2>1, <3>3, <4>1, <4>2, ReasonTells, FirstTells DEF QueueCall
    <3> QED BY <2>4, <3>1, <3>2, <3>3 DEF Starts
  <2> QED BY <2>2, <2>3, <2>4
<1>2. CASE Refused
  <2> DEFINE t == added + 1
  <2>1. /\ t \in Ids /\ UNCHANGED <<kind, hasErrored, parent>>
        /\ body' = [body EXCEPT ![t] = "settled"]
        /\ results' = [results EXCEPT ![t] = <<"refused">>]
    BY <1>2, Refusal
  <2> HIDE DEF t
  <2>2. CASE u # t
    BY <1>0, <2>1, <2>2, StillTells
  <2>3. CASE u = t
    <3>1. results'[u] = <<"refused">> /\ body'[u] = "settled"
      BY <1>0, <2>1, <2>3
    <3> QED BY <2>1, <3>1, FirstTells
  <2> QED BY <2>2, <2>3
<1>3. ASSUME NEW t \in Ids, ToolStep(t) PROVE Tells(u)'
  <2>0. UNCHANGED <<kind, parent>> /\ (hasErrored => hasErrored')
    BY <1>0, <1>3 DEF ToolStep, ToolAborted, ToolProgress, ToolResult, BarredResult, ToolEnd, ToolThrow,
       bodyUnchanged
  <2>1. CASE u # t
    <3>1. body'[u] = body[u] /\ results'[u] = results[u]
      BY <1>0, <1>3, <2>1 DEF ToolStep, ToolAborted, ToolProgress, ToolResult, BarredResult, ToolEnd, ToolThrow,
         Complete
    <3> QED BY <1>0, <2>0, <3>1, StillTells
  <2>2. CASE u = t /\ ToolAborted(t)
    <3> DEFINE r == AbortReason(t)
    <3>1. /\ r # "none" /\ ~Errored(t) /\ results' = [results EXCEPT ![t] = Append(@, r)]
          /\ body' = [body EXCEPT ![t] = "closing"] /\ UNCHANGED <<hasErrored, parent, kind>>
      BY <2>2 DEF ToolAborted, NotAborted, bodyUnchanged
    <3>2. /\ r \in Results \ {"error", "cancelled"}
          /\ r = "sibling_error" => hasErrored
          /\ r = "user_interrupted" => parent = "cancel" \/ (parent = "interrupt" /\ kind[t].stop)
      BY <3>1, ReasonTells
    <3> HIDE DEF r
    <3>3. results'[u] = Append(results[u], r) /\ body'[u] = "closing" /\ results[u] \in Seq(Results)
      BY <1>0, <2>2, <3>1
    <3>4. /\ DOMAIN results'[u] = 1 .. Len(results[u]) + 1
          /\ \A i \in 1 .. Len(results[u]) : results'[u][i] = results[u][i]
          /\ results'[u][Len(results[u]) + 1] = r
          /\ DOMAIN results[u] = 1 .. Len(results[u]) /\ Len(results[u]) \in Nat
      BY <3>3
    <3>5. ~Errored(u)'
      BY <2>2, <3>1, <3>2, <3>4 DEF Errored
    <3>6. Holds(u, "sibling_error")' => Holds(u, "sibling_error") \/ r = "sibling_error"
      BY <3>4 DEF Holds
    <3>7. Holds(u, "user_interrupted")' => Holds(u, "user_interrupted") \/ r = "user_interrupted"
      BY <3>4 DEF Holds
    <3> QED BY <1>0, <2>2, <3>1, <3>2, <3>3, <3>5, <3>6, <3>7 DEF Tells
  <2>3. CASE u = t /\ ToolProgress(t)
    BY <1>0, <2>0, <2>3, StillTells DEF ToolProgress
  <2>4. ASSUME NEW r \in {"ok", "error"}, u = t, ToolResult(t, r) PROVE Tells(u)'
    <3>1. results[t] = <<>>
      BY <1>0, <2>4 DEF ToolResult, Tells
    <3>2. results'[u] = <<r>> /\ body'[u] = "resulted"
      BY <1>0, <2>4, <3>1 DEF ToolResult
    <3> QED BY <2>0, <3>2, FirstTells
  <2>7. ASSUME NEW r \in {"cancelled", "error"}, u = t, BarredResult(t, r) PROVE Tells(u)'
    <3>1. results[t] = <<>>
      BY <1>0, <2>7 DEF BarredResult, Tells
    <3>2. results'[u] = <<r>> /\ body'[u] = "closing"
      BY <1>0, <2>7, <3>1 DEF BarredResult
    <3> QED BY <2>0, <3>2, FirstTells
  <2>5. CASE u = t /\ ToolEnd(t)
    <3>1. results'[u] = results[u] /\ body'[u] = "settled"
      BY <1>0, <2>5 DEF ToolEnd, Complete
    <3> QED BY <1>0, <2>0, <3>1, StillTells
  <2>6. CASE u = t /\ ToolThrow(t)
    <3>1. results'[u] = <<"exception">> /\ body'[u] = "settled"
      BY <1>0, <2>6 DEF ToolThrow, Complete
    <3> QED BY <2>0, <3>1, FirstTells
  <2> QED BY <1>3, <2>1, <2>2, <2>3, <2>4, <2>7, <2>5, <2>6 DEF ToolStep
<1>4. CASE Pass
  BY <1>0, <1>4, PassSteps, StillTells
<1>5. CASE OtherStep
  <2>1. UNCHANGED <<kind, body, results, hasErrored>>
    BY <1>5, OtherSteps DEF toolVars
  <2>2. parent' = parent \/ parent = "none"
    BY <1>5 DEF OtherStep, LateBlock, Poll, EndStream, GateTurn, Fallback, DrainLast, Unpark,
       Finish, Settle, Interrupt, Cancel, Over, PermissionReject, vars, blockVars
  <2> QED BY <1>0, <2>1, <2>2, StillTells
<1> QED BY <1>1, <1>2, <1>3, <1>4, <1>5, Steps

\* An interrupt comes only when the flag, which is current, says that all that
\* executes can be cancelled, and what starts later starts with its signal aborted.
LEMMA SparedStep == TypeInv /\ InterruptibleIsCurrent /\ Spared /\ [Next]_vars => Spared'
<1> SUFFICES ASSUME TypeInv, InterruptibleIsCurrent, Spared, [Next]_vars, parent' = "interrupt",
                    NEW u \in Ids, ~kind[u].stop, UNCHANGED kind
             PROVE body'[u] \notin {"running", "resulted"}
  <2>1. [Next]_vars /\ TypeInv => UNCHANGED kind
    BY Steps, QueueCalls, Refusal, ToolSteps, PassSteps, OtherSteps DEF QueueCall, toolVars
  <2> QED BY <2>1 DEF Spared
<1>0. body \in [Ids -> Bodies]
  BY DEF TypeInv, TypeOK, ToolTypes
<1>1. CASE QueueStep \/ (AddTool /\ ~kind[added + 1].gate)
  <2>1. QueueCall /\ UNCHANGED parent
    BY <1>1, QueueCalls DEF QueueCall
  <2>2. body[u] \notin {"running", "resulted"}
    BY <2>1 DEF Spared
  <2>3. PICK st : UNCHANGED body \/ \E t \in Ids : Starts(t, st)
    BY <2>1 DEF QueueCall
  <2>4. ASSUME NEW t \in Ids, Starts(t, st) PROVE body'[u] \notin {"running", "resulted"}
    <3>1. StartedAs = "barred"
      BY <2>1 DEF StartedAs
    <3> QED BY <1>0, <2>2, <2>4, <3>1 DEF Starts
  <2> QED BY <2>2, <2>3, <2>4
<1>2. CASE Refused
  <2>1. UNCHANGED parent /\ body' = [body EXCEPT ![added + 1] = "settled"]
    BY <1>2, Refusal
  <2> QED BY <1>0, <2>1 DEF Spared
<1>3. ASSUME NEW t \in Ids, ToolStep(t) PROVE body'[u] \notin {"running", "resulted"}
  <2>1. UNCHANGED parent /\ body[u] \notin {"running", "resulted"}
    BY <1>3, ToolSteps DEF Spared
  <2>2. body' = body \/ body' = [body EXCEPT ![t] = "closing"]
        \/ body' = [body EXCEPT ![t] = "settled"] \/ body[t] = "running"
    BY <1>3 DEF ToolStep, ToolAborted, ToolProgress, ToolResult, BarredResult, ToolEnd,
       ToolThrow, Complete
  <2>3. body' = body \/ \E b \in Bodies : body' = [body EXCEPT ![t] = b]
    BY <1>3, ToolSteps DEF Bodies
  <2> QED BY <1>0, <2>1, <2>2, <2>3
<1>4. CASE Pass
  BY <1>4, PassSteps DEF Spared
<1>5. CASE OtherStep
  <2>1. UNCHANGED body
    BY <1>5, OtherSteps DEF toolVars
  <2>2. CASE UNCHANGED parent
    BY <2>1, <2>2 DEF Spared
  <2>3. CASE Interrupt
    <3>1. Interruptible(status)
      BY <2>3 DEF Interrupt, InterruptibleIsCurrent
    <3>2. status[u] # "executing"
      BY <3>1 DEF Interruptible, Executing
    <3> QED BY <2>1, <3>2 DEF TypeInv, BodyFollowsStatus
  <2>4. UNCHANGED parent \/ parent' = "cancel" \/ Interrupt
    BY <1>5 DEF OtherStep, LateBlock, Poll, EndStream, GateTurn, Fallback, DrainLast, Unpark,
       Finish, Settle, Cancel, Over, PermissionReject, vars, blockVars
  <2> QED BY <2>2, <2>3, <2>4
<1> QED BY <1>1, <1>2, <1>3, <1>4, <1>5, Steps

\* What is in the list was yielded, and the turn ends with a result for the rest.
LEMMA AccountStep == TypeInv /\ Accounted /\ [Next]_vars => Accounted'
<1> SUFFICES ASSUME TypeInv, Accounted, [Next]_vars PROVE Accounted'
  OBVIOUS
<1>0. /\ added \in 0 .. MaxTools /\ late \in 0 .. MaxTools /\ emitted \in [Ids -> Nat]
      /\ collected \subseteq Ids /\ MaxTools \in Nat /\ CursorFollowsPc
      /\ added + late <= MaxTools /\ \A b \in collected : emitted[b] >= 1
  BY MaxToolsAssumption DEF TypeInv, TypeOK, QueryTypes, Accounted
<1>1. ASSUME added' + late' <= MaxTools, UNCHANGED <<emitted, collected>>,
             pc' \in {"done", "gated"} => UNCHANGED <<pc, added, late>>
      PROVE Accounted'
  BY <1>0, <1>1 DEF Accounted, NoOrphanToolUse, Blocks
<1>2. CASE QueueStep
  <2>1. UNCHANGED <<added, late, emitted, collected>>
    BY <1>2 DEF QueueStep, ResumeLoop, Wake, DrainHead, queryVars, blockVars, listVars
  <2>2. pc' \in {"done", "gated"} => UNCHANGED pc
    BY <1>2 DEF QueueStep, ResumeLoop, Wake, DrainHead, queryVars
  <2> QED BY <1>0, <1>1, <2>1, <2>2
<1>3. CASE AddTool
  BY <1>0, <1>1, <1>3 DEF AddTool, listVars
<1>4. ASSUME NEW t \in Ids, ToolStep(t) PROVE Accounted'
  BY <1>0, <1>1, <1>4, ToolSteps DEF queryVars, listVars
<1>5. CASE Pass
  <2>1. cursor \in Ids /\ UNCHANGED <<added, late>> /\ pc \in {"polling", "pass", "final"}
    BY <1>0, <1>5, PassSteps DEF CursorFollowsPc
  <2>2. pc' \notin {"done", "gated"}
    <3>1. UNCHANGED pc \/ pc' \in {"streaming", "parked", "head", "finish"}
      BY <1>5, PassSteps
    <3> QED BY <2>1, <3>1
  <2>3. CASE UNCHANGED <<emitted, collected>>
    BY <1>0, <1>1, <2>1, <2>2, <2>3
  <2>4. ASSUME NEW t \in Ids, emitted' = [emitted EXCEPT ![t] = @ + 1],
               collected' = collected \cup {t}
        PROVE Accounted'
    <3>1. \A b \in collected' : emitted'[b] >= 1
      BY <1>0, <2>4
    <3> QED BY <1>0, <2>1, <2>2, <3>1 DEF Accounted, NoOrphanToolUse
  <2>5. YieldResult => emitted' = [emitted EXCEPT ![cursor] = @ + 1]
                       /\ collected' = collected \cup {cursor}
    BY DEF YieldResult
  <2> QED BY <1>5, <2>1, <2>3, <2>4, <2>5, PassSteps DEF Moves
<1>6. CASE LateBlock
  BY <1>0, <1>1, <1>6 DEF LateBlock, listVars
<1>7. CASE EndStream
  <2>1. UNCHANGED <<added, late, emitted>> /\ collected' \subseteq collected
    BY <1>7 DEF EndStream, blockVars
  <2>2. pc' \in {"done", "gated"} => Blocks = {}
    BY <1>7 DEF EndStream
  <2> QED BY <1>0, <2>1, <2>2 DEF Accounted, NoOrphanToolUse, Blocks
<1>8. CASE Finish
  <2>1. /\ emitted' = [b \in Ids |-> IF b \in Missing THEN emitted[b] + 1 ELSE emitted[b]]
        /\ UNCHANGED <<added, late, collected>>
    BY <1>8 DEF Finish, blockVars
  <2>2. Blocks \subseteq Ids
    BY <1>0 DEF Blocks
  <2>3. \A b \in collected' : emitted'[b] >= 1
    BY <1>0, <2>1
  <2>4. \A b \in Blocks : emitted'[b] >= 1
    BY <1>0, <2>1, <2>2 DEF Missing
  <2> QED BY <1>0, <2>1, <2>3, <2>4 DEF Accounted, NoOrphanToolUse, Blocks
<1>9. CASE Settle
  <2>1. /\ emitted' = [b \in Ids |-> IF b \in Blocks THEN emitted[b] + 1 ELSE emitted[b]]
        /\ UNCHANGED <<added, late, collected>>
    BY <1>9 DEF Settle, blockVars
  <2>2. Blocks \subseteq Ids
    BY <1>0 DEF Blocks
  <2>3. \A b \in collected' : emitted'[b] >= 1
    BY <1>0, <2>1
  <2>4. \A b \in Blocks : emitted'[b] >= 1
    BY <1>0, <2>1, <2>2
  <2> QED BY <1>0, <2>1, <2>3, <2>4 DEF Accounted, NoOrphanToolUse, Blocks
<1>10. CASE Fallback
  BY <1>0, <1>10 DEF Fallback, blockVars, Accounted, NoOrphanToolUse
<1>11. CASE OtherStep /\ ~(LateBlock \/ EndStream \/ Finish \/ Settle \/ Fallback)
  <2>1. UNCHANGED <<added, late, emitted, collected>> /\ (pc' \in {"done", "gated"} => UNCHANGED pc)
    BY <1>11 DEF OtherStep, Poll, GateTurn, DrainLast, Unpark, Interrupt, Cancel, Over,
       PermissionReject, vars, queryVars, blockVars, listVars
  <2> QED BY <1>0, <1>1, <2>1
<1> QED BY <1>2, <1>3, <1>4, <1>5, <1>6, <1>7, <1>8, <1>9, <1>10, <1>11, Steps DEF Refused

\* Every block of a turn that ends has a result, and the results tell what
\* happened to each tool: one that failed, or was refused with its signal aborted,
\* keeps that result alone, its siblings are cancelled only because a Bash call had an
\* error, and an interrupt by a new prompt never hits a tool that blocks interrupts
\* while it works.
THEOREM ResultsAreSound == Spec => []ResultsSound
<1>1. Init => ResultsInv
  <2>1. Init => ResultsTell
    BY DEF Init, ResultsTell, Tells, Errored, Holds
  <2>2. Init => Accounted
    BY MaxToolsAssumption DEF Init, Accounted, NoOrphanToolUse
  <2>3. Init => InterruptibleIsCurrent /\ Spared
    BY DEF Init, InterruptibleIsCurrent, Interruptible, Executing, Spared
  <2> QED BY <2>1, <2>2, <2>3, TypeInit DEF ResultsInv
<1>2. ResultsInv /\ [Next]_vars => ResultsInv'
  BY TypeStep, FlagStep, SparedStep, ResultsStep, AccountStep DEF ResultsInv
<1>3. ResultsInv => ResultsSound
  <2>1. ResultsInv => InterruptSparesRunning
    BY DEF ResultsInv, ResultsTell, Tells, Holds, Spared, InterruptSparesRunning
  <2>2. ResultsInv => SiblingErrorBlame
    BY DEF ResultsInv, ResultsTell, Tells, Holds, SiblingErrorBlame
  <2>3. ResultsInv => NoOrphanToolUse
    BY DEF ResultsInv, Accounted
  <2> QED BY <2>1, <2>2, <2>3 DEF ResultsSound
<1> QED BY <1>1, <1>2, <1>3, PTL DEF Spec

\* Where the generator has passed an unsafe tool, it has yielded it.
PassedAreYielded ==
  cursor # 0 =>
    \A t \in Ids :
      /\ t < cursor /\ status[t] # "absent" /\ ~kind[t].safe
      /\ \A b \in 1 .. cursor : ~kind[b].gate
      => status[t] = "yielded"
ProgressIsOfStarted == \A t \in Ids : progress[t] > 0 => body[t] # "idle"
BarrierInv == OrderInv /\ OpenIsYielded /\ PassedAreYielded /\ ProgressIsOfStarted

\* A tool the generator stops at has started, and so has every tool between it and
\* where the generator was, unless a refused block is among them.
LEMMA StopsBehindQueue ==
  ASSUME OrderInv, ProgressIsOfStarted, NEW u, Moves(u), NEW t \in Ids, t < u, t >= From,
         status[t] # "absent", ~kind[t].safe, \A b \in 1 .. u : ~kind[b].gate
  PROVE status[t] = "yielded"
<1>1. u \in Ids /\ Stops(u) /\ ~Stops(t)
  BY MaxToolsAssumption DEF Moves, NextStop
<1>2. body[u] # "idle"
  BY <1>1 DEF Stops, ProgressIsOfStarted, OrderInv, TypeInv, BodyFollowsStatus
<1>3. ~kind[u].gate
  BY <1>1, MaxToolsAssumption
<1>4. status[t] # "queued"
  BY <1>1, <1>2, <1>3 DEF OrderInv, Queue, Started
<1> QED BY <1>1, <1>4 DEF Stops, OrderInv, TypeInv, TypeOK, ToolTypes, Statuses

\* The same for the tools it had passed before.
LEMMA PassedBehind ==
  ASSUME BarrierInv, cursor \in Ids, NEW u, Moves(u), NEW t \in Ids, t < u,
         status[t] # "absent", ~kind[t].safe, \A b \in 1 .. u : ~kind[b].gate
  PROVE status[t] = "yielded"
<1>1. u \in Ids /\ From \in Nat /\ u >= From /\ From \in {cursor, cursor + 1}
  BY MaxToolsAssumption DEF Moves, NextStop, From
<1>2. CASE t >= From
  BY <1>2, StopsBehindQueue DEF BarrierInv
<1>3. CASE t < cursor
  <2>1. \A b \in 1 .. cursor : ~kind[b].gate
    BY <1>1, MaxToolsAssumption
  <2> QED BY <1>3, <2>1 DEF BarrierInv, PassedAreYielded
<1>4. CASE t = cursor /\ t < From
  BY <1>4, MaxToolsAssumption DEF From, BarrierInv, OpenIsYielded
<1> QED BY <1>1, <1>2, <1>3, <1>4, MaxToolsAssumption

LEMMA StartedProgress == TypeInv /\ ProgressIsOfStarted /\ [Next]_vars => ProgressIsOfStarted'
<1> SUFFICES ASSUME TypeInv, ProgressIsOfStarted, [Next]_vars, NEW u \in Ids, progress'[u] > 0
             PROVE body'[u] # "idle"
  BY DEF ProgressIsOfStarted
<1>0. /\ progress \in [Ids -> Nat] /\ body \in [Ids -> Bodies]
      /\ progress[u] > 0 => body[u] # "idle"
  BY DEF TypeInv, TypeOK, ToolTypes, ProgressIsOfStarted
<1>1. CASE QueueStep \/ (AddTool /\ ~kind[added + 1].gate)
  BY <1>0, <1>1, QueueCalls DEF QueueCall, Starts
<1>2. CASE Refused
  BY <1>0, <1>2, Refusal
<1>3. ASSUME NEW t \in Ids, ToolStep(t) PROVE body'[u] # "idle"
  <2>1. body'[u] # "idle" \/ (body'[u] = body[u] /\ u # t)
    BY <1>0, <1>3, ToolSteps
  <2>2. u # t => progress'[u] = progress[u]
    BY <1>0, <1>3, ToolSteps
  <2> QED BY <1>0, <2>1, <2>2
<1>4. CASE Pass
  <2>1. \A t \in Ids : progress' = [progress EXCEPT ![t] = @ - 1] => progress[u] > 0
    BY <1>0
  <2>2. progress[u] > 0
    BY <1>0, <1>4, <2>1, PassSteps DEF Moves
  <2> QED BY <1>0, <1>4, <2>2, PassSteps
<1>5. CASE OtherStep
  BY <1>0, <1>5, OtherSteps DEF toolVars
<1> QED BY <1>1, <1>2, <1>3, <1>4, <1>5, Steps

\* The generator passes no unsafe tool that it has not yielded.
LEMMA PassedStep ==
  BarrierInv /\ AwaitedFollowsPc /\ [Next]_vars => PassedAreYielded'
<1> SUFFICES ASSUME BarrierInv, AwaitedFollowsPc, [Next]_vars, cursor' # 0, NEW t \in Ids,
                    t < cursor', status'[t] # "absent", ~kind'[t].safe,
                    \A b \in 1 .. cursor' : ~kind'[b].gate
             PROVE status'[t] = "yielded"
  BY DEF PassedAreYielded
<1>0. /\ status \in [Ids -> Statuses] /\ TypeInv /\ CursorFollowsPc /\ MaxTools \in Nat
      /\ cursor \in 0 .. MaxTools
  BY MaxToolsAssumption DEF BarrierInv, OrderInv, TypeInv, TypeOK, ToolTypes, QueryTypes
<1>1. ASSUME UNCHANGED <<kind, cursor>>, status[t] # "absent", status[t] = "yielded" => status'[t] = "yielded"
      PROVE status'[t] = "yielded"
  BY <1>1 DEF BarrierInv, PassedAreYielded
<1>2. cursor' # 1
  BY <1>0
<1>3. CASE QueueStep
  <2>1. QueueCall /\ UNCHANGED <<kind, added>>
    BY <1>0, <1>3, QueueCalls DEF QueueCall, QueueStep, ResumeLoop, Wake, DrainHead, queryVars, blockVars
  <2>2. UNCHANGED cursor
    BY <1>2, <1>3 DEF QueueStep, ResumeLoop, Wake, DrainHead, queryVars, genVars
  <2>3. status[t] # "absent" /\ (status[t] = "yielded" => status'[t] = "yielded")
    <3>1. TypeInv'
      BY <1>0, TypeStep
    <3>2. status[t] # "absent"
      BY <1>0, <2>1, <3>1 DEF TypeInv, AbsentFromAdded
    <3> QED BY <1>0, <2>1, <3>2 DEF QueueCall, Enqueued, Starts
  <2> QED BY <1>1, <2>1, <2>2, <2>3
<1>4. CASE AddTool
  BY <1>0, <1>4 DEF AddTool, genVars, CursorFollowsPc
<1>5. ASSUME NEW u \in Ids, ToolStep(u) PROVE status'[t] = "yielded"
  <2>1. UNCHANGED <<kind, cursor>> /\ status[t] # "absent"
        /\ (status[t] = "yielded" => status'[t] = "yielded")
    BY <1>0, <1>5, ToolSteps DEF queryVars, genVars
  <2> QED BY <1>1, <2>1
<1>6. CASE Pass
  <2>1. cursor \in Ids /\ UNCHANGED kind
    BY <1>0, <1>6, PassSteps
  <2>2. CASE UNCHANGED <<status, cursor>>
    BY <1>1, <2>1, <2>2
  <2>3. ASSUME NEW u, Moves(u), UNCHANGED status PROVE status'[t] = "yielded"
    BY <2>1, <2>3, PassedBehind DEF Moves
  <2>4. ASSUME NEW u, Moves(u), status' = [status EXCEPT ![u] = "yielded"]
        PROVE status'[t] = "yielded"
    <3>1. u \in Ids /\ u # t /\ cursor' = u
      BY <2>4 DEF Moves
    <3>2. status[t] # "absent" /\ status'[t] = status[t]
      BY <1>0, <2>4, <3>1
    <3> QED BY <2>1, <2>4, <3>1, <3>2, PassedBehind
  <2> QED BY <1>0, <1>6, <2>2, <2>3, <2>4, PassSteps
<1>7. CASE OtherStep
  <2>1. UNCHANGED <<kind, status>>
    BY <1>7, OtherSteps DEF toolVars
  <2>2. UNCHANGED cursor
    BY <1>2, <1>7 DEF OtherStep, LateBlock, Poll, EndStream, GateTurn, Fallback, DrainLast, Unpark,
       Finish, Settle, Interrupt, Cancel, Over, PermissionReject, vars, queryVars, genVars
  <2> QED BY <1>1, <2>1, <2>2
<1> QED BY <1>0, <1>3, <1>4, <1>5, <1>6, <1>7, Steps DEF Refused

\* An unsafe tool is a barrier for what is yielded, for any number of tools and
\* whatever runs while the generator is suspended between two results.
THEOREM BarrierHolds == Spec => UnsafeIsBarrier
<1>1. Init => BarrierInv /\ AwaitedFollowsPc
  <2>1. Init => Queue(status, body, loops)
    BY DEF Init, Queue, Exclusive, Started, Behind, GateSkipsQueue
  <2>2. Init => OpenIsYielded /\ PassedAreYielded /\ ProgressIsOfStarted /\ AwaitedFollowsPc
    BY DEF Init, OpenIsYielded, PassedAreYielded, ProgressIsOfStarted, AwaitedFollowsPc
  <2> QED BY <2>1, <2>2, TypeInit DEF OrderInv, BarrierInv
<1>2. BarrierInv /\ AwaitedFollowsPc /\ [Next]_vars => (BarrierInv /\ AwaitedFollowsPc)'
  BY OrderStep, OpenStep, PassedStep, StartedProgress DEF BarrierInv, OrderInv
<1>3. BarrierInv /\ [Next]_vars =>
        [\A t, u \in Ids :
           /\ t < u /\ status[t] # "absent" /\ ~kind[t].safe
           /\ \A b \in 1 .. u : ~kind[b].gate
           /\ status[u] # "yielded" /\ status'[u] = "yielded"
           => status[t] = "yielded"]_vars
  <2> SUFFICES ASSUME BarrierInv, [Next]_vars, NEW t \in Ids, NEW u \in Ids,
                      t < u, status[t] # "absent", ~kind[t].safe,
                      \A b \in 1 .. u : ~kind[b].gate,
                      status[u] # "yielded", status'[u] = "yielded"
               PROVE status[t] = "yielded"
    OBVIOUS
  <2>0. TypeInv /\ status \in [Ids -> Statuses]
    BY DEF BarrierInv, OrderInv, TypeInv, TypeOK, ToolTypes
  <2>1. Pass
    <3>1. CASE QueueStep \/ (AddTool /\ ~kind[added + 1].gate)
      BY <2>0, <3>1, QueueCalls DEF QueueCall, Enqueued, Starts
    <3>2. CASE Refused
      BY <2>0, <3>2, Refusal
    <3>3. ASSUME NEW v \in Ids, ToolStep(v) PROVE FALSE
      BY <2>0, <3>3, ToolSteps
    <3>4. CASE OtherStep
      BY <3>4, OtherSteps DEF toolVars
    <3> QED BY <3>1, <3>2, <3>3, <3>4, Steps
  <2>2. PICK v : Moves(v) /\ status' = [status EXCEPT ![v] = "yielded"]
    BY <2>0, <2>1, PassSteps
  <2>3. v = u
    BY <2>0, <2>2
  <2>4. cursor \in Ids
    BY <2>0, <2>1, PassSteps
  <2> QED BY <2>2, <2>3, <2>4, PassedBehind
<1> QED BY <1>1, <1>2, <1>3, PTL DEF Spec, UnsafeIsBarrier

=============================================================================
