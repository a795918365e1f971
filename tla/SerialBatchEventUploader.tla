---------------------- MODULE SerialBatchEventUploader ----------------------
(***************************************************************************)
(* The uploader of a remote session's events                               *)
(* (src/cli/transports/SerialBatchEventUploader.ts) with the callers that  *)
(* HybridTransport and CCRClient are for it.                               *)
(*                                                                         *)
(* A step is the code between two awaits.  The calls of one caller are     *)
(* made in the order of its program; a promise job (a woken call) may be   *)
(* overtaken by other code, not by a job woken after it.                   *)
(***************************************************************************)
EXTENDS Integers, FiniteSets, SequencesExt

CONSTANTS Callers,
          Program,      \* the calls of a caller, in order: what it calls, with
                        \* how many events
          Awaits,       \* callers that await a call before they make the next
          Bad,          \* events that cannot be serialized
          MaxBatchSize, MaxQueueSize,
          Bytes,        \* the size of each event
          MaxBatchBytes,  \* 0 if maxBatchBytes is not given
          MaxFailures,  \* maxConsecutiveFailures, 0 for none
          MayClose      \* the uploader may be closed

(* "write" is HybridTransport.write: enqueue, then flush.                  *)
Ops == {"enqueue", "write", "flush"}
Calls == UNION {{<<c, k>> : k \in DOMAIN Program[c]} : c \in Callers}
Call(x) == Program[x[1]][x[2]]
Items(x) == [j \in 1 .. Call(x).size |-> <<x[1], x[2], j>>]
Events == UNION {{<<x[1], x[2], j>> : j \in 1 .. Call(x).size} : x \in Calls}

ASSUME ProgramAssumption ==
  \A c \in Callers : \A k \in DOMAIN Program[c] :
    /\ Program[c][k].op \in Ops
    /\ Program[c][k].size \in 0 .. MaxQueueSize
    /\ (Program[c][k].op = "flush") <=> (Program[c][k].size = 0)
ASSUME LimitsAssumption ==
  /\ MaxBatchSize \in Nat \ {0} /\ MaxQueueSize \in Nat \ {0}
  /\ {MaxFailures, MaxBatchBytes} \subseteq Nat
  /\ Bytes \in [Events -> Nat]
  /\ Awaits \subseteq Callers
  /\ MayClose \in BOOLEAN

Phases == {"ahead", "blocked", "woken", "wrote", "flushing", "returned"}

VARIABLES
  pending, closed,   \* the fields of the same name
  drain,             \* the drain loop: "idle" (draining is false), "sending",
                     \* "sleeping"
  batch,             \* what it is sending
  failures,          \* its consecutive failures, counted up to MaxFailures
  phase,             \* where each call stands
  resolvers,         \* backpressureResolvers
  jobs,              \* calls whose resolver has been called, in order
  entered,           \* all events that have entered pending, in order
  acked,             \* events whose send has returned, in order
  lost,              \* events dropped by the uploader
  before             \* for each flush: what had entered when it began

loopVars == <<drain, batch, failures>>
vars == <<pending, closed, loopVars, phase, resolvers, jobs, entered, acked, lost,
          before>>

Init ==
  /\ pending = <<>> /\ closed = FALSE
  /\ drain = "idle" /\ batch = <<>> /\ failures = 0
  /\ phase = [x \in Calls |-> "ahead"]
  /\ resolvers = <<>> /\ jobs = <<>>
  /\ entered = <<>> /\ acked = <<>> /\ lost = {}
  /\ before = [x \in Calls |-> {}]

Draining == drain # "idle"

-----------------------------------------------------------------------------
(* The drain loop.                                                         *)

(* The elements of s that are in S, in order.                              *)
Only(s, S) ==
  LET upTo[n \in 0 .. Len(s)] ==
        IF n = 0 THEN <<>>
        ELSE IF s[n] \in S THEN Append(upTo[n - 1], s[n]) ELSE upTo[n - 1]
  IN  upTo[Len(s)]

Good(s) == Only(s, Events \ Bad)

(* takeBatch.  With a byte limit, what cannot be serialized is dropped as  *)
(* far as the loop gets, and the events taken are as many as fit, but one  *)
(* at least; the loop ends at the last of a full batch, or else where the  *)
(* next one would not fit.                                                 *)
Fitting(s) ==
  LET most == Min({MaxBatchSize, Len(s)})
      total[n \in 0 .. most] == IF n = 0 THEN 0 ELSE total[n - 1] + Bytes[s[n]]
  IN  Max({0} \cup {n \in 1 .. most : n = 1 \/ total[n] <= MaxBatchBytes})

Cut(s) ==
  IF MaxBatchBytes = 0
  THEN Min({MaxBatchSize, Len(s)})
  ELSE LET count == Fitting(Good(s))
           ends  == {n \in 0 .. Len(s) : Len(Good(SubSeq(s, 1, n))) = count}
       IN  IF count = MaxBatchSize THEN Min(ends) ELSE Max(ends)

Taken(s) ==
  LET seen == SubSeq(s, 1, Cut(s)) IN IF MaxBatchBytes = 0 THEN seen ELSE Good(seen)

(* releaseBackpressure, and the resolving of the flushes.                  *)
\* Mutant of Woken: nobody is called.
WokenNot(ph) == ph
Woken(ph) == [x \in Calls |-> IF ph[x] = "blocked" THEN "woken" ELSE ph[x]]
Flushed(ph) == [x \in Calls |-> IF ph[x] = "flushing" THEN "returned" ELSE ph[x]]

(* The head of the loop with s pending, up to the next send or the end.    *)
End(s, ph) ==
  /\ pending' = s
  /\ drain' = "idle" /\ batch' = <<>> /\ failures' = 0
  /\ phase' = IF s = <<>> THEN Flushed(ph) ELSE ph

\* Mutant of Stops: a closed uploader goes on.
StopsEmpty(s) == s = <<>>
Stops(s) == s = <<>> \/ closed

Loop(s, f, ph, gone) ==
  IF Stops(s)
  THEN End(s, ph) /\ lost' = lost \cup gone
  ELSE LET taken == Taken(s)
           rest  == SubSeq(s, Cut(s) + 1, Len(s))
       IN  /\ lost' = lost \cup gone \cup (ToSet(s) \ ToSet(taken \o rest))
           /\ IF taken = <<>>
              THEN End(rest, ph)
              ELSE /\ pending' = rest /\ batch' = taken
                   /\ drain' = "sending" /\ failures' = f
                   /\ phase' = ph

(* drain(): at most one loop at a time.                                    *)
Kick(s, ph) ==
  IF Draining \/ closed
  THEN pending' = s /\ phase' = ph /\ UNCHANGED <<loopVars, lost>>
  ELSE Loop(s, 0, ph, {})

SendOk ==
  /\ drain = "sending"
  /\ ToSet(batch) \cap Bad = {}
  /\ acked' = acked \o batch
  /\ Loop(pending, 0, Woken(phase), {})
  /\ jobs' = jobs \o resolvers /\ resolvers' = <<>>
  /\ UNCHANGED <<closed, entered, before>>

(* The batch goes back to the front, or is given up.                       *)
\* Mutant of Requeued: the batch goes to the end.
RequeuedLast == pending \o batch
Requeued == batch \o pending

SendRetry ==
  /\ drain = "sending"
  /\ MaxFailures = 0 \/ failures + 1 < MaxFailures
  /\ pending' = Requeued
  /\ drain' = "sleeping" /\ batch' = <<>>
  /\ failures' = IF MaxFailures = 0 THEN 0 ELSE failures + 1
  /\ UNCHANGED <<closed, phase, resolvers, jobs, entered, acked, lost, before>>

SendDrop ==
  /\ drain = "sending"
  /\ MaxFailures # 0 /\ failures + 1 >= MaxFailures
  /\ Loop(pending, 0, Woken(phase), ToSet(batch))
  /\ jobs' = jobs \o resolvers /\ resolvers' = <<>>
  /\ UNCHANGED <<closed, entered, acked, before>>

SleepEnd ==
  /\ drain = "sleeping"
  /\ Loop(pending, failures, phase, {})
  /\ UNCHANGED <<closed, resolvers, jobs, entered, acked, before>>

-----------------------------------------------------------------------------
(* The calls.                                                              *)

Next1(x) == IF Call(x).op = "write" THEN "wrote" ELSE "returned"

(* The loop of enqueue, from its test of the space on.                     *)
Fits(x) == Len(pending) + Call(x).size <= MaxQueueSize

Put(x) ==
  IF closed
  THEN /\ phase' = [phase EXCEPT ![x] = Next1(x)]
       /\ UNCHANGED <<pending, loopVars, resolvers, entered, lost>>
  ELSE IF Fits(x)
       THEN /\ entered' = entered \o Items(x)
            /\ Kick(pending \o Items(x), [phase EXCEPT ![x] = Next1(x)])
            /\ UNCHANGED resolvers
       ELSE /\ phase' = [phase EXCEPT ![x] = "blocked"]
            /\ resolvers' = Append(resolvers, x)
            /\ UNCHANGED <<pending, loopVars, entered, lost>>

Turn(x) ==
  /\ phase[x] = "ahead"
  /\ x[2] > 1 => LET previous == phase[<<x[1], x[2] - 1>>]
                 IN  IF x[1] \in Awaits THEN previous = "returned"
                                        ELSE previous # "ahead"

Enqueue(x) ==
  /\ Turn(x) /\ Call(x).op # "flush"
  /\ Put(x)
  /\ UNCHANGED <<closed, jobs, acked, before>>

Resume ==
  /\ jobs # <<>>
  /\ phase[Head(jobs)] = "woken"
  /\ jobs' = Tail(jobs)
  /\ Put(Head(jobs))
  /\ UNCHANGED <<closed, acked, before>>

\* Mutant of Nothing: what is being sent is not waited for.
NothingPending == pending = <<>>
Nothing == pending = <<>> /\ ~ Draining

Flush(x) ==
  /\ (Turn(x) /\ Call(x).op = "flush") \/ phase[x] = "wrote"
  /\ before' = [before EXCEPT ![x] = ToSet(entered)]
  /\ IF Nothing
     THEN /\ phase' = [phase EXCEPT ![x] = "returned"]
          /\ UNCHANGED <<pending, loopVars, lost>>
     ELSE Kick(pending, [phase EXCEPT ![x] = "flushing"])
  /\ UNCHANGED <<closed, resolvers, jobs, entered, acked>>

(* close().  A send that is under way goes on.                             *)
Close ==
  /\ MayClose
  /\ ~ closed
  /\ closed' = TRUE
  /\ pending' = <<>>
  /\ lost' = lost \cup ToSet(pending)
  /\ phase' = Woken(Flushed(phase))
  /\ jobs' = jobs \o resolvers /\ resolvers' = <<>>
  /\ UNCHANGED <<loopVars, entered, acked, before>>

Next ==
  \/ \E x \in Calls : Enqueue(x) \/ Flush(x)
  \/ Resume \/ SendOk \/ SendRetry \/ SendDrop \/ SleepEnd \/ Close

Spec == Init /\ [][Next]_vars

(* The event loop runs what is ready, a send ends, and it does not fail    *)
(* for ever.                                                               *)
FairSpec ==
  /\ Spec
  /\ \A x \in Calls : WF_vars(Enqueue(x) \/ Flush(x))
  /\ WF_vars(Resume) /\ WF_vars(SleepEnd)
  /\ WF_vars(SendOk \/ SendRetry \/ SendDrop) /\ SF_vars(SendOk)
-----------------------------------------------------------------------------
(* Properties.                                                             *)

TypeOK ==
  /\ {pending, batch, entered, acked} \subseteq Seq(Events)
  /\ lost \subseteq Events
  /\ closed \in BOOLEAN
  /\ drain \in {"idle", "sending", "sleeping"}
  /\ failures \in 0 .. MaxFailures
  /\ phase \in [Calls -> Phases]
  /\ {resolvers, jobs} \subseteq Seq(Calls)
  /\ ToSet(resolvers) = {x \in Calls : phase[x] = "blocked"}
  /\ ToSet(jobs) = {x \in Calls : phase[x] = "woken"}
  /\ before \in [Calls -> SUBSET Events]

(* `Serial ordered event uploader': whatever fails, is put back or is      *)
(* dropped, the events that are not lost are acknowledged once each and in *)
(* the order in which they entered, the one batch under way comes next,    *)
(* then what is pending.                                                   *)
NothingMisplaced ==
  ~ closed => Only(entered, Events \ lost) = acked \o batch \o pending

(* `Block until all pending events have been sent': when a flush of an     *)
(* uploader that is not closed returns, all that had entered before it has *)
(* been sent or given up.                                                  *)
FlushMeansSent ==
  ~ closed => \A x \in Calls : phase[x] = "returned" =>
                                 before[x] \subseteq ToSet(acked) \cup lost

(* No lost wake-up: as long as a call waits for space or for a flush, the  *)
(* loop runs and will wake it.                                             *)
WaitersAreServed ==
  ~ closed => \A x \in Calls : phase[x] \in {"blocked", "flushing"} => Draining

(* The queue stays within its limit, but for the batch that is put back.   *)
Bounded ==
  /\ Len(pending) <= MaxQueueSize + MaxBatchSize
  /\ drain = "sending" => Len(pending) <= MaxQueueSize

(* The queue is sound: its type, its order and its limit.                  *)
QueueSound == TypeOK /\ NothingMisplaced /\ Bounded

(* Who waits for the queue is not left behind, and a flush tells the truth.*)
WaitersSound == FlushMeansSent /\ WaitersAreServed

(* `Drop pending events and stop processing': a closed uploader begins no  *)
(* send, although a failing one is put back in its queue.                  *)
ClosedSendsNothing == [][closed => batch' \in {batch, <<>>}]_vars

(* `Serial ordered event uploader': the events of a caller, who may not    *)
(* await, are acknowledged in the order of its calls.                      *)
SerialOrder ==
  \A i, j \in DOMAIN acked :
    i < j /\ acked[i][1] = acked[j][1] => acked[i][2] <= acked[j][2]

(* Every call on an uploader that is not closed returns.                   *)
CallsReturn ==
  \A x \in Calls : phase[x] # "ahead" ~> phase[x] = "returned" \/ closed

(* close() `Resolves any blocked enqueue() and flush() callers': after it  *)
(* every call returns too.                                                 *)
ClosedCallsReturn ==
  \A x \in Calls : phase[x] # "ahead" /\ closed ~> phase[x] = "returned"
=============================================================================
