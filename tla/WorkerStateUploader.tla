------------------------ MODULE WorkerStateUploader ------------------------
(***************************************************************************)
(* The uploader of a worker's state                                        *)
(* (src/cli/transports/WorkerStateUploader.ts): one PUT in flight, later   *)
(* patches coalesced into one pending patch, which a retry absorbs.        *)
(*                                                                         *)
(* A key is a top-level key of the body or a key of its metadata: for both *)
(* the last value wins, and null is a value.  The server (external) merges *)
(* a body into its copy the same way; an answer may be lost after it has.  *)
(*                                                                         *)
(* No name is one of SerialBatchEventUploader, so that a module can extend *)
(* both.                                                                   *)
(***************************************************************************)
EXTENDS Integers, Sequences

CONSTANTS Keys, Values, Unset,
          NoPatch,      \* null
          Metadata,     \* the keys inside the metadata
          Reports,      \* the patches that are reported
          MaxReports    \* bound: reports

Patches == [Keys -> Values \cup {Unset}]
States == [Keys -> Values]

ASSUME KeysAssumption ==
  /\ Unset \notin Values
  /\ NoPatch \notin Patches
  /\ Metadata \subseteq Keys
  /\ Reports \subseteq Patches
  /\ MaxReports \in Nat

VARIABLES
  pendingPatch,   \* the field pending
  current,        \* what sendWithRetry sends, NoPatch when there is no inflight
  at,             \* where inflight stands: "idle", "sending", "sleeping", "sent"
  stateClosed,
  server,         \* the server's copy
  reported, published,   \* as in WorkerState
  carried         \* which reported state the current patch leads to

uploaderVars == <<pendingPatch, current, at, stateClosed>>
stateVars == <<uploaderVars, server, reported, published, carried>>

Abstract == INSTANCE WorkerState
              WITH reported <- reported, published <- published,
                   server <- server, closed <- stateClosed

StateInit ==
  /\ pendingPatch = NoPatch /\ current = NoPatch
  /\ at = "idle" /\ stateClosed = FALSE
  /\ server \in States
  /\ reported = <<server>>
  /\ published = 1 /\ carried = 1

(* coalescePatches: the overlay wins, key by key in the metadata too.      *)
\* Mutant of Coalesce: the metadata is replaced as a whole.
CoalesceShallow(base, overlay) ==
  [k \in Keys |->
     IF overlay[k] # Unset \/ (k \in Metadata /\ \E j \in Metadata : overlay[j] # Unset)
     THEN overlay[k] ELSE base[k]]
Coalesce(base, overlay) ==
  [k \in Keys |-> IF overlay[k] = Unset THEN base[k] ELSE overlay[k]]

Merge(patch, overlay) ==
  IF patch = NoPatch THEN overlay ELSE Coalesce(patch, overlay)

(* drain and the first send of sendWithRetry, with p pending.              *)
Drain(p, latest) ==
  /\ current' = p
  /\ carried' = latest
  /\ pendingPatch' = NoPatch
  /\ at' = "sending"

EnqueuePatch(patch) ==
  /\ ~ stateClosed
  /\ Len(reported) <= MaxReports
  /\ reported' = Append(reported, Abstract!Apply(Abstract!Latest, patch))
  /\ IF at = "idle"
     THEN Drain(Merge(pendingPatch, patch), Len(reported) + 1)
     ELSE pendingPatch' = Merge(pendingPatch, patch) /\ UNCHANGED <<current, at, carried>>
  /\ UNCHANGED <<stateClosed, server, published>>

(* The server merges the body.                                             *)
Arrive ==
  /\ server' = Abstract!Apply(server, current)
  /\ published' = IF carried > published THEN carried ELSE published

PutOk ==
  /\ at = "sending"
  /\ Arrive
  /\ at' = "sent"
  /\ UNCHANGED <<pendingPatch, current, stateClosed, reported, carried>>

(* The send fails, before or after the server has merged the body.         *)
PutFails ==
  /\ at = "sending"
  /\ Arrive \/ UNCHANGED <<server, published>>
  /\ at' = "sleeping"
  /\ UNCHANGED <<pendingPatch, current, stateClosed, reported, carried>>

(* The end of the back-off: what has arrived is absorbed.                  *)
\* Mutant of Absorbed: what was being sent wins.
AbsorbedUnder == Coalesce(pendingPatch, current)
Absorbed == Coalesce(current, pendingPatch)

Retry ==
  /\ at = "sleeping"
  /\ IF stateClosed
     THEN /\ at' = "sent"
          /\ UNCHANGED <<pendingPatch, current, carried>>
     ELSE IF pendingPatch = NoPatch
          THEN /\ at' = "sending"
               /\ UNCHANGED <<pendingPatch, current, carried>>
          ELSE Drain(Absorbed, Len(reported))
  /\ UNCHANGED <<stateClosed, server, reported, published>>

(* The `then` of inflight.                                                 *)
\* Mutant of More: what came in during the send waits for the next report.
MoreNever == FALSE
More == pendingPatch # NoPatch /\ ~ stateClosed

Settle ==
  /\ at = "sent"
  /\ IF More
     THEN Drain(pendingPatch, Len(reported))
     ELSE /\ at' = "idle" /\ current' = NoPatch
          /\ UNCHANGED <<pendingPatch, carried>>
  /\ UNCHANGED <<stateClosed, server, reported, published>>

CloseState ==
  /\ ~ stateClosed
  /\ stateClosed' = TRUE
  /\ pendingPatch' = NoPatch
  /\ UNCHANGED <<current, at, server, reported, published, carried>>

StateNext ==
  \/ \E patch \in Reports : EnqueuePatch(patch)
  \/ PutOk \/ PutFails \/ Retry \/ Settle \/ CloseState

StateSpec == StateInit /\ [][StateNext]_stateVars

(* A send ends and does not fail for ever, the timer of a back-off goes    *)
(* off.                                                                    *)
FairStateSpec ==
  /\ StateSpec
  /\ WF_stateVars(PutOk \/ PutFails) /\ SF_stateVars(PutOk)
  /\ WF_stateVars(Retry) /\ WF_stateVars(Settle)
-----------------------------------------------------------------------------
(* Properties.                                                             *)

StateTypeOK ==
  /\ pendingPatch \in Patches \cup {NoPatch}
  /\ current \in Patches \cup {NoPatch}
  /\ at \in {"idle", "sending", "sleeping", "sent"}
  /\ at # "idle" => current \in Patches
  /\ stateClosed \in BOOLEAN
  /\ server \in States
  /\ reported \in Seq(States)
  /\ published \in 1 .. Len(reported)
  /\ carried \in published .. Len(reported)

(* Whatever is coalesced, retried, or merged by the server although the    *)
(* answer was lost: what is being sent leads from the server's copy to the *)
(* state it stands for, and what is pending from there to the latest.      *)
PatchesLeadToLatest ==
  /\ at \in {"sending", "sleeping"} =>
       Abstract!Apply(server, current) = reported[carried]
  /\ at \in {"idle", "sent"} /\ ~ stateClosed => published = carried
  /\ server = reported[published]
  /\ ~ stateClosed =>
       IF pendingPatch = NoPatch
       THEN carried = Len(reported)
       ELSE /\ at # "idle"
            /\ Abstract!Apply(reported[carried], pendingPatch) = Abstract!Latest

(* The uploader keeps the promise of WorkerState: the server's copy goes   *)
(* forward through the states that were reported.                          *)
KeepsPromise == Abstract!Spec

(* `Retries indefinitely until success or close()': the last reported      *)
(* state reaches the server.                                               *)
Delivered ==
  \A n \in 1 .. MaxReports + 1 : Len(reported) >= n ~> published >= n \/ stateClosed
=============================================================================
