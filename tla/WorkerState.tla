---------------------------- MODULE WorkerState ----------------------------
(***************************************************************************)
(* What the reporting of a worker's state promises: the server's copy goes *)
(* through states the worker has reported, in their order, perhaps not     *)
(* through all of them, and it ends with the last.                         *)
(***************************************************************************)
EXTENDS Integers, Sequences

CONSTANTS Keys, Values,
          Unset   \* a key that a patch leaves as it is

Patches == [Keys -> Values \cup {Unset}]
States == [Keys -> Values]

VARIABLES
  reported,    \* the states after each report, the first before any
  published,   \* which of them the server has
  server,      \* the server's copy
  closed       \* nothing is reported any more

vars == <<reported, published, server, closed>>

Apply(state, patch) ==
  [k \in Keys |-> IF patch[k] = Unset THEN state[k] ELSE patch[k]]

Latest == reported[Len(reported)]

Init ==
  /\ server \in States
  /\ reported = <<server>>
  /\ published = 1
  /\ closed = FALSE

Report(patch) ==
  /\ ~ closed
  /\ reported' = Append(reported, Apply(Latest, patch))
  /\ UNCHANGED <<published, server, closed>>

Publish ==
  /\ \E n \in published .. Len(reported) :
       /\ published' = n
       /\ server' = reported[n]
  /\ UNCHANGED <<reported, closed>>

Close ==
  /\ closed' = TRUE
  /\ UNCHANGED <<reported, published, server>>

Next == (\E patch \in Patches : Report(patch)) \/ Publish \/ Close

Spec == Init /\ [][Next]_vars

(* The server ends with the last state that was reported, unless the       *)
(* reporting is closed first.                                              *)
Delivered ==
  \A n \in Nat : Len(reported) >= n ~> published >= n \/ closed
=============================================================================
