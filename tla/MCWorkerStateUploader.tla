----------------------- MODULE MCWorkerStateUploader -----------------------
(* Small instances of WorkerStateUploader for TLC.                         *)
EXTENDS WorkerStateUploader, TLC

CONSTANTS status, pendingAction, model, v, null

(* reportState sets top-level keys, reportMetadata keys of the metadata;   *)
(* the initial state of the server is any.                                 *)
MCKeys == {status, pendingAction, model}
MCMetadata == {pendingAction, model}
MCReports ==
  {p \in Patches : p[status] = Unset <=> \E k \in Metadata : p[k] # Unset}
=============================================================================
