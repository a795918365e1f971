----------------------------- MODULE MCTaskList -----------------------------
(* Small instances of TaskList for TLC.                                    *)
EXTENDS TaskList

CONSTANTS p1, p2, p3

Open == [owner |-> Nobody, status |-> "pending", blocks |-> {}, blockedBy |-> {}]

(* No task; two tasks; two tasks, the first of which blocks the second;    *)
(* two tasks, the first of which p1 owns.                                  *)
StartEmpty == [i \in Ids |-> Gone]
StartTwo == [i \in Ids |-> IF i <= 2 THEN Open ELSE Gone]
StartThree == [i \in Ids |-> Open]
StartBlocked == [StartTwo EXCEPT ![1].blocks = {2}, ![2].blockedBy = {1}]
StartOwned == [StartTwo EXCEPT ![1].owner = p1]

Scenario(roles, times, start) ==
  [roles |-> roles, calls |-> times, start |-> start]

(* Ids are given out while the list is reset.                              *)
GivingIds == Scenario([p \in Procs |-> {"create", "reset"}], 2, StartEmpty)
(* Two agents claim, a leader updates, deletes or adds an edge.            *)
Claiming ==
  Scenario([p \in Procs |-> IF p = p1 THEN {"update", "block", "delete"} ELSE {"claim"}],
           1, StartBlocked)
(* A leader whose calls change the whole list, and an agent that claims if *)
(* it is not busy.                                                         *)
Leading ==
  Scenario([p \in Procs |-> CASE p = p1 -> {"claimBusy", "delete", "unassign", "reset"}
                              [] p = p2 -> {"claimBusy", "block"}
                              [] OTHER -> {}], 2, StartOwned)
AllScenarios == {GivingIds, Claiming, Leading}

(* Deletions and creations of two processes.                               *)
Reusing == {Scenario([p \in Procs |-> {"create", "delete"}], 2, StartTwo)}
(* A claim that looks whether the agent is busy, and one that does not.    *)
BusyClaiming ==
  {Scenario([p \in Procs |-> IF p = p1 THEN {"claimBusy"} ELSE {"claim"}], 1, StartTwo)}
Unassigning ==
  {Scenario([p \in Procs |-> IF p = p1 THEN {} ELSE {"unassign", "claim"}], 2, StartOwned)}
UpdatingBlocker ==
  {Scenario([p \in Procs |-> IF p = p1 THEN {"update"} ELSE {"claim"}], 1, StartBlocked)}
UpdatingTwo ==
  {Scenario([p \in Procs |-> IF p = p1 THEN {"update"} ELSE {"claim"}], 1, StartTwo)}
Blocking == {Scenario([p \in Procs |-> {"block"}], 1, StartThree)}
Deleting ==
  {Scenario([p \in Procs |-> IF p = p1 THEN {"delete"} ELSE {"update"}], 1, StartBlocked)}

ChangesEnd == {[status |-> "completed"]}
ChangesStart == {[status |-> "in_progress"]}
=============================================================================
