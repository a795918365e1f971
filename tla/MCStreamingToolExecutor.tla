---------------------- MODULE MCStreamingToolExecutor ----------------------
(* Small instances of StreamingToolExecutor for TLC. *)
EXTENDS StreamingToolExecutor

Read  == [gate |-> FALSE, safe |-> TRUE,  bash |-> FALSE, stop |-> FALSE]
Sleep == [gate |-> FALSE, safe |-> TRUE,  bash |-> FALSE, stop |-> TRUE]
Edit  == [gate |-> FALSE, safe |-> FALSE, bash |-> FALSE, stop |-> FALSE]
Bash  == [gate |-> FALSE, safe |-> FALSE, bash |-> TRUE,  stop |-> FALSE]
Grep  == [gate |-> FALSE, safe |-> TRUE,  bash |-> TRUE,  stop |-> FALSE]
Gone  == [gate |-> TRUE,  safe |-> TRUE,  bash |-> FALSE, stop |-> FALSE]

KindsAll == {Sleep, Edit, Grep, Gone}
KindsQueued == {Edit, Grep}
KindsUser == {Sleep, Edit}
KindsSafe == {Read}
KindsSpin == {Edit, Gone}
=============================================================================
