-------------------------- MODULE MCTeammateMailbox --------------------------
(* The leader sends a message and a shutdown request, a teammate sends a   *)
(* message.                                                                *)
EXTENDS TeammateMailbox

CONSTANTS leader, mate, stop, lead, peer

Agents == {leader, mate}
Mail == {stop, lead, peer}
StopRequests == {stop}
SenderOf == [m \in Mail |-> IF m = peer THEN mate ELSE leader]
=============================================================================
