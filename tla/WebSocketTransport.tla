------------------------- MODULE WebSocketTransport -------------------------
(***************************************************************************)
(* The connection of a remote session to its server                        *)
(* (src/cli/transports/WebSocketTransport.ts), the network, and what the   *)
(* server has got.                                                         *)
(*                                                                         *)
(* The transport keeps the messages it has written in a ring buffer and    *)
(* sends them again on a new connection.  Under Bun it sends them all and  *)
(* the server drops what it knows by its uuid; under Node it sends those   *)
(* after the id that the server names in the headers of its answer, and    *)
(* nothing when it does not see such a header.                             *)
(*                                                                         *)
(* A message is the number of its write; messages without a uuid are not   *)
(* kept and are left out.  A step is one callback: of the socket, of a     *)
(* timer, of the import that Node waits for, or a call of the owner.       *)
(***************************************************************************)
EXTENDS Integers, Sequences, FiniteSets

CONSTANTS Runtimes,    \* where the program runs: "bun", "node"
          Reconnects,  \* the values of the option autoReconnect
          BufferSize,  \* the capacity of the ring buffer
          MaxMessages, \* bound: messages written
          MaxFaults,   \* bound: broken and dead connections, failed sends
          None         \* no id

ASSUME TransportAssumption ==
  /\ Runtimes \subseteq {"bun", "node"} /\ Reconnects \subseteq BOOLEAN
  /\ BufferSize \in Nat \ {0} /\ MaxMessages \in Nat /\ MaxFaults \in Nat
  /\ None \notin Nat

Messages == 1 .. MaxMessages

VARIABLES
  runtime, autoReconnect,  \* fixed
  state,       \* the field of this name
  link,        \* the socket: "none", "import" before there is one, "opening",
               \*   "up"
  timer,       \* reconnectTimer is set
  since,       \* the age of reconnectStartTime: "none", "recent", or "old"
               \*   when the budget for reconnections is used up
  pong,        \* pongReceived
  buffer,      \* messageBuffer
  lastSentId,  \* the field of this name
  written,     \* how many messages were written
  (* The network and the server.                                           *)
  dead,        \* what is sent on the connection does not arrive any more
  wire,        \* under way on the connection
  stray,       \* under way on the connection before
  received,    \* what the server has got, each message once
  faults,      \* counts what MaxFaults bounds
  (* History.                                                              *)
  overflowed,  \* the buffer dropped a message that the server had not got
  blind        \* a connection opened and such messages were not sent again

ends    == <<runtime, autoReconnect>>
retries == <<timer, since>>
kept    == <<buffer, lastSentId>>
network == <<dead, wire, stray>>
past    == <<overflowed, blind>>
vars    == <<ends, state, link, retries, pong, kept, written, network,
             received, faults, past>>

Members(seq) == {seq[i] : i \in DOMAIN seq}
Known  == Members(received)
Closed == state \in {"closing", "closed"}

Init ==
  /\ runtime \in Runtimes /\ autoReconnect \in Reconnects
  /\ state = "idle" /\ link = "none"
  /\ timer = FALSE /\ since = "none" /\ pong = TRUE
  /\ buffer = <<>> /\ lastSentId = None /\ written = 0
  /\ dead = FALSE /\ wire = <<>> /\ stray = <<>> /\ received = <<>>
  /\ faults = 0
  /\ overflowed = FALSE /\ blind = FALSE

-----------------------------------------------------------------------------
(* connect and the errors of a connection.                                 *)

(* connect, called by the owner or by the timer.                           *)
Connect ==
  /\ state' = "reconnecting"
  /\ link' = IF runtime = "node" THEN "import" ELSE "opening"

OwnerConnects ==
  /\ state = "idle"
  /\ Connect
  /\ UNCHANGED <<ends, retries, pong, kept, written, network, received, faults, past>>

TimerFires ==
  /\ timer
  /\ timer' = FALSE
  /\ IF state = "reconnecting" THEN Connect ELSE UNCHANGED <<state, link>>
  /\ UNCHANGED <<ends, since, pong, kept, written, network, received, faults, past>>

(* The import is there; nothing asks whether the transport is still open.  *)
Imported ==
  /\ link = "import"
  /\ link' = "opening"
  /\ UNCHANGED <<ends, state, retries, pong, kept, written, network, received,
                 faults, past>>

(* doDisconnect: the listeners are removed and the socket is closed.  What *)
(* is under way may still arrive.                                          *)
Disconnect(sending) ==
  /\ link' = "none"
  /\ dead' = FALSE /\ wire' = <<>> /\ stray' = sending

\* Mutant of Retries: a transport whose budget is used up stays as it is.
RetriesOrWaits ==
  \/ /\ since # "old"
     /\ state' = "reconnecting" /\ timer' = TRUE
     /\ since' = IF since = "none" THEN "recent" ELSE since
  \/ since = "old" /\ state' = "reconnecting" /\ UNCHANGED retries
(* Schedule a reconnection: within the budget, or anew after a sleep of    *)
(* the machine, which shows in the gap between two attempts.               *)
Retries ==
  \/ /\ since # "old"
     /\ state' = "reconnecting" /\ timer' = TRUE
     /\ since' = IF since = "none" THEN "recent" ELSE since
  \/ since = "old" /\ state' = "reconnecting" /\ timer' = TRUE /\ since' = "recent"
  \/ since = "old" /\ state' = "closed" /\ UNCHANGED retries

(* handleConnectionError.  The code is permanent for a session that is     *)
(* gone, and for a refused token when refreshHeaders has no new one.       *)
HandleError(permanent) ==
  /\ Disconnect(wire)
  /\ \/ Closed /\ UNCHANGED <<state, retries>>
     \/ /\ ~Closed /\ (permanent \/ ~autoReconnect)
        /\ state' = "closed" /\ UNCHANGED retries
     \/ /\ ~Closed /\ ~permanent /\ autoReconnect
        /\ Retries

(* The socket closes, or could not be opened.                              *)
SocketCloses(permanent) ==
  /\ link \in {"opening", "up"}
  /\ faults < MaxFaults /\ faults' = faults + 1
  /\ HandleError(permanent)
  /\ UNCHANGED <<ends, pong, kept, written, received, past>>

(* The time budget runs out.                                               *)
BudgetRunsOut ==
  /\ since = "recent" /\ since' = "old"
  /\ UNCHANGED <<ends, state, link, timer, pong, kept, written, network, received,
                 faults, past>>

-----------------------------------------------------------------------------
(* An open connection.                                                     *)

\* Mutant of After: the replay starts one message too late.
AfterNext(id) ==
  LET at == {i \in DOMAIN buffer : buffer[i] = id}
  IN  IF at = {} THEN buffer
      ELSE SubSeq(buffer, (CHOOSE i \in at : TRUE) + 2, Len(buffer))
(* What of the buffer comes after the id; all of it for an unknown one.    *)
After(id) ==
  LET at == {i \in DOMAIN buffer : buffer[i] = id}
  IN  IF at = {} THEN buffer
      ELSE SubSeq(buffer, (CHOOSE i \in at : TRUE) + 1, Len(buffer))

(* The socket is open and nothing is replayed: under Bun when nothing was  *)
(* sent, under Node when no header with an id is seen.                     *)
OpenOnly ==
  /\ link = "opening"
  /\ runtime = "bun" => lastSentId = None
  /\ link' = "up" /\ state' = "connected"
  /\ since' = "none" /\ pong' = TRUE
  /\ blind' = (blind \/ ~ (Members(buffer) \subseteq Known))
  /\ UNCHANGED <<ends, timer, kept, written, network, received, faults, overflowed>>

(* The id after which to replay: none under Bun, under Node the last one   *)
(* that the server has got.                                                *)
ServerId == IF runtime = "bun" THEN None ELSE received[Len(received)]

OpenAndReplay ==
  /\ link = "opening"
  /\ IF runtime = "bun" THEN lastSentId # None ELSE received # <<>>
  /\ link' = "up" /\ state' = "connected"
  /\ since' = "none" /\ pong' = TRUE
  /\ buffer' = After(ServerId)
  /\ lastSentId' = IF After(ServerId) = <<>> THEN None ELSE lastSentId
  /\ wire' = After(ServerId)
  /\ UNCHANGED <<ends, timer, written, dead, stray, received, faults, past>>

(* A send of the replay throws after some messages have gone out.          *)
ReplayFails ==
  /\ link = "opening"
  /\ IF runtime = "bun" THEN lastSentId # None ELSE received # <<>>
  /\ faults < MaxFaults /\ faults' = faults + 1
  /\ \E n \in 0 .. Len(After(ServerId)) - 1 :
       Disconnect(SubSeq(After(ServerId), 1, n))
  /\ buffer' = After(ServerId)
  /\ state' = IF autoReconnect THEN "reconnecting" ELSE "closed"
  /\ timer' = autoReconnect
  /\ since' = IF autoReconnect THEN "recent" ELSE "none"
  /\ pong' = TRUE
  /\ UNCHANGED <<ends, lastSentId, written, received, past>>

(* write, up to the sending: the ring drops the oldest when it is full.    *)
Buffered(m) ==
  /\ buffer' = Append(IF Len(buffer) < BufferSize THEN buffer ELSE Tail(buffer), m)
  /\ lastSentId' = m
  /\ overflowed' = (overflowed \/ ~ (Members(buffer) \subseteq Members(buffer') \cup Known))

Write ==
  LET m == written + 1
  IN  /\ state # "idle" /\ m \in Messages
      /\ written' = m
      /\ Buffered(m)
      /\ \/ /\ state # "connected"
            /\ UNCHANGED <<state, link, retries, network, faults>>
         \/ /\ state = "connected"
            /\ wire' = IF dead THEN wire ELSE Append(wire, m)
            /\ UNCHANGED <<state, link, retries, dead, stray, faults>>
         \/ /\ state = "connected"
            /\ faults < MaxFaults /\ faults' = faults + 1
            /\ HandleError(FALSE)
      /\ UNCHANGED <<ends, pong, received, blind>>

(* The interval of the pings.  After a sleep of the machine, or when the   *)
(* answer to a live connection's ping is late, the error is a fault of the *)
(* network.                                                                *)
\* Mutant of PingTick: the missing pong is not noticed.
PingTickOnly ==
  /\ state = "connected" /\ pong /\ pong' = FALSE
  /\ UNCHANGED <<ends, state, link, retries, kept, written, network, received,
                 faults, past>>
PingTick ==
  /\ state = "connected"
  /\ \/ /\ pong /\ pong' = FALSE
        /\ UNCHANGED <<state, link, retries, network, faults>>
     \/ /\ dead /\ ~pong
        /\ HandleError(FALSE)
        /\ UNCHANGED <<pong, faults>>
     \/ /\ faults < MaxFaults /\ faults' = faults + 1
        /\ HandleError(FALSE)
        /\ UNCHANGED pong
  /\ UNCHANGED <<ends, kept, written, received, past>>

Pong ==
  /\ link = "up" /\ ~dead /\ ~pong
  /\ pong' = TRUE
  /\ UNCHANGED <<ends, state, link, retries, kept, written, network, received,
                 faults, past>>

\* Mutant of Close: the socket that is being opened is left alone.
CloseIfOpen ==
  /\ state \notin {"idle", "closing"}
  /\ state' = "closing" /\ timer' = FALSE
  /\ IF link = "up" THEN Disconnect(wire) ELSE UNCHANGED <<link, network>>
  /\ UNCHANGED <<ends, since, pong, kept, written, received, faults, past>>
(* close, called by the owner.  There is nothing to close while Node waits *)
(* for the import.                                                         *)
Close ==
  /\ state \notin {"idle", "closing"}
  /\ state' = "closing" /\ timer' = FALSE
  /\ IF link \in {"opening", "up"} THEN Disconnect(wire) ELSE UNCHANGED <<link, network>>
  /\ UNCHANGED <<ends, since, pong, kept, written, received, faults, past>>

-----------------------------------------------------------------------------
(* The network and the server.                                             *)

Dies ==
  /\ link = "up" /\ ~dead
  /\ faults < MaxFaults /\ faults' = faults + 1
  /\ dead' = TRUE
  /\ UNCHANGED <<ends, state, link, retries, pong, kept, written, wire, stray,
                 received, past>>

(* The server drops what it has got already.                               *)
Gets(m) == received' = IF m \in Known THEN received ELSE Append(received, m)

Arrives ==
  /\ wire # <<>>
  /\ Gets(Head(wire)) /\ wire' = Tail(wire)
  /\ UNCHANGED <<ends, state, link, retries, pong, kept, written, dead, stray,
                 faults, past>>

LateArrives ==
  /\ stray # <<>>
  /\ Gets(Head(stray)) /\ stray' = Tail(stray)
  /\ UNCHANGED <<ends, state, link, retries, pong, kept, written, dead, wire,
                 faults, past>>

LateLost ==
  /\ stray # <<>> /\ stray' = <<>>
  /\ UNCHANGED <<ends, state, link, retries, pong, kept, written, dead, wire,
                 received, faults, past>>

-----------------------------------------------------------------------------
Next ==
  \/ OwnerConnects \/ TimerFires \/ Imported
  \/ \E permanent \in BOOLEAN : SocketCloses(permanent)
  \/ BudgetRunsOut
  \/ OpenOnly \/ OpenAndReplay \/ ReplayFails
  \/ Write \/ PingTick \/ Pong \/ Close
  \/ Dies \/ Arrives \/ LateArrives \/ LateLost

(* The timers fire and the import comes; an attempt to connect ends, and   *)
(* so does the wait for what is under way on a live connection.  Nobody    *)
(* has to write or to close.                                               *)
Fairness ==
  /\ WF_vars(TimerFires) /\ WF_vars(Imported)
  /\ WF_vars(OpenOnly \/ OpenAndReplay)
  /\ WF_vars(PingTick) /\ WF_vars(Pong) /\ WF_vars(Arrives)

Spec == Init /\ [][Next]_vars /\ Fairness

-----------------------------------------------------------------------------
(* Correctness.                                                            *)

StateTypes ==
  /\ runtime \in {"bun", "node"} /\ autoReconnect \in BOOLEAN
  /\ state \in {"idle", "connected", "reconnecting", "closing", "closed"}
  /\ link \in {"none", "import", "opening", "up"}
  /\ timer \in BOOLEAN /\ since \in {"none", "recent", "old"} /\ pong \in BOOLEAN

MessageTypes ==
  /\ buffer \in Seq(Messages) /\ wire \in Seq(Messages)
  /\ stray \in Seq(Messages) /\ received \in Seq(Messages)
  /\ lastSentId \in Messages \cup {None}
  /\ written \in 0 .. MaxMessages /\ faults \in 0 .. MaxFaults

FlagTypes == dead \in BOOLEAN /\ overflowed \in BOOLEAN /\ blind \in BOOLEAN

(* The variables have their types.                                         *)
TypeOK == StateTypes /\ MessageTypes /\ FlagTypes

(* The transport and its socket agree.                                     *)
Attempts ==
  /\ state = "reconnecting" => (timer <=> link = "none")
  /\ state = "connected" <=> link = "up"
  /\ timer => state = "reconnecting"

(* A transport that reconnects is never stuck and never tries twice at a   *)
(* time: it has a timer or a connection under way, not both; it holds an   *)
(* open socket exactly when it says that it is connected.                  *)
ConnectionSound == TypeOK /\ Attempts

(* The server has the messages in the order of their writes and without a  *)
(* gap, whatever connections broke and whatever arrives late, as long as   *)
(* the buffer has held what it needed and the replays were made.           *)
NoGap ==
  ~overflowed /\ ~blind => \A i \in DOMAIN received : received[i] = i

(* Under Bun, a transport that its owner or its server has closed does not *)
(* connect again and sends nothing more.                                   *)
StaysClosed ==
  [][runtime = "bun" /\ Closed => Closed' /\ Len(wire') <= Len(wire)]_vars

(* What was written reaches the server, unless the transport is closed     *)
(* before, or the buffer or a missing replay has lost it.                  *)
Delivered ==
  \A m \in Messages :
    written >= m ~> \/ m \in Known
                    \/ Closed
                    \/ overflowed \/ blind

(* The same under Node, too.                                               *)
ClosedForGood == [][Closed => Closed']_vars
=============================================================================
