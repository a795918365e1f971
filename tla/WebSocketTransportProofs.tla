---------------------- MODULE WebSocketTransportProofs ----------------------
(***************************************************************************)
(* Proofs about the connection of a remote session, for all runtimes and   *)
(* bounds: the state of the transport is sound, a closed one stays closed  *)
(* under Bun, and the server gets the messages without a gap.              *)
(***************************************************************************)
EXTENDS WebSocketTransport, SequenceTheorems, TLAPS

(* Under Bun there is no import to wait for, and closing leaves no socket. *)
ClosedIsClosed ==
  runtime = "bun" => link # "import" /\ (Closed => link = "none")

(* The owner connects when there is no socket.                             *)
Fresh == state = "idle" => link = "none"

StateInv == StateTypes /\ Attempts /\ ClosedIsClosed /\ Fresh

(* The parts of a step that several actions share.                         *)
LEMMA ErrorSound ==
  ASSUME StateInv, NEW permanent \in BOOLEAN, link \in {"opening", "up"},
         HandleError(permanent)
  PROVE  /\ state' \in {"reconnecting", "closing", "closed"} /\ link' = "none"
         /\ timer' \in BOOLEAN /\ since' \in {"none", "recent", "old"}
         /\ timer' <=> state' = "reconnecting"
<1> USE DEF StateInv, StateTypes, Attempts, HandleError, Disconnect, retries, Closed
<1>1. CASE Closed
  BY <1>1
<1>2. CASE ~Closed /\ (permanent \/ ~autoReconnect)
  BY <1>2
<1>3. CASE ~Closed /\ ~permanent /\ autoReconnect
  <2>1. Retries
    BY <1>3
  <2>2. CASE since # "old"
    BY <2>1, <2>2 DEF Retries
  <2>3. CASE state' = "reconnecting" /\ timer' = TRUE /\ since' = "recent"
    BY <2>3
  <2>4. CASE state' = "closed" /\ UNCHANGED retries
    BY <1>3, <2>4
  <2> QED
    BY <2>1, <2>2, <2>3, <2>4 DEF Retries
<1> QED
  BY <1>1, <1>2, <1>3

LEMMA StateStep == StateInv /\ [Next]_vars => StateInv'
<1> SUFFICES ASSUME StateInv, [Next]_vars
             PROVE  StateInv'
  OBVIOUS
<1> USE DEF StateInv, StateTypes, Attempts, ClosedIsClosed, Fresh, Closed, ends, retries
<1>1. ASSUME NEW permanent \in BOOLEAN, SocketCloses(permanent)
      PROVE  StateInv'
  BY <1>1, ErrorSound DEF SocketCloses
<1>2. CASE OwnerConnects
  BY <1>2 DEF OwnerConnects, Connect
<1>3. CASE TimerFires
  BY <1>3 DEF TimerFires, Connect
<1>4. CASE Imported
  BY <1>4 DEF Imported
<1>5. CASE BudgetRunsOut
  BY <1>5 DEF BudgetRunsOut
<1>6. CASE OpenOnly
  BY <1>6 DEF OpenOnly
<1>7. CASE OpenAndReplay
  BY <1>7 DEF OpenAndReplay
<1>8. CASE ReplayFails
  BY <1>8 DEF ReplayFails, Disconnect
<1>9. CASE Write
  <2>1. CASE UNCHANGED <<state, link, retries>>
    BY <1>9, <2>1 DEF Write
  <2>2. CASE state = "connected" /\ HandleError(FALSE)
    BY <1>9, <2>2, ErrorSound DEF Write
  <2> QED
    BY <1>9, <2>1, <2>2 DEF Write
<1>10. CASE PingTick
  <2>1. CASE UNCHANGED <<state, link, retries>> /\ pong' = FALSE
    BY <1>10, <2>1 DEF PingTick
  <2>2. CASE HandleError(FALSE) /\ UNCHANGED pong
    BY <1>10, <2>2, ErrorSound DEF PingTick
  <2> QED
    BY <1>10, <2>1, <2>2 DEF PingTick
<1>11. CASE Pong
  BY <1>11 DEF Pong
<1>12. CASE Close
  BY <1>12 DEF Close, Disconnect
<1>13. CASE Dies
  BY <1>13 DEF Dies
<1>14. CASE Arrives
  BY <1>14 DEF Arrives
<1>15. CASE LateArrives
  BY <1>15 DEF LateArrives
<1>16. CASE LateLost
  BY <1>16 DEF LateLost
<1>17. CASE UNCHANGED vars
  BY <1>17 DEF vars
<1> QED
  BY <1>1, <1>2, <1>3, <1>4, <1>5, <1>6, <1>7, <1>8, <1>9, <1>10, <1>11,
     <1>12, <1>13, <1>14, <1>15, <1>16, <1>17 DEF Next

LEMMA StateAlways == Spec => []StateInv
<1>1. Init => StateInv
  BY TransportAssumption
     DEF Init, StateInv, StateTypes, Attempts, ClosedIsClosed, Fresh, Closed
<1> QED
  BY <1>1, StateStep, PTL DEF Spec

-----------------------------------------------------------------------------
(* The messages and the flags keep their types.                            *)

LEMMA AfterTyped ==
  ASSUME MessageTypes, NEW id
  PROVE  After(id) \in Seq(Messages)
<1> DEFINE at == {i \in DOMAIN buffer : buffer[i] = id}
<1>1. CASE at = {}
  BY <1>1 DEF After, MessageTypes
<1>2. CASE at # {}
  <2> DEFINE k == CHOOSE i \in at : TRUE
  <2>1. k \in 1 .. Len(buffer)
    BY <1>2 DEF MessageTypes
  <2>2. After(id) = SubSeq(buffer, k + 1, Len(buffer))
    BY <1>2 DEF After
  <2>3. \A i \in k + 1 .. Len(buffer) : buffer[i] \in Messages
    BY <2>1 DEF MessageTypes
  <2> HIDE DEF k
  <2> QED
    BY <2>1, <2>2, <2>3, SubSeqProperties
<1> QED
  BY <1>1, <1>2

LEMMA MessageStep == MessageTypes /\ [Next]_vars => MessageTypes'
<1> SUFFICES ASSUME MessageTypes, [Next]_vars
             PROVE  MessageTypes'
  OBVIOUS
<1> USE TransportAssumption DEF MessageTypes, kept, network
<1>1. ASSUME NEW permanent \in BOOLEAN, SocketCloses(permanent)
      PROVE  MessageTypes'
  BY <1>1 DEF SocketCloses, HandleError, Disconnect
<1>2. CASE OwnerConnects
  BY <1>2 DEF OwnerConnects
<1>3. CASE TimerFires
  BY <1>3 DEF TimerFires
<1>4. CASE Imported
  BY <1>4 DEF Imported
<1>5. CASE BudgetRunsOut
  BY <1>5 DEF BudgetRunsOut
<1>6. CASE OpenOnly
  BY <1>6 DEF OpenOnly
<1>7. CASE OpenAndReplay
  BY <1>7, AfterTyped DEF OpenAndReplay
<1>8. CASE ReplayFails
  <2>1. PICK n \in 0 .. Len(After(ServerId)) - 1 :
          Disconnect(SubSeq(After(ServerId), 1, n))
    BY <1>8 DEF ReplayFails
  <2>2. SubSeq(After(ServerId), 1, n) \in Seq(Messages)
    BY <2>1, AfterTyped
  <2> QED
    BY <1>8, <2>1, <2>2, AfterTyped DEF ReplayFails, Disconnect
<1>9. CASE Write
  <2> DEFINE m == written + 1
  <2>1. /\ m \in Messages /\ lastSentId' = m /\ written' = m /\ received' = received
        /\ buffer' = Append(IF Len(buffer) < BufferSize THEN buffer ELSE Tail(buffer), m)
    BY <1>9 DEF Write, Buffered
  <2>2. buffer' \in Seq(Messages)
    BY <2>1
  <2>3. lastSentId' \in Messages \cup {None} /\ written' \in 0 .. MaxMessages
    BY <2>1 DEF Messages
  <2>4. CASE UNCHANGED <<network, faults>>
    BY <2>1, <2>2, <2>3, <2>4
  <2>5. CASE wire' \in {wire, Append(wire, m)} /\ UNCHANGED <<stray, faults>>
    <3>1. Append(wire, m) \in Seq(Messages)
      BY <2>1, AppendProperties
    <3>2. wire' \in Seq(Messages)
      BY <2>5, <3>1
    <3> QED
      BY <2>1, <2>2, <2>3, <2>5, <3>2
  <2>6. CASE Disconnect(wire) /\ faults < MaxFaults /\ faults' = faults + 1
    BY <2>1, <2>2, <2>3, <2>6 DEF Disconnect
  <2> QED
    BY <1>9, <2>4, <2>5, <2>6 DEF Write, HandleError
<1>10. CASE PingTick
  <2>1. CASE UNCHANGED <<network, faults>>
    BY <1>10, <2>1 DEF PingTick
  <2>2. CASE Disconnect(wire) /\ faults' \in 0 .. MaxFaults
    BY <1>10, <2>2 DEF PingTick, Disconnect
  <2> QED
    BY <1>10, <2>1, <2>2 DEF PingTick, HandleError
<1>11. CASE Pong
  BY <1>11 DEF Pong
<1>12. CASE Close
  <2>1. CASE UNCHANGED network
    BY <1>12, <2>1 DEF Close
  <2>2. CASE Disconnect(wire)
    BY <1>12, <2>2 DEF Close, Disconnect
  <2> QED
    BY <1>12, <2>1, <2>2 DEF Close
<1>13. CASE Dies
  BY <1>13 DEF Dies
<1>14. CASE Arrives
  BY <1>14 DEF Arrives, Gets
<1>15. CASE LateArrives
  BY <1>15 DEF LateArrives, Gets
<1>16. CASE LateLost
  BY <1>16 DEF LateLost
<1>17. CASE UNCHANGED vars
  BY <1>17 DEF vars
<1> QED
  BY <1>1, <1>2, <1>3, <1>4, <1>5, <1>6, <1>7, <1>8, <1>9, <1>10, <1>11,
     <1>12, <1>13, <1>14, <1>15, <1>16, <1>17 DEF Next

LEMMA FlagStep == StateInv /\ FlagTypes /\ [Next]_vars => FlagTypes'
<1> SUFFICES ASSUME StateInv, FlagTypes, [Next]_vars
             PROVE  FlagTypes'
  OBVIOUS
<1> USE DEF FlagTypes, network, past
<1>1. ASSUME NEW permanent \in BOOLEAN, SocketCloses(permanent)
      PROVE  FlagTypes'
  BY <1>1 DEF SocketCloses, HandleError, Disconnect
<1>2. CASE OwnerConnects \/ TimerFires
  BY <1>2 DEF OwnerConnects, TimerFires
<1>3. CASE Imported \/ BudgetRunsOut
  BY <1>3 DEF Imported, BudgetRunsOut
<1>4. CASE OpenOnly \/ OpenAndReplay
  BY <1>4 DEF OpenOnly, OpenAndReplay
<1>5. CASE ReplayFails
  BY <1>5 DEF ReplayFails, Disconnect
<1>6. CASE Write
  <2>1. overflowed' \in BOOLEAN /\ blind' = blind
    BY <1>6 DEF Write, Buffered
  <2>2. dead' = dead \/ dead' = FALSE
    BY <1>6 DEF Write, HandleError, Disconnect
  <2> QED
    BY <2>1, <2>2
<1>7. CASE PingTick
  BY <1>7 DEF PingTick, HandleError, Disconnect
<1>8. CASE Pong \/ Dies
  BY <1>8 DEF Pong, Dies
<1>9. CASE Close
  BY <1>9 DEF Close, Disconnect
<1>10. CASE Arrives \/ LateArrives \/ LateLost
  BY <1>10 DEF Arrives, LateArrives, LateLost
<1>11. CASE UNCHANGED vars
  BY <1>11 DEF vars
<1> QED
  BY <1>1, <1>2, <1>3, <1>4, <1>5, <1>6, <1>7, <1>8, <1>9, <1>10, <1>11 DEF Next

LEMMA TypesAlways == Spec => []TypeOK
<1>1. Init => MessageTypes /\ FlagTypes
  <2>1. Init => MessageTypes
    BY TransportAssumption DEF Init, MessageTypes
  <2>2. Init => FlagTypes
    BY DEF Init, FlagTypes
  <2> QED
    BY <2>1, <2>2
<1>2. StateInv => StateTypes
  BY DEF StateInv
<1>3. StateTypes /\ MessageTypes /\ FlagTypes => TypeOK
  BY DEF TypeOK
<1> QED
  BY <1>1, <1>2, <1>3, StateAlways, MessageStep, FlagStep, PTL DEF Spec

(* Whatever breaks, closes and times out, for any number of messages and   *)
(* faults: a transport that reconnects has exactly one timer or one        *)
(* connection under way, and it is connected when its socket is open.      *)
THEOREM ConnectionIsSound == Spec => []ConnectionSound
<1>1. TypeOK /\ StateInv => ConnectionSound
  BY DEF StateInv, ConnectionSound
<1> QED
  BY <1>1, TypesAlways, StateAlways, PTL

(* Under Bun a closed transport, for any order of close, errors and        *)
(* timers, does not connect again and sends nothing.                       *)
THEOREM ClosedStaysClosed == Spec => StaysClosed
<1>1. StateInv /\ MessageTypes /\ [Next]_vars
        => [runtime = "bun" /\ Closed => Closed' /\ Len(wire') <= Len(wire)]_vars
  <2> SUFFICES ASSUME StateInv, MessageTypes, Next, runtime = "bun", Closed
               PROVE  Closed' /\ Len(wire') <= Len(wire)
    BY DEF vars
  <2>1. link = "none" /\ ~timer /\ state \notin {"idle", "connected", "reconnecting"}
    BY DEF StateInv, ClosedIsClosed, Attempts, Closed
  <2>2. Len(wire) \in Nat
    BY DEF MessageTypes
  <2>3. CASE Arrives
    BY <2>3, <2>2 DEF Arrives, MessageTypes, Closed
  <2>4. CASE Write
    <3>1. UNCHANGED state /\ UNCHANGED network
      BY <2>4, <2>1 DEF Write
    <3> QED
      BY <3>1, <2>2 DEF Closed, network
  <2>5. CASE Close
    BY <2>5, <2>1, <2>2 DEF Close, Closed, network
  <2>6. CASE LateArrives \/ LateLost \/ BudgetRunsOut
    BY <2>6, <2>2 DEF LateArrives, LateLost, BudgetRunsOut, Closed, network
  <2> QED
    BY <2>1, <2>3, <2>4, <2>5, <2>6
       DEF Next, OwnerConnects, TimerFires, Imported, SocketCloses, OpenOnly,
           OpenAndReplay, ReplayFails, PingTick, Pong, Dies
<1>2. TypeOK => MessageTypes
  BY DEF TypeOK
<1> QED
  BY <1>1, <1>2, StateAlways, TypesAlways, PTL DEF Spec, StaysClosed

-----------------------------------------------------------------------------
(* The server has no gap: what is stored, under way and received are runs  *)
(* of consecutive messages that overlap.                                   *)

(* The sequence is a run of messages that ends with the message last and   *)
(* begins at most one after n; an empty one only if last is at most n.     *)
Run(seq, n, last) ==
  /\ \A i \in DOMAIN seq : seq[i] = last - Len(seq) + i
  /\ last - Len(seq) <= n

Got == Len(received)

Runs ==
  /\ \A i \in DOMAIN received : received[i] = i
  /\ Got <= written
  /\ Run(buffer, Got, written)
  /\ \E last \in 0 .. written : Run(wire, Got, last)
  /\ \E last \in 0 .. written : Run(stray, Got, last)
  /\ link = "up" /\ ~dead => Run(wire, Got, written)

GapInv ==
  /\ link # "up" => wire = <<>>
  /\ ~overflowed /\ ~blind => Runs

LEMMA RunOfTail ==
  ASSUME NEW seq \in Seq(Nat), seq # <<>>, NEW n \in Nat, NEW more \in Nat,
         NEW last \in Int, Run(seq, n, last), n <= more, Head(seq) <= more
  PROVE  Run(Tail(seq), more, last)
<1>1. /\ Len(seq) \in Nat \ {0} /\ Len(Tail(seq)) = Len(seq) - 1
      /\ \A i \in 1 .. Len(Tail(seq)) : Tail(seq)[i] = seq[i + 1]
      /\ DOMAIN Tail(seq) = 1 .. Len(Tail(seq)) /\ DOMAIN seq = 1 .. Len(seq)
  BY HeadTailProperties
<1>2. Head(seq) = last - Len(seq) + 1
  BY <1>1 DEF Run
<1> QED
  BY <1>1, <1>2 DEF Run

LEMMA RunOfAppend ==
  ASSUME NEW seq \in Seq(Nat), NEW n \in Nat, NEW last \in Nat, Run(seq, n, last)
  PROVE  Run(Append(seq, last + 1), n, last + 1)
<1>1. /\ Len(Append(seq, last + 1)) = Len(seq) + 1 /\ Len(seq) \in Nat
      /\ DOMAIN Append(seq, last + 1) = 1 .. Len(seq) + 1 /\ DOMAIN seq = 1 .. Len(seq)
      /\ \A i \in 1 .. Len(seq) : Append(seq, last + 1)[i] = seq[i]
      /\ Append(seq, last + 1)[Len(seq) + 1] = last + 1
  OBVIOUS
<1> QED
  BY <1>1 DEF Run

LEMMA RunGrows ==
  ASSUME NEW seq \in Seq(Nat), NEW n \in Nat, NEW more \in Nat, NEW last \in Int,
         Run(seq, n, last), n <= more
  PROVE  Run(seq, more, last)
  BY DEF Run

LEMMA RunOfPrefix ==
  ASSUME NEW seq \in Seq(Nat), NEW n \in Nat, NEW last \in Nat,
         NEW k \in 0 .. Len(seq), Run(seq, n, last)
  PROVE  \E end \in 0 .. last : Run(SubSeq(seq, 1, k), n, end)
<1> DEFINE pre == SubSeq(seq, 1, k)
<1>1. \A i \in 1 .. k : seq[i] \in Nat
  OBVIOUS
<1>2. pre \in Seq(Nat) /\ Len(pre) = k /\ \A i \in 1 .. k : pre[i] = seq[i]
  BY <1>1, SubSeqProperties
<1>3. CASE k = 0
  <2>1. Run(pre, n, 0)
    BY <1>2, <1>3 DEF Run
  <2> QED
    BY <2>1
<1>4. CASE k # 0
  <2>1. seq[k] = last - Len(seq) + k /\ seq[k] \in 0 .. last
    BY <1>4 DEF Run
  <2>2. DOMAIN pre = 1 .. k
    BY <1>2
  <2> HIDE DEF pre
  <2>3. ASSUME NEW i \in DOMAIN pre
        PROVE  pre[i] = seq[k] - Len(pre) + i
    <3>1. i \in 1 .. k /\ i \in DOMAIN seq
      BY <2>2, <2>3
    <3>2. seq[i] = last - Len(seq) + i
      BY <3>1 DEF Run
    <3> QED
      BY <1>2, <2>1, <3>1, <3>2
  <2>4. seq[k] - Len(pre) <= n
    BY <1>2, <2>1 DEF Run
  <2>5. Run(pre, n, seq[k])
    BY <2>3, <2>4 DEF Run
  <2> QED
    BY <2>1, <2>5 DEF pre
<1> QED
  BY <1>3, <1>4

(* What After gives is the end of the buffer.                              *)
LEMMA AfterIsRun ==
  ASSUME MessageTypes, NEW n \in Nat, Run(buffer, n, written), NEW id
  PROVE  \/ After(id) = buffer
         \/ /\ \A i \in DOMAIN After(id) : After(id)[i] = written - Len(After(id)) + i
            /\ id = written - Len(After(id))
<1> DEFINE at == {i \in DOMAIN buffer : buffer[i] = id}
<1>1. CASE at = {}
  BY <1>1 DEF After
<1>2. CASE at # {}
  <2>1. PICK k \in at : After(id) = SubSeq(buffer, k + 1, Len(buffer))
    BY <1>2 DEF After
  <2>2. /\ k \in Nat /\ 1 <= k /\ k <= Len(buffer) /\ buffer[k] = id
        /\ Len(buffer) \in Nat /\ written \in Nat
    BY <2>1 DEF MessageTypes
  <2>3. \A i \in k + 1 .. Len(buffer) : buffer[i] \in Messages
    BY <2>2 DEF MessageTypes
  <2>4. id = written - Len(buffer) + k
    BY <2>1, <2>2 DEF Run
  <2> DEFINE suffix == SubSeq(buffer, k + 1, Len(buffer))
  <2>5. /\ suffix \in Seq(Messages) /\ Len(suffix) = Len(buffer) - k
        /\ \A i \in 1 .. Len(buffer) - k : suffix[i] = buffer[i + k]
    BY <2>2, <2>3, SubSeqProperties
  <2>6. DOMAIN suffix = 1 .. Len(buffer) - k
    BY <2>5
  <2> HIDE DEF suffix
  <2>7. ASSUME NEW i \in 1 .. Len(buffer) - k
        PROVE  suffix[i] = written - Len(suffix) + i
    <3>1. i + k \in DOMAIN buffer
      BY <2>2 DEF MessageTypes
    <3>2. buffer[i + k] = written - Len(buffer) + (i + k)
      BY <3>1 DEF Run
    <3> QED
      BY <2>2, <2>5, <3>2
  <2>8. id = written - Len(suffix)
    BY <2>2, <2>4, <2>5
  <2>9. After(id) = suffix
    BY <2>1 DEF suffix
  <2> QED
    BY <2>6, <2>7, <2>8, <2>9
<1> QED
  BY <1>1, <1>2

LEMMA Numbered ==
  ASSUME MessageTypes
  PROVE  /\ buffer \in Seq(Nat) /\ wire \in Seq(Nat) /\ stray \in Seq(Nat)
         /\ received \in Seq(Nat) /\ written \in Nat /\ Got \in Nat
<1>1. Messages \subseteq Nat
  BY DEF Messages
<1>2. ASSUME NEW seq \in Seq(Messages)
      PROVE  seq \in Seq(Nat)
  BY <1>1, SeqMonotonic
<1> QED
  BY <1>2 DEF MessageTypes, Got

(* A step that moves no message.                                           *)
LEMMA StillKeepsGap ==
  ASSUME GapInv,
         UNCHANGED <<buffer, written, wire, stray, received, overflowed, blind>>,
         link' = "up" <=> link = "up", link = "up" /\ dead => dead'
  PROVE  GapInv'
<1>1. link' # "up" => wire' = <<>>
  BY DEF GapInv
<1>2. ASSUME ~overflowed', ~blind'
      PROVE  Runs'
  <2>1. Runs
    BY <1>2 DEF GapInv
  <2> QED
    BY <2>1 DEF Runs, Run, Got
<1> QED
  BY <1>1, <1>2 DEF GapInv

(* A step that gives up the connection.                                    *)
LEMMA DropKeepsGap ==
  ASSUME GapInv, MessageTypes, Disconnect(wire),
         UNCHANGED <<buffer, written, received, overflowed, blind>>
  PROVE  GapInv'
<1>1. link' # "up" /\ wire' = <<>> /\ stray' = wire
  BY DEF Disconnect
<1>2. ASSUME ~overflowed', ~blind'
      PROVE  Runs'
  <2>1. Runs
    BY <1>2 DEF GapInv
  <2>2. PICK last \in 0 .. written : Run(wire, Got, last)
    BY <2>1 DEF Runs
  <2>3. Run(stray', Got', last) /\ last \in 0 .. written'
    BY <2>2, <1>1 DEF Run, Got
  <2>4. Run(wire', Got', 0) /\ 0 \in 0 .. written'
    BY <1>1, Numbered DEF Run, Got
  <2> QED
    BY <1>1, <2>1, <2>3, <2>4 DEF Runs, Run, Got
<1> QED
  BY <1>1, <1>2 DEF GapInv

(* What the server gets next, from a run that overlaps what it has got.    *)
LEMMA GetsNext ==
  ASSUME MessageTypes, Runs, NEW seq \in Seq(Messages), seq # <<>>,
         NEW last \in 0 .. written, Run(seq, Got, last), Gets(Head(seq))
  PROVE  /\ \A i \in DOMAIN received' : received'[i] = i
         /\ Got' \in Nat /\ Got <= Got' /\ Got' <= written /\ Head(seq) <= Got'
<1>1. /\ Head(seq) \in Nat \ {0} /\ Head(seq) = last - Len(seq) + 1
      /\ Len(seq) \in Nat \ {0}
  <2>1. seq[1] \in Messages /\ Head(seq) = seq[1] /\ Len(seq) \in Nat \ {0}
    OBVIOUS
  <2>2. seq[1] = last - Len(seq) + 1
    BY <2>1 DEF Run
  <2> QED
    BY <2>1, <2>2 DEF Messages
<1>2. Head(seq) <= Got + 1 /\ Head(seq) <= written /\ Got \in Nat /\ written \in Nat
  BY <1>1, Numbered DEF Run
<1>3. CASE Head(seq) \in Known
  <2>1. PICK i \in DOMAIN received : received[i] = Head(seq)
    BY <1>3 DEF Known, Members
  <2>2. i <= Got /\ i = Head(seq)
    BY <2>1 DEF Runs, Got, MessageTypes
  <2> QED
    BY <1>2, <1>3, <2>2 DEF Gets, Runs, Got
<1>4. CASE Head(seq) \notin Known
  <2>1. received' = Append(received, Head(seq))
    BY <1>4 DEF Gets
  <2>2. Head(seq) = Got + 1
    <3>1. ASSUME Head(seq) <= Got
          PROVE  FALSE
      <4>1. Head(seq) \in DOMAIN received
        BY <1>1, <1>2, <3>1, Numbered DEF Got
      <4> QED
        BY <1>4, <4>1 DEF Known, Members, Runs
    <3> QED
      BY <1>1, <1>2, <3>1
  <2>3. Got' = Got + 1
    BY <2>1, Numbered DEF Got
  <2>4. ASSUME NEW i \in DOMAIN received'
        PROVE  received'[i] = i
    BY <2>1, <2>2, <2>4, Numbered, SMTT(30) DEF Runs, Got
  <2> QED
    BY <1>2, <2>2, <2>3, <2>4
<1> QED
  BY <1>3, <1>4

LEMMA ArriveKeepsGap ==
  ASSUME GapInv, MessageTypes, Arrives
  PROVE  GapInv'
<1>1. /\ Gets(Head(wire)) /\ wire # <<>> /\ wire' = Tail(wire)
      /\ UNCHANGED <<link, dead, buffer, written, stray, overflowed, blind>>
  BY DEF Arrives, kept, past
<1>2. link' # "up" => wire' = <<>>
  BY <1>1 DEF GapInv
<1>3. ASSUME ~overflowed', ~blind'
      PROVE  Runs'
  <2>1. Runs
    BY <1>1, <1>3 DEF GapInv
  <2>2. PICK last \in 0 .. written : Run(wire, Got, last)
    BY <2>1 DEF Runs
  <2>3. /\ \A i \in DOMAIN received' : received'[i] = i
        /\ Got' \in Nat /\ Got <= Got' /\ Got' <= written /\ Head(wire) <= Got'
    BY <1>1, <2>1, <2>2, GetsNext DEF MessageTypes
  <2>4. Run(Tail(wire), Got', last)
    BY <1>1, <2>2, <2>3, RunOfTail, Numbered
  <2>5. PICK late \in 0 .. written : Run(stray, Got, late)
    BY <2>1 DEF Runs
  <2>6. Run(stray, Got', late) /\ Run(buffer, Got', written)
    BY <2>1, <2>3, <2>5, RunGrows, Numbered DEF Runs
  <2>7. ASSUME link = "up", ~dead
        PROVE  Run(Tail(wire), Got', written)
    BY <1>1, <2>1, <2>3, <2>7, RunOfTail, Numbered DEF Runs
  <2> QED
    BY <1>1, <2>3, <2>4, <2>6, <2>7 DEF Runs, Run
<1> QED
  BY <1>2, <1>3 DEF GapInv

LEMMA LateKeepsGap ==
  ASSUME GapInv, MessageTypes, LateArrives \/ LateLost
  PROVE  GapInv'
<1>1. /\ \/ stray # <<>> /\ Gets(Head(stray)) /\ stray' = Tail(stray)
         \/ stray' = <<>> /\ received' = received
      /\ UNCHANGED <<link, dead, buffer, written, wire, overflowed, blind>>
  BY DEF LateArrives, LateLost, kept, past
<1>2. link' # "up" => wire' = <<>>
  BY <1>1 DEF GapInv
<1>3. ASSUME ~overflowed', ~blind'
      PROVE  Runs'
  <2>1. Runs
    BY <1>1, <1>3 DEF GapInv
  <2>2. PICK last \in 0 .. written : Run(stray, Got, last)
    BY <2>1 DEF Runs
  <2>3. /\ \A i \in DOMAIN received' : received'[i] = i
        /\ Got' \in Nat /\ Got <= Got' /\ Got' <= written
        /\ \E end \in 0 .. written : Run(stray', Got', end)
    <3>1. CASE stray' = <<>> /\ received' = received
      <4>1. Got' = Got /\ Run(<<>>, Got, 0)
        BY <3>1, Numbered DEF Run, Got
      <4> QED
        BY <2>1, <3>1, <4>1, Numbered DEF Runs
    <3>2. CASE stray # <<>> /\ Gets(Head(stray)) /\ stray' = Tail(stray)
      <4>1. /\ \A i \in DOMAIN received' : received'[i] = i
            /\ Got' \in Nat /\ Got <= Got' /\ Got' <= written /\ Head(stray) <= Got'
        BY <2>1, <2>2, <3>2, GetsNext DEF MessageTypes
      <4>2. Run(Tail(stray), Got', last)
        BY <2>2, <3>2, <4>1, RunOfTail, Numbered
      <4> QED
        BY <3>2, <4>1, <4>2
    <3> QED
      BY <1>1, <3>1, <3>2
  <2>4. PICK end \in 0 .. written : Run(wire, Got, end)
    BY <2>1 DEF Runs
  <2>5. Run(wire, Got', end) /\ Run(buffer, Got', written)
    BY <2>1, <2>3, <2>4, RunGrows, Numbered DEF Runs
  <2>6. ASSUME link = "up", ~dead
        PROVE  Run(wire, Got', written)
    BY <2>1, <2>3, <2>6, RunGrows, Numbered DEF Runs
  <2> QED
    BY <1>1, <2>3, <2>5, <2>6 DEF Runs, Run
<1> QED
  BY <1>2, <1>3 DEF GapInv

(* The replay sends and keeps what the server has not got.                 *)
LEMMA ReplayRuns ==
  ASSUME StateInv, MessageTypes, Runs,
         IF runtime = "bun" THEN lastSentId # None ELSE received # <<>>
  PROVE  Run(After(ServerId), Got, written)
<1>1. CASE After(ServerId) = buffer
  BY <1>1 DEF Runs
<1>2. CASE After(ServerId) # buffer
  <2>1. /\ \A i \in DOMAIN After(ServerId) :
             After(ServerId)[i] = written - Len(After(ServerId)) + i
        /\ ServerId = written - Len(After(ServerId))
    BY <1>2, AfterIsRun, Numbered DEF Runs
  <2>2. CASE runtime = "bun"
    <3>1. ServerId = None
      BY <2>2 DEF ServerId
    <3>2. {i \in DOMAIN buffer : buffer[i] = None} = {}
      BY TransportAssumption, Numbered
    <3> QED
      BY <1>2, <3>1, <3>2 DEF After
  <2>3. CASE runtime # "bun"
    <3>1. ServerId = received[Got] /\ received # <<>>
      BY <2>3 DEF ServerId, Got
    <3>2. received[Got] = Got
      BY <3>1, Numbered DEF Runs, Got
    <3> QED
      BY <2>1, <3>1, <3>2, Numbered DEF Run
  <2> QED
    BY <2>2, <2>3
<1> QED
  BY <1>1, <1>2

LEMMA OpenKeepsGap ==
  ASSUME GapInv, StateInv, MessageTypes, OpenOnly
  PROVE  GapInv'
<1>1. /\ link = "opening" /\ link' = "up"
      /\ blind' = (blind \/ ~ (Members(buffer) \subseteq Known))
      /\ UNCHANGED <<buffer, written, wire, stray, received, overflowed>>
  BY DEF OpenOnly, kept, network
<1>2. ASSUME ~overflowed', ~blind'
      PROVE  Runs'
  <2>1. Runs /\ wire = <<>> /\ Members(buffer) \subseteq Known
    BY <1>1, <1>2 DEF GapInv
  <2>2. written <= Got
    <3>1. CASE buffer = <<>>
      BY <2>1, <3>1, Numbered DEF Runs, Run
    <3>2. CASE buffer # <<>>
      <4>1. Len(buffer) \in DOMAIN buffer /\ Len(buffer) \in Nat
        BY <3>2, Numbered
      <4>2. buffer[Len(buffer)] = written
        BY <2>1, <4>1, Numbered DEF Runs, Run
      <4>3. PICK i \in DOMAIN received : received[i] = written
        BY <2>1, <4>1, <4>2 DEF Known, Members
      <4> QED
        BY <2>1, <4>3, Numbered DEF Runs, Got
    <3> QED
      BY <3>1, <3>2
  <2>3. Run(wire, Got, written)
    BY <2>1, <2>2, Numbered DEF Run
  <2> QED
    BY <1>1, <2>1, <2>3 DEF Runs, Run, Got
<1> QED
  BY <1>1, <1>2 DEF GapInv

LEMMA ReplayKeepsGap ==
  ASSUME GapInv, StateInv, MessageTypes, OpenAndReplay
  PROVE  GapInv'
<1>1. /\ IF runtime = "bun" THEN lastSentId # None ELSE received # <<>>
      /\ link' = "up" /\ buffer' = After(ServerId) /\ wire' = After(ServerId)
      /\ UNCHANGED <<written, stray, received, overflowed, blind>>
  BY DEF OpenAndReplay, past
<1>2. ASSUME ~overflowed', ~blind'
      PROVE  Runs'
  <2>1. Runs
    BY <1>1, <1>2 DEF GapInv
  <2>2. Run(After(ServerId), Got, written)
    BY <1>1, <2>1, ReplayRuns
  <2>3. Run(buffer', Got', written') /\ Run(wire', Got', written')
    BY <1>1, <2>2 DEF Run, Got
  <2>4. written' \in 0 .. written'
    BY <1>1, Numbered
  <2> QED
    BY <1>1, <2>1, <2>3, <2>4 DEF Runs, Run, Got
<1> QED
  BY <1>1, <1>2 DEF GapInv

LEMMA FailedReplayKeepsGap ==
  ASSUME GapInv, StateInv, MessageTypes, ReplayFails
  PROVE  GapInv'
<1>1. /\ IF runtime = "bun" THEN lastSentId # None ELSE received # <<>>
      /\ buffer' = After(ServerId)
      /\ UNCHANGED <<written, received, overflowed, blind>>
  BY DEF ReplayFails, past
<1>2. PICK n \in 0 .. Len(After(ServerId)) - 1 :
        Disconnect(SubSeq(After(ServerId), 1, n))
  BY DEF ReplayFails
<1>3. link' = "none" /\ wire' = <<>> /\ stray' = SubSeq(After(ServerId), 1, n)
  BY <1>2 DEF Disconnect
<1>4. ASSUME ~overflowed', ~blind'
      PROVE  Runs'
  <2>1. Runs
    BY <1>1, <1>4 DEF GapInv
  <2>2. Run(After(ServerId), Got, written)
    BY <1>1, <2>1, ReplayRuns
  <2>3. After(ServerId) \in Seq(Nat)
    BY AfterTyped, SeqMonotonic, Messages \subseteq Nat DEF Messages
  <2>4. n \in 0 .. Len(After(ServerId))
    BY <1>2, <2>3
  <2>5. \E end \in 0 .. written : Run(stray', Got, end)
    BY <1>3, <2>2, <2>3, <2>4, RunOfPrefix, Numbered
  <2>6. Run(<<>>, Got, 0) /\ 0 \in 0 .. written
    BY Numbered DEF Run
  <2> QED
    BY <1>1, <1>3, <2>1, <2>2, <2>5, <2>6 DEF Runs, Run, Got
<1> QED
  BY <1>3, <1>4 DEF GapInv

(* What write makes of the buffer.                                         *)
LEMMA BufferedRuns ==
  ASSUME MessageTypes, FlagTypes, Runs, Buffered(written + 1), ~overflowed'
  PROVE  Run(buffer', Got, written + 1)
<1> DEFINE base == IF Len(buffer) < BufferSize THEN buffer ELSE Tail(buffer)
<1>1. buffer' = Append(base, written + 1)
  BY DEF Buffered
<1>2. Members(buffer) \subseteq Members(buffer') \cup Known
  BY DEF Buffered
<1>3. CASE Len(buffer) < BufferSize
  BY <1>1, <1>3, RunOfAppend, Numbered DEF Runs
<1>4. CASE ~(Len(buffer) < BufferSize)
  <2>1. buffer # <<>>
    BY <1>4, TransportAssumption
  <2>2. /\ Tail(buffer) \in Seq(Nat) /\ Len(buffer) \in Nat \ {0}
        /\ Len(Tail(buffer)) = Len(buffer) - 1
        /\ \A i \in 1 .. Len(buffer) - 1 : Tail(buffer)[i] = buffer[i + 1]
        /\ Head(buffer) = buffer[1] /\ 1 \in DOMAIN buffer
    BY <2>1, Numbered, HeadTailProperties
  <2>3. buffer[1] = written - Len(buffer) + 1
    BY <2>2, Numbered DEF Runs, Run
  <2>4. buffer[1] \notin Members(buffer')
    <3>1. DOMAIN buffer' = 1 .. Len(buffer)
      BY <1>1, <1>4, <2>2
    <3>2. ASSUME NEW i \in 1 .. Len(buffer), buffer'[i] = buffer[1]
          PROVE  FALSE
      <4>1. CASE i = Len(buffer)
        BY <1>1, <1>4, <2>2, <2>3, <3>2, <4>1, Numbered
      <4>2. CASE i # Len(buffer)
        <5>1. i + 1 \in DOMAIN buffer /\ buffer'[i] = buffer[i + 1]
          BY <1>1, <1>4, <2>2, <4>2, Numbered, SMTT(30)
        <5>2. buffer[i + 1] = written - Len(buffer) + (i + 1)
          BY <5>1, Numbered DEF Runs, Run
        <5> QED
          BY <2>2, <2>3, <3>2, <5>1, <5>2, Numbered
      <4> QED
        BY <4>1, <4>2
    <3> QED
      BY <3>1, <3>2 DEF Members
  <2>5. PICK j \in DOMAIN received : received[j] = buffer[1]
    BY <1>2, <2>2, <2>4, ZenonT(40) DEF Known, Members
  <2>6. Head(buffer) <= Got
    BY <2>2, <2>5, Numbered DEF Runs, Got
  <2>7. Run(Tail(buffer), Got, written)
    BY <2>1, <2>6, RunOfTail, Numbered DEF Runs
  <2> QED
    BY <1>1, <1>4, <2>2, <2>7, RunOfAppend, Numbered
<1> QED
  BY <1>3, <1>4

LEMMA WriteKeepsGap ==
  ASSUME GapInv, StateInv, TypeOK, Write
  PROVE  GapInv'
<1> USE DEF TypeOK
<1>1. /\ Buffered(written + 1) /\ written' = written + 1
      /\ UNCHANGED <<received, blind>>
  BY DEF Write
<1>2. \/ UNCHANGED <<link, dead, wire, stray>> /\ link # "up"
      \/ /\ wire' = IF dead THEN wire ELSE Append(wire, written + 1)
         /\ link = "up" /\ UNCHANGED <<link, dead, stray>>
      \/ Disconnect(wire)
  BY DEF Write, HandleError, network, StateInv, Attempts
<1>3. link' # "up" => wire' = <<>>
  BY <1>2 DEF GapInv, Disconnect
<1>4. ASSUME ~overflowed', ~blind'
      PROVE  Runs'
  <2>1. Runs
    <3>1. ~overflowed
      BY <1>1, <1>4 DEF Buffered
    <3> QED
      BY <1>1, <1>4, <3>1 DEF GapInv
  <2>2. Run(buffer', Got, written + 1)
    BY <1>1, <1>4, <2>1, BufferedRuns
  <2>3. PICK last \in 0 .. written : Run(wire, Got, last)
    BY <2>1 DEF Runs
  <2>4. PICK late \in 0 .. written : Run(stray, Got, late)
    BY <2>1 DEF Runs
  <2>5. /\ Got' = Got /\ Got <= written + 1 /\ written + 1 \in Nat
        /\ last \in 0 .. written' /\ late \in 0 .. written' /\ written' \in 0 .. written'
    BY <1>1, <2>1, Numbered DEF Runs, Got
  <2>6. Run(buffer', Got', written')
    BY <1>1, <2>2, <2>5
  <2>7. CASE UNCHANGED <<link, dead, wire, stray>> /\ link # "up"
    <3>1. Run(wire', Got', last) /\ Run(stray', Got', late)
      BY <2>3, <2>4, <2>5, <2>7 DEF Run
    <3> QED
      BY <1>1, <2>1, <2>5, <2>6, <2>7, <3>1 DEF Runs
  <2>8. CASE Disconnect(wire)
    <3>1. Run(wire', Got', 0) /\ 0 \in 0 .. written' /\ link' # "up"
      BY <2>5, <2>8, Numbered DEF Run, Disconnect
    <3>2. Run(stray', Got', last)
      BY <2>3, <2>5, <2>8 DEF Run, Disconnect
    <3> QED
      BY <1>1, <2>1, <2>5, <2>6, <3>1, <3>2 DEF Runs
  <2>9. CASE link = "up" /\ ~dead /\ wire' = Append(wire, written + 1)
             /\ UNCHANGED <<link, dead, stray>>
    <3>1. Run(wire', Got', written')
      BY <1>1, <2>1, <2>5, <2>9, RunOfAppend, Numbered DEF Runs
    <3>2. Run(stray', Got', late)
      BY <2>4, <2>5, <2>9 DEF Run
    <3> QED
      BY <1>1, <2>1, <2>5, <2>6, <3>1, <3>2 DEF Runs
  <2>10. CASE link = "up" /\ dead /\ wire' = wire /\ UNCHANGED <<link, dead, stray>>
    <3>1. Run(wire', Got', last) /\ Run(stray', Got', late) /\ dead'
      BY <2>3, <2>4, <2>5, <2>10 DEF Run
    <3> QED
      BY <1>1, <2>1, <2>5, <2>6, <3>1 DEF Runs
  <2> QED
    BY <1>2, <2>7, <2>8, <2>9, <2>10
<1> QED
  BY <1>3, <1>4 DEF GapInv

LEMMA GapStep == StateInv /\ TypeOK /\ GapInv /\ [Next]_vars => GapInv'
<1> SUFFICES ASSUME StateInv, TypeOK, GapInv, [Next]_vars
             PROVE  GapInv'
  OBVIOUS
<1> USE DEF kept, network, past
<1> MessageTypes
  BY DEF TypeOK
<1>1. ASSUME NEW permanent \in BOOLEAN, SocketCloses(permanent)
      PROVE  GapInv'
  BY <1>1, DropKeepsGap DEF SocketCloses, HandleError
<1>2. CASE OwnerConnects
  <2>1. link = "none" /\ link' # "up"
    BY <1>2 DEF OwnerConnects, Connect, StateInv, Fresh
  <2> QED
    BY <1>2, <2>1, StillKeepsGap DEF OwnerConnects
<1>3. CASE TimerFires
  <2>1. link # "up" /\ link' # "up"
    BY <1>3 DEF TimerFires, Connect, StateInv, Attempts
  <2> QED
    BY <1>3, <2>1, StillKeepsGap DEF TimerFires
<1>4. CASE Imported
  BY <1>4, StillKeepsGap DEF Imported
<1>5. CASE BudgetRunsOut
  BY <1>5, StillKeepsGap DEF BudgetRunsOut
<1>6. CASE OpenOnly
  BY <1>6, OpenKeepsGap
<1>7. CASE OpenAndReplay
  BY <1>7, ReplayKeepsGap
<1>8. CASE ReplayFails
  BY <1>8, FailedReplayKeepsGap
<1>9. CASE Write
  BY <1>9, WriteKeepsGap
<1>10. CASE PingTick
  <2>1. CASE UNCHANGED <<link, network>>
    BY <1>10, <2>1, StillKeepsGap DEF PingTick
  <2>2. CASE HandleError(FALSE)
    BY <1>10, <2>2, DropKeepsGap DEF PingTick, HandleError
  <2> QED
    BY <1>10, <2>1, <2>2 DEF PingTick
<1>11. CASE Pong
  BY <1>11, StillKeepsGap DEF Pong
<1>12. CASE Close
  <2>1. CASE UNCHANGED <<link, network>>
    BY <1>12, <2>1, StillKeepsGap DEF Close
  <2>2. CASE Disconnect(wire)
    BY <1>12, <2>2, DropKeepsGap DEF Close
  <2> QED
    BY <1>12, <2>1, <2>2 DEF Close
<1>13. CASE Dies
  BY <1>13, StillKeepsGap DEF Dies
<1>14. CASE Arrives
  BY <1>14, ArriveKeepsGap
<1>15. CASE LateArrives \/ LateLost
  BY <1>15, LateKeepsGap
<1>16. CASE UNCHANGED vars
  BY <1>16, StillKeepsGap DEF vars
<1> QED
  BY <1>1, <1>2, <1>3, <1>4, <1>5, <1>6, <1>7, <1>8, <1>9, <1>10, <1>11,
     <1>12, <1>13, <1>14, <1>15, <1>16 DEF Next

(* For any number of messages and faults and any size of the buffer: the   *)
(* server gets the messages in the order of their writes and without a     *)
(* gap, as long as the buffer did not drop what it needed and no           *)
(* connection opened without a replay of it.                               *)
THEOREM ServerHasNoGap == Spec => []NoGap
<1>1. Init => GapInv
  <2> SUFFICES ASSUME Init
               PROVE  Runs /\ wire = <<>>
    BY DEF GapInv
  <2> QED
    BY DEF Init, Runs, Run, Got
<1>2. GapInv => NoGap
  BY DEF GapInv, Runs, NoGap
<1> QED
  BY <1>1, <1>2, GapStep, StateAlways, TypesAlways, PTL DEF Spec
=============================================================================
