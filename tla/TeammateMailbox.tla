--------------------------- MODULE TeammateMailbox ---------------------------
(***************************************************************************)
(* The inbox file of one agent of a team (src/utils/teammateMailbox.ts),   *)
(* the agents that write to it, and the three readers it can have:         *)
(*                                                                         *)
(*   "runner"  the poll of a teammate in the leader's process,             *)
(*             waitForNextPromptOrShutdown of src/utils/swarm/             *)
(*             inProcessRunner.ts: it takes one message, marked by index;  *)
(*   "repl"    src/hooks/useInboxPoller.ts of an interactive session: it   *)
(*             takes every unread message and marks the whole file, in the *)
(*             background;                                                 *)
(*   "print"   the leader of a headless session, src/cli/print.ts: it      *)
(*             marks the whole file, waits for that, and takes what it     *)
(*             had read before.                                            *)
(*                                                                         *)
(* A step is the code between two file operations.  writeFile empties the  *)
(* file and then fills it; a reader in between cannot parse it and takes   *)
(* it for an empty inbox, so an emptied or a damaged file is one without   *)
(* messages here.                                                          *)
(***************************************************************************)
EXTENDS Integers, Sequences, FiniteSets

CONSTANTS Writers,     \* the agents that write to the inbox
          Messages,    \* the messages they send, each one once
          Shutdowns,   \* those that are shutdown requests
          Sender,      \* who sends the message
          Lead,        \* the team lead
          Routed,      \* those the interactive session handles itself
          Readers,     \* the kinds of reader to look at
          Markers,     \* bound: the calls that mark messages, at one time
          MaxTroubles, \* bound: writers that die, prompts that the user
                       \*   types and kills of the teammate, together
          None         \* no message; nobody

Callers == Writers \cup Markers

ASSUME MailboxAssumption ==
  /\ IsFiniteSet(Writers) /\ IsFiniteSet(Messages)
  /\ Shutdowns \cup Routed \subseteq Messages
  /\ Sender \in [Messages -> Writers]
  /\ Readers \subseteq {"runner", "repl", "print"}
  /\ Markers # {} /\ IsFiniteSet(Markers) /\ Markers \cap Writers = {}
  /\ MaxTroubles \in Nat
  /\ None \notin Messages \cup Callers /\ "dead" \notin Callers

(* What the file says: the messages in order, and which are read.          *)
Contents == [msgs: Seq(Messages), read: SUBSET Messages]
Empty == [msgs |-> <<>>, read |-> {}]

Members(seq) == {seq[i] : i \in DOMAIN seq}

Points == {"idle", "create", "fillNew", "lock", "empty", "fill",
           "release"}
Appends == [op: {"append"}, msg: Messages]
Marks == [op: {"markOne"}, index: Nat] \cup [op: {"markAll"}]

VARIABLES
  exists,    \* the inbox file has been created
  inbox,     \* what a reader of the file gets
  lock,      \* who holds the lock directory, "dead" when that one has died
  pc,        \* where the call of a writer or a marker stands
  job,       \* what that call is to do
  seen,      \* what it has read under the lock
  sent,      \* messages whose sending has begun
  reader,    \* the reader of this inbox
  mode,      \* where the reader stands
  snapshot,  \* the messages the reader has in hand
  queue,     \* AppState.inbox.messages of the interactive session
  busy,      \* the interactive session runs a turn
  typed,     \* how many pendingUserMessages the teammate has
  aborted,   \* the teammate's abort signal
  troubles,  \* counts what MaxTroubles bounds
  (* History.                                                              *)
  stored,    \* the messages whose write was completed, in that order
  spoiled,   \* the file lost messages to a late creator or to a crash
  took,      \* how often the reader took the message, up to 2
  unmarked,  \* messages whose marking failed while the reader waited for it
  missed,    \* messages marked as read which the reader did not have
  behind     \* ordinary mail taken in a row while a shutdown request waited,
             \*   up to 2

file   == <<exists, inbox, lock, pc, job, seen, sent>>
ends   == <<reader, mode, snapshot, queue, busy, typed, aborted, troubles>>
past   == <<stored, spoiled, took, unmarked, missed, behind>>
vars   == <<file, ends, past>>

Init ==
  /\ exists = FALSE /\ inbox = Empty /\ lock = None
  /\ pc = [c \in Callers |-> "idle"]
  /\ job = [c \in Callers |-> None]
  /\ seen = [c \in Callers |-> Empty]
  /\ sent = {}
  /\ reader \in Readers
  /\ mode = IF reader = "repl" THEN "poll" ELSE "work"
  /\ snapshot = {} /\ queue = {}
  /\ busy = FALSE
  /\ typed = 0
  /\ aborted = FALSE /\ troubles = 0
  /\ stored = <<>> /\ spoiled = FALSE
  /\ took = [m \in Messages |-> 0]
  /\ unmarked = {} /\ missed = {} /\ behind = 0

-----------------------------------------------------------------------------
(* The calls on the file.                                                  *)

At(c, point) == pc[c] = point
Goto(c, point) == pc' = [pc EXCEPT ![c] = point]
HeldByOther(c) == lock \notin {None, c}

(* writeToMailbox: the file must exist before it can be locked.            *)
Send(w, m) ==
  /\ w = Sender[m] /\ At(w, "idle") /\ m \notin sent
  /\ sent' = sent \cup {m}
  /\ job' = [job EXCEPT ![w] = [op |-> "append", msg |-> m]]
  /\ Goto(w, "create")
  /\ UNCHANGED <<exists, inbox, lock, seen, ends, past>>

CreateInbox(w) ==
  /\ At(w, "create")
  /\ exists' = TRUE
  /\ Goto(w, IF exists THEN "lock" ELSE "fillNew")
  /\ UNCHANGED <<inbox, lock, job, seen, sent, ends, past>>

(* The '[]' of the creator goes to the start of the file, over whatever    *)
(* another writer has put there.                                           *)
FillNew(w) ==
  /\ At(w, "fillNew")
  /\ inbox' = Empty
  /\ spoiled' = (spoiled \/ inbox # Empty)
  /\ Goto(w, "lock")
  /\ UNCHANGED <<exists, lock, job, seen, sent, ends,
                 stored, took, unmarked, missed, behind>>

(* The messages a call is to mark, given what the file says.               *)
Targets(j, contents) ==
  CASE j.op = "append"  -> {}
    [] j.op = "markOne" -> {contents.msgs[i] : i \in {j.index} \cap DOMAIN contents.msgs}
    [] j.op = "markAll" -> Members(contents.msgs)

(* The retries are used up.  The error is logged; the caller of a write    *)
(* and the caller of a mark go on as if it had been done.                  *)
LockFails(c) ==
  /\ At(c, "lock") /\ HeldByOther(c)
  /\ Goto(c, "idle")
  /\ job' = [job EXCEPT ![c] = None]
  /\ unmarked' = IF c \in Markers /\ reader # "repl"
                 THEN unmarked \cup snapshot ELSE unmarked
  /\ UNCHANGED <<exists, inbox, lock, seen, sent, ends,
                 stored, spoiled, took, missed, behind>>

(* Nothing to mark: the early returns of the marking functions.            *)
NothingToDo(j, contents) ==
  CASE j.op = "append"  -> FALSE
    [] j.op = "markOne" -> Targets(j, contents) \subseteq contents.read
    [] j.op = "markAll" -> contents.msgs = <<>>

\* Mutant of LockAndRead: the lock is not exclusive.
LockAnyAndRead(c) ==
  /\ At(c, "lock")
  /\ lock' = c
  /\ seen' = [seen EXCEPT ![c] = inbox]
  /\ Goto(c, IF NothingToDo(job[c], inbox) THEN "release" ELSE "empty")
  /\ UNCHANGED <<exists, inbox, job, sent, ends, past>>
(* The lock is taken and the file read again under it.  In between only a  *)
(* late creator could touch the file.                                      *)
LockAndRead(c) ==
  /\ At(c, "lock") /\ lock = None
  /\ lock' = c
  /\ seen' = [seen EXCEPT ![c] = inbox]
  /\ Goto(c, IF NothingToDo(job[c], inbox) THEN "release" ELSE "empty")
  /\ UNCHANGED <<exists, inbox, job, sent, ends, past>>

EmptyFile(c) ==
  /\ At(c, "empty")
  /\ inbox' = Empty
  /\ Goto(c, "fill")
  /\ UNCHANGED <<exists, lock, job, seen, sent, ends, past>>

Rewritten(j, contents) ==
  IF j.op = "append" THEN [contents EXCEPT !.msgs = Append(@, j.msg)]
  ELSE [contents EXCEPT !.read = @ \cup Targets(j, contents)]

FillFile(c) ==
  /\ At(c, "fill")
  /\ inbox' = Rewritten(job[c], seen[c])
  /\ missed' = missed \cup {m \in inbox'.read \ seen[c].read :
                             took[m] = 0 /\ m \notin snapshot \cup queue}
  /\ stored' = IF c \in Writers THEN Append(stored, job[c].msg) ELSE stored
  /\ Goto(c, "release")
  /\ UNCHANGED <<exists, lock, job, seen, sent, ends,
                 spoiled, took, unmarked, behind>>

Release(c) ==
  /\ At(c, "release")
  /\ lock' = None
  /\ job' = [job EXCEPT ![c] = None]
  /\ seen' = [seen EXCEPT ![c] = Empty]
  /\ Goto(c, "idle")
  /\ UNCHANGED <<exists, inbox, sent, ends, past>>

(* A writer's process dies.  Its lock stays until it is stale; what it had *)
(* emptied stays empty.                                                    *)
Crash(w) ==
  /\ troubles < MaxTroubles /\ ~At(w, "idle")
  /\ troubles' = troubles + 1
  /\ lock' = IF lock = w THEN "dead" ELSE lock
  /\ spoiled' = (spoiled \/ (At(w, "fill") /\ seen[w] # Empty))
  /\ job' = [job EXCEPT ![w] = None]
  /\ seen' = [seen EXCEPT ![w] = Empty]
  /\ Goto(w, "idle")
  /\ UNCHANGED <<exists, inbox, sent,
                 reader, mode, snapshot, queue, busy, typed, aborted,
                 stored, took, unmarked, missed, behind>>

(* proper-lockfile removes a lock that nobody has refreshed.               *)
StaleLock ==
  /\ lock = "dead"
  /\ lock' = None
  /\ UNCHANGED <<exists, inbox, pc, job, seen, sent, ends, past>>

-----------------------------------------------------------------------------
(* The readers.                                                            *)

UnreadAt(contents) == {i \in DOMAIN contents.msgs : contents.msgs[i] \notin contents.read}
Unread(contents) == Members(contents.msgs) \ contents.read

(* A call that marks starts on a marker that is free; which one makes no   *)
(* difference.  The readers that wait for their call have one at a time.   *)
StartMark(j) ==
  LET free == {k \in Markers : At(k, "idle")}
      k == CHOOSE h \in free : TRUE
  IN  /\ free # {}
      /\ job' = [job EXCEPT ![k] = j]
      /\ Goto(k, "lock")
MarkDone == \A k \in Markers : At(k, "idle")

Take(ms) ==
  took' = [m \in Messages |-> IF m \notin ms THEN took[m]
                              ELSE IF took[m] = 0 THEN 1 ELSE 2]

(* A turn of the agent ends: the teammate goes to its poll, the headless   *)
(* session to its loop, the interactive one becomes idle.                  *)
TurnEnds ==
  /\ \/ /\ mode = "work"
        /\ mode' = CASE reader = "print" -> "read"
                     [] aborted -> "done"
                     [] OTHER -> "check"
        /\ UNCHANGED busy
     \/ busy /\ busy' = FALSE /\ UNCHANGED mode
  /\ UNCHANGED <<file, reader, snapshot, queue, typed, aborted, troubles, past>>

(* The user types: a prompt for the teammate whose transcript is shown     *)
(* (dropped when it was killed), or one for the interactive session.       *)
UserTypes ==
  /\ troubles < MaxTroubles
  /\ troubles' = troubles + 1
  /\ \/ reader = "runner" /\ ~aborted /\ typed' = typed + 1 /\ UNCHANGED busy
     \/ reader = "repl" /\ ~busy /\ busy' = TRUE /\ UNCHANGED typed
  /\ UNCHANGED <<file, reader, mode, snapshot, queue, aborted, past>>

(* The teammate is killed.                                                 *)
Abort ==
  /\ reader = "runner" /\ ~aborted
  /\ troubles < MaxTroubles
  /\ troubles' = troubles + 1
  /\ aborted' = TRUE /\ typed' = 0
  /\ UNCHANGED <<file, reader, mode, snapshot, queue, busy, past>>

(* The top of waitForNextPromptOrShutdown's loop: what the user has typed  *)
(* goes first.                                                             *)
CheckPending ==
  /\ reader = "runner" /\ mode = "check"
  /\ mode' = CASE aborted -> "done"
               [] ~aborted /\ typed > 0 -> "work"
               [] OTHER -> "read"
  /\ typed' = IF mode' = "work" THEN typed - 1 ELSE typed
  /\ UNCHANGED <<file, reader, snapshot, queue, busy, aborted, troubles, past>>

\* Mutant of Preferred: shutdown requests have no precedence.
PreferredLead(contents) ==
  LET unread == UnreadAt(contents)
      fromLead(i) == Sender[contents.msgs[i]] = Lead
  IN  {i \in unread :
         \A n \in unread : IF fromLead(i) = fromLead(n) THEN i <= n
                                                      ELSE fromLead(i)}
(* The index to take: shutdown requests first, then the lead's messages,   *)
(* among equals the oldest.                                                *)
Rank(m) == CASE m \in Shutdowns -> 0
             [] m \notin Shutdowns /\ Sender[m] = Lead -> 1
             [] OTHER -> 2
Preferred(contents) ==
  LET unread == UnreadAt(contents)
      rank(i) == Rank(contents.msgs[i])
  IN  {i \in unread :
         \A n \in unread : \/ rank(i) < rank(n)
                           \/ rank(i) = rank(n) /\ i <= n}

(* The unlocked read of the poll.  With nothing unread the teammate looks  *)
(* for a task to claim, which it may get.                                  *)
RunnerRead ==
  /\ reader = "runner" /\ mode = "read"
  /\ \/ /\ aborted
        /\ mode' = "done"
        /\ UNCHANGED <<snapshot, job, pc>>
     \/ /\ ~aborted /\ Unread(inbox) = {}
        /\ mode' \in {"check", "work"}
        /\ UNCHANGED <<snapshot, job, pc>>
     \/ /\ ~aborted
        /\ \E i \in Preferred(inbox) :
             /\ snapshot' = {inbox.msgs[i]}
             /\ StartMark([op |-> "markOne", index |-> i])
        /\ mode' = "mark"
  /\ UNCHANGED <<exists, inbox, lock, seen, sent,
                 reader, queue, busy, typed, aborted, troubles, past>>

Overtaken ==
  /\ snapshot \cap Shutdowns = {}
  /\ \E s \in Shutdowns \cap Members(stored) : took[s] = 0
CountBehind ==
  behind' = CASE Overtaken /\ behind < 2 -> behind + 1
              [] Overtaken /\ behind = 2 -> 2
              [] OTHER -> 0

\* Mutant of RunnerTake: the mark is not awaited.
RunnerTakeAtOnce ==
  /\ reader = "runner" /\ mode = "mark"
  /\ mode' = "work"
  /\ Take(snapshot)
  /\ snapshot' = {}
  /\ CountBehind
  /\ UNCHANGED <<file, reader, queue, busy, typed, aborted, troubles,
                 stored, spoiled, unmarked, missed>>
(* The mark has been waited for, whatever became of it, and the poll gives *)
(* the message to the agent's next turn.                                   *)
RunnerTake ==
  /\ reader = "runner" /\ mode = "mark" /\ MarkDone
  /\ mode' = "work"
  /\ Take(snapshot)
  /\ snapshot' = {}
  /\ CountBehind
  /\ UNCHANGED <<file, reader, queue, busy, typed, aborted, troubles,
                 stored, spoiled, unmarked, missed>>

(* The loop of the headless leader: read, mark everything, then process    *)
(* what was read.                                                          *)
PrintRead ==
  /\ reader = "print" /\ mode = "read" /\ Unread(inbox) # {}
  /\ snapshot' = Unread(inbox)
  /\ StartMark([op |-> "markAll"])
  /\ mode' = "mark"
  /\ UNCHANGED <<exists, inbox, lock, seen, sent,
                 reader, queue, busy, typed, aborted, troubles, past>>

PrintTake ==
  /\ reader = "print" /\ mode = "mark" /\ MarkDone
  /\ mode' = "work"
  /\ Take(snapshot)
  /\ snapshot' = {}
  /\ UNCHANGED <<file, reader, queue, busy, typed, aborted, troubles,
                 stored, spoiled, unmarked, missed, behind>>

(* poll of useInboxPoller up to its await.                                 *)
ReplRead ==
  /\ reader = "repl" /\ mode = "poll" /\ Unread(inbox) # {}
  /\ snapshot' = Unread(inbox)
  /\ mode' = "handle"
  /\ UNCHANGED <<file, reader, queue, busy, typed, aborted, troubles, past>>

(* The rest of poll.  The session submits the ordinary messages when it is *)
(* idle; isLoading is the one of the last render and a submission may be   *)
(* refused, so an idle session may queue them as well.  The marking is     *)
(* started and not waited for.                                             *)
ReplHandle ==
  LET regular == snapshot \ Routed
  IN  /\ reader = "repl" /\ mode = "handle"
      /\ \E submitted \in BOOLEAN :
           /\ submitted => ~busy /\ regular # {}
           /\ busy' = (busy \/ submitted)
           /\ queue' = IF submitted THEN queue ELSE queue \cup regular
           /\ Take(IF submitted THEN snapshot ELSE snapshot \cap Routed)
      /\ StartMark([op |-> "markAll"])
      /\ snapshot' = {} /\ mode' = "poll"
      /\ UNCHANGED <<exists, inbox, lock, seen, sent,
                     reader, typed, aborted, troubles,
                     stored, spoiled, unmarked, missed, behind>>

\* Mutant of DeliverPending: the queue is cleared though a turn refused it.
DeliverPendingCleared ==
  /\ reader = "repl" /\ queue # {}
  /\ IF busy THEN UNCHANGED took ELSE Take(queue)
  /\ queue' = {} /\ busy' = TRUE
  /\ UNCHANGED <<file, reader, mode, snapshot, typed, aborted, troubles,
                 stored, spoiled, unmarked, missed, behind>>
(* The effect that delivers the queue when the session is idle.            *)
DeliverPending ==
  /\ reader = "repl" /\ ~busy /\ queue # {}
  /\ Take(queue)
  /\ queue' = {} /\ busy' = TRUE
  /\ UNCHANGED <<file, reader, mode, snapshot, typed, aborted, troubles,
                 stored, spoiled, unmarked, missed, behind>>

-----------------------------------------------------------------------------
FileStep(c) ==
  \/ CreateInbox(c) \/ FillNew(c) \/ LockAndRead(c) \/ LockFails(c)
  \/ EmptyFile(c) \/ FillFile(c) \/ Release(c)
ReaderStep ==
  \/ CheckPending \/ RunnerRead \/ RunnerTake
  \/ PrintRead \/ PrintTake
  \/ ReplRead \/ ReplHandle

Next ==
  \/ \E w \in Writers, m \in Messages : Send(w, m)
  \/ \E c \in Callers : FileStep(c)
  \/ \E w \in Writers : Crash(w)
  \/ StaleLock
  \/ TurnEnds \/ UserTypes \/ Abort
  \/ ReaderStep \/ DeliverPending

(* File operations end, and the retries on the lock do; a turn ends; the   *)
(* timers of the readers and the effects of the session run.  Nobody has   *)
(* to send, to type or to die.                                             *)
Fairness ==
  /\ \A c \in Callers : WF_vars(FileStep(c))
  /\ WF_vars(StaleLock) /\ WF_vars(TurnEnds)
  /\ WF_vars(ReaderStep) /\ WF_vars(DeliverPending)

Spec == Init /\ [][Next]_vars /\ Fairness

-----------------------------------------------------------------------------
(* Correctness.                                                            *)

(* The variables have their types.                                         *)
TypeOK ==
  /\ exists \in BOOLEAN /\ inbox \in Contents
  /\ lock \in Callers \cup {None, "dead"}
  /\ pc \in [Callers -> Points] /\ job \in [Callers -> Appends \cup Marks \cup {None}]
  /\ seen \in [Callers -> Contents] /\ sent \subseteq Messages
  /\ reader \in {"runner", "repl", "print"}
  /\ mode \in {"work", "check", "read", "mark", "done", "poll", "handle"}
  /\ snapshot \subseteq Messages /\ queue \subseteq Messages /\ busy \in BOOLEAN
  /\ typed \in 0 .. troubles
  /\ aborted \in BOOLEAN /\ troubles \in 0 .. MaxTroubles
  /\ stored \in Seq(Messages) /\ spoiled \in BOOLEAN
  /\ took \in [Messages -> 0 .. 2] /\ behind \in 0 .. 2
  /\ unmarked \subseteq Messages /\ missed \subseteq Messages

(* What was written stays: unless a late creator or a crash has damaged    *)
(* the file, it holds every message whose write was completed, in the      *)
(* order of the writes, or a call is about to put them back.               *)
Kept ==
  ~spoiled => /\ \A c \in Callers : At(c, "fill") => seen[c].msgs = stored
              /\ (\A c \in Callers : ~At(c, "fill")) => inbox.msgs = stored

(* The teammate's mark by index falls on the message it has in hand, even  *)
(* when others have written since it read: nothing is marked unseen.       *)
OnlyTakenIsMarked == reader = "runner" /\ ~spoiled => missed = {}

(* A reader that waits for its mark takes a message a second time only if  *)
(* that mark had failed.                                                   *)
TakenOnce ==
  reader # "repl" /\ ~spoiled => \A m \in Messages : took[m] = 2 => m \in unmarked

(* The teammate and the headless leader take each message once.            *)
EachOnce == OnlyTakenIsMarked /\ TakenOnce

(* The inbox is sound: its type, and what it holds.                        *)
InboxSound == TypeOK /\ Kept

(* A shutdown request does not starve behind the mail of the peers: while  *)
(* one is stored, the teammate takes at most the message it had chosen     *)
(* before, and then a shutdown request.                                    *)
ShutdownFirst == reader = "runner" /\ ~spoiled => behind <= 1

(* Every message that was stored reaches the agent, unless the teammate is *)
(* killed, the file damaged, or the message marked before it was seen.     *)
EventuallyTaken ==
  \A m \in Messages :
    m \in Members(stored) ~> \/ took[m] > 0 \/ m \in missed
                           \/ spoiled \/ mode = "done"

(* What useInboxPoller.ts says of its marking: a message is marked as read *)
(* only after it was delivered or queued.  A message written between the   *)
(* read of the poll and the marking of the whole file is marked unseen.    *)
MarkedAfterDelivery == reader = "repl" /\ ~spoiled => missed = {}
=============================================================================
