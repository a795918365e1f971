------------------------ MODULE TeammateMailboxProofs ------------------------
(***************************************************************************)
(* What an inbox keeps for every set of writers, messages and readers.     *)
(*                                                                         *)
(* The argument: only the holder of the lock is past it (Exclusive), so    *)
(* what it read there is what was written (HoldsWritten); the index that   *)
(* the teammate marks therefore still points at the message it has in      *)
(* hand (MarksItsOwn), and a mark, once made, is in every later content of *)
(* the file (MarksLast).                                                   *)
(***************************************************************************)
EXTENDS TeammateMailbox, TLAPS

Critical == {"empty", "fill", "release"}

\* A call is given the work of its caller.
JobsFit ==
    /\ \A w \in Writers : ~At(w, "idle") => job[w] \in Appends
    /\ \A k \in Markers : /\ pc[k] \in {"idle", "lock"} \cup Critical
                          /\ ~At(k, "idle") => job[k] \in Marks

\* Nobody is past the lock without holding it.
Exclusive == \A c \in Callers : pc[c] \in Critical => lock = c

NobodyFills == \A c \in Callers : ~At(c, "fill")

\* The file, or the call that has emptied it, has what was written.
HoldsWritten ==
    /\ \A c \in Callers : At(c, "fill") => inbox = Empty
    /\ ~spoiled =>
         /\ \A c \in Callers : pc[c] \in {"empty", "fill"} => seen[c].msgs = stored
         /\ NobodyFills => inbox.msgs = stored

FileInv == TypeOK /\ JobsFit /\ Exclusive /\ HoldsWritten

-----------------------------------------------------------------------------
(* What the steps of the readers do to the file: nothing, or they start a  *)
(* call that marks.                                                        *)

Calm == UNCHANGED <<exists, inbox, lock, seen, sent, stored, spoiled, pc, job>>

Starts(k, j) ==
    /\ UNCHANGED <<exists, inbox, lock, seen, sent, stored, spoiled>>
    /\ k \in Markers /\ j \in Marks /\ At(k, "idle")
    /\ job' = [job EXCEPT ![k] = j] /\ Goto(k, "lock")

ReaderMoves ==
    TurnEnds \/ UserTypes \/ Abort \/ ReaderStep \/ DeliverPending

LEMMA StartMarkStarts ==
    ASSUME NEW j \in Marks, StartMark(j),
           UNCHANGED <<exists, inbox, lock, seen, sent, stored, spoiled>>
    PROVE  \E k \in Markers : Starts(k, j)
  <1> DEFINE free == {k \in Markers : At(k, "idle")}
             k == CHOOSE h \in free : TRUE
  <1>1. free # {} /\ job' = [job EXCEPT ![k] = j] /\ Goto(k, "lock")
    BY DEF StartMark
  <1>2. k \in free
    BY <1>1
  <1> QED BY <1>1, <1>2 DEF Starts

LEMMA IndicesTyped ==
    ASSUME TypeOK, NEW i \in Preferred(inbox)
    PROVE  /\ i \in DOMAIN inbox.msgs /\ i \in Nat
           /\ inbox.msgs[i] \in Messages \ inbox.read
  BY DEF TypeOK, Contents, Preferred, UnreadAt

LEMMA ReadersStart ==
    ASSUME TypeOK, ReaderMoves
    PROVE  Calm \/ \E k \in Markers, j \in Marks : Starts(k, j)
  <1> USE DEF file, ends, past, Calm
  <1>1. CASE TurnEnds
    BY <1>1 DEF TurnEnds
  <1>2. CASE UserTypes
    BY <1>2 DEF UserTypes
  <1>3. CASE Abort
    BY <1>3 DEF Abort
  <1>4. CASE CheckPending
    BY <1>4 DEF CheckPending
  <1>5. CASE RunnerRead
    <2>1. CASE UNCHANGED <<job, pc>>
      BY <1>5, <2>1 DEF RunnerRead
    <2>2. CASE \E i \in Preferred(inbox) : StartMark([op |-> "markOne", index |-> i])
      <3>1. PICK i \in Preferred(inbox) : StartMark([op |-> "markOne", index |-> i])
        BY <2>2
      <3>2. [op |-> "markOne", index |-> i] \in Marks
        BY IndicesTyped DEF Marks
      <3>3. UNCHANGED <<exists, inbox, lock, seen, sent, stored, spoiled>>
        BY <1>5 DEF RunnerRead
      <3> QED BY <3>1, <3>2, <3>3, StartMarkStarts
    <2> QED BY <1>5, <2>1, <2>2 DEF RunnerRead
  <1>6. CASE RunnerTake
    BY <1>6 DEF RunnerTake
  <1>7. CASE PrintTake
    BY <1>7 DEF PrintTake
  <1>8. CASE ReplRead
    BY <1>8 DEF ReplRead
  <1>9. CASE DeliverPending
    BY <1>9 DEF DeliverPending
  <1>10. CASE PrintRead \/ ReplHandle
    <2>1. /\ StartMark([op |-> "markAll"])
          /\ UNCHANGED <<exists, inbox, lock, seen, sent, stored, spoiled>>
      BY <1>10 DEF PrintRead, ReplHandle
    <2>2. [op |-> "markAll"] \in Marks
      BY DEF Marks
    <2> QED BY <2>1, <2>2, StartMarkStarts
  <1> QED
    BY <1>1, <1>2, <1>3, <1>4, <1>5, <1>6, <1>7, <1>8, <1>9, <1>10
       DEF ReaderMoves, ReaderStep

-----------------------------------------------------------------------------
(* Types.                                                                  *)

LEMMA ContentsTyped ==
    /\ Empty \in Contents
    /\ \A s \in Contents : /\ Members(s.msgs) \subseteq Messages
                           /\ s.msgs \in Seq(Messages) /\ s.read \subseteq Messages
  BY DEF Empty, Contents, Members

LEMMA RewrittenTyped ==
    ASSUME NEW j \in Appends \cup Marks, NEW s \in Contents
    PROVE  /\ Rewritten(j, s) \in Contents
           /\ Rewritten(j, s).read \subseteq s.read \cup Members(s.msgs)
           /\ s.read \subseteq Rewritten(j, s).read
           /\ j \in Appends => /\ Rewritten(j, s).msgs = Append(s.msgs, j.msg)
                               /\ Rewritten(j, s).read = s.read
           /\ j \in Marks => /\ Rewritten(j, s).msgs = s.msgs
                             /\ Rewritten(j, s).read = s.read \cup Targets(j, s)
  <1>1. CASE j \in Appends
    <2>1. j.op = "append" /\ j.msg \in Messages /\ j \notin Marks
      BY <1>1 DEF Appends, Marks
    <2>2. Append(s.msgs, j.msg) \in Seq(Messages)
      BY <2>1 DEF Contents
    <2> QED BY <1>1, <2>1, <2>2 DEF Rewritten, Contents
  <1>2. CASE j \in Marks
    <2>1. j.op # "append" /\ j \notin Appends
      BY <1>2 DEF Appends, Marks
    <2>2. Targets(j, s) \subseteq Members(s.msgs)
      <3>1. CASE j.op = "markOne"
        BY <3>1 DEF Targets, Members
      <3>2. CASE j.op = "markAll"
        BY <3>2 DEF Targets
      <3> QED BY <1>2, <3>1, <3>2 DEF Marks
    <2>3. Members(s.msgs) \subseteq Messages
      BY ContentsTyped
    <2>4. Rewritten(j, s) = [s EXCEPT !.read = @ \cup Targets(j, s)]
      BY <2>1 DEF Rewritten
    <2> QED BY <1>2, <2>1, <2>2, <2>3, <2>4 DEF Contents
  <1> QED BY <1>1, <1>2

\* Every call that is past its start has work to do.
LEMMA JobTyped ==
    ASSUME TypeOK, JobsFit, NEW c \in Callers, ~At(c, "idle")
    PROVE  /\ job[c] \in Appends \cup Marks
           /\ c \in Writers => job[c] \in Appends
           /\ c \notin Writers => job[c] \in Marks
           /\ job[c] \in Appends => c \in Writers
  BY MailboxAssumption DEF TypeOK, JobsFit, Callers, Appends, Marks

\* A call that ends, and one that goes on, keep the types of the calls.
LEMMA GotoTyped ==
    ASSUME TypeOK, NEW c \in Callers, NEW point \in Points, Goto(c, point)
    PROVE  /\ pc' \in [Callers -> Points] /\ pc'[c] = point
           /\ \A d \in Callers \ {c} : pc'[d] = pc[d]
  BY DEF TypeOK, Goto

LEMMA TakeTyped ==
    ASSUME TypeOK, NEW ms, Take(ms)
    PROVE  /\ took' \in [Messages -> 0 .. 2]
           /\ \A m \in Messages \ ms : took'[m] = took[m]
           /\ \A m \in Messages : took'[m] = 2 => took[m] # 0
  BY DEF TypeOK, Take

LEMMA CountTyped ==
    ASSUME TypeOK, CountBehind
    PROVE  behind' \in 0 .. 2
  <1>1. behind \in 0 .. 2
    BY DEF TypeOK
  <1>2. CASE Overtaken /\ behind < 2
    BY <1>1, <1>2 DEF CountBehind
  <1>3. CASE Overtaken /\ behind = 2
    BY <1>3 DEF CountBehind
  <1>4. CASE ~Overtaken
    BY <1>4 DEF CountBehind
  <1> QED BY <1>1, <1>2, <1>3, <1>4

LEMMA InitFileInv ==
    Init => FileInv
  <1> SUFFICES ASSUME Init PROVE FileInv
    OBVIOUS
  <1>1. TypeOK
    <2>1. stored \in Seq(Messages) /\ inbox \in Contents
      BY ContentsTyped DEF Init
    <2>2. seen \in [Callers -> Contents] /\ pc \in [Callers -> Points]
          /\ job \in [Callers -> Appends \cup Marks \cup {None}]
      BY ContentsTyped DEF Init, Points
    <2>3. typed \in 0 .. troubles /\ troubles \in 0 .. MaxTroubles
          /\ took \in [Messages -> 0 .. 2] /\ behind \in 0 .. 2
      BY MailboxAssumption DEF Init
    <2>4. reader \in {"runner", "repl", "print"} /\ mode \in {"work", "poll"}
      BY MailboxAssumption DEF Init
    <2> QED BY <2>1, <2>2, <2>3, <2>4 DEF Init, TypeOK
  <1>2. JobsFit /\ Exclusive /\ HoldsWritten
    BY DEF Init, JobsFit, Exclusive, HoldsWritten, Callers, At, Critical, Empty
  <1> QED BY <1>1, <1>2 DEF FileInv

\* The steps on the file keep its types.
LEMMA FileStepsTyped ==
    ASSUME FileInv,
           \/ \E w \in Writers, m \in Messages : Send(w, m)
           \/ \E c \in Callers : FileStep(c)
           \/ \E w \in Writers : Crash(w)
           \/ StaleLock
    PROVE  TypeOK'
  <1> USE DEF file, ends, past
  <1>0. TypeOK /\ JobsFit /\ Writers \subseteq Callers /\ Markers \subseteq Callers
    BY DEF FileInv, Callers
  <1>1. ASSUME NEW w \in Writers, NEW m \in Messages, Send(w, m) PROVE TypeOK'
    <2>1. [op |-> "append", msg |-> m] \in Appends
      BY DEF Appends
    <2>2. pc' \in [Callers -> Points]
      BY <1>0, <1>1, GotoTyped DEF Send, Points
    <2> QED BY <1>0, <1>1, <2>1, <2>2 DEF Send, TypeOK
  <1>2. ASSUME NEW c \in Callers, CreateInbox(c) PROVE TypeOK'
    <2>1. pc' \in [Callers -> Points]
      BY <1>0, <1>2, GotoTyped DEF CreateInbox, Points
    <2> QED BY <1>0, <1>2, <2>1 DEF CreateInbox, TypeOK
  <1>3. ASSUME NEW c \in Callers, FillNew(c) PROVE TypeOK'
    <2>1. pc' \in [Callers -> Points]
      BY <1>0, <1>3, GotoTyped DEF FillNew, Points
    <2> QED BY <1>0, <1>3, <2>1, ContentsTyped DEF FillNew, TypeOK
  <1>4. ASSUME NEW c \in Callers, LockAndRead(c) PROVE TypeOK'
    <2>1. pc' \in [Callers -> Points]
      BY <1>0, <1>4, GotoTyped DEF LockAndRead, Points
    <2> QED BY <1>0, <1>4, <2>1 DEF LockAndRead, TypeOK
  <1>5. ASSUME NEW c \in Callers, LockFails(c) PROVE TypeOK'
    <2>1. pc' \in [Callers -> Points]
      BY <1>0, <1>5, GotoTyped DEF LockFails, Points
    <2> QED BY <1>0, <1>5, <2>1 DEF LockFails, TypeOK
  <1>6. ASSUME NEW c \in Callers, EmptyFile(c) PROVE TypeOK'
    <2>1. pc' \in [Callers -> Points]
      BY <1>0, <1>6, GotoTyped DEF EmptyFile, Points
    <2> QED BY <1>0, <1>6, <2>1, ContentsTyped DEF EmptyFile, TypeOK
  <1>7. ASSUME NEW c \in Callers, FillFile(c) PROVE TypeOK'
    <2>1. pc' \in [Callers -> Points]
      BY <1>0, <1>7, GotoTyped DEF FillFile, Points
    <2>2. seen[c] \in Contents /\ job[c] \in Appends \cup Marks
      BY <1>0, <1>7, JobTyped DEF TypeOK, FillFile, At
    <2>3. inbox' \in Contents
      BY <1>7, <2>2, RewrittenTyped DEF FillFile
    <2>4. missed' \subseteq Messages
      BY <1>0, <1>7, <2>3, ContentsTyped DEF FillFile, TypeOK
    <2>5. stored' \in Seq(Messages)
      <3>1. c \in Writers => job[c].msg \in Messages
        BY <1>0, <1>7, JobTyped DEF FillFile, At, Appends
      <3>2. c \in Writers => Append(stored, job[c].msg) \in Seq(Messages)
        BY <1>0, <3>1 DEF TypeOK
      <3> QED BY <1>0, <1>7, <3>2 DEF FillFile, TypeOK
    <2> QED BY <1>0, <1>7, <2>1, <2>3, <2>4, <2>5 DEF FillFile, TypeOK
  <1>8. ASSUME NEW c \in Callers, Release(c) PROVE TypeOK'
    <2>1. pc' \in [Callers -> Points]
      BY <1>0, <1>8, GotoTyped DEF Release, Points
    <2> QED BY <1>0, <1>8, <2>1, ContentsTyped DEF Release, TypeOK
  <1>9. ASSUME NEW w \in Writers, Crash(w) PROVE TypeOK'
    <2>1. pc' \in [Callers -> Points]
      BY <1>0, <1>9, GotoTyped DEF Crash, Points
    <2>2. troubles' \in 0 .. MaxTroubles /\ typed' \in 0 .. troubles'
      BY <1>0, <1>9, MailboxAssumption DEF Crash, TypeOK
    <2> QED BY <1>0, <1>9, <2>1, <2>2, ContentsTyped DEF Crash, TypeOK
  <1>10. CASE StaleLock
    BY <1>0, <1>10 DEF StaleLock, TypeOK
  <1> QED
    BY <1>1, <1>2, <1>3, <1>4, <1>5, <1>6, <1>7, <1>8, <1>9, <1>10 DEF FileStep

LEMMA UnreadTyped ==
    ASSUME TypeOK
    PROVE  Unread(inbox) \subseteq Messages
  BY ContentsTyped DEF TypeOK, Unread

LEMMA BoundsTyped ==
    ASSUME TypeOK, ReaderMoves
    PROVE  typed' \in 0 .. troubles' /\ troubles' \in 0 .. MaxTroubles
  <1>1. /\ MaxTroubles \in Nat /\ typed \in 0 .. troubles
        /\ troubles \in 0 .. MaxTroubles
    BY MailboxAssumption DEF TypeOK
  <1>2. CASE UserTypes
    <2>1. typed' = typed \/ typed' = typed + 1
      BY <1>2 DEF UserTypes
    <2>2. troubles < MaxTroubles /\ troubles' = troubles + 1
      BY <1>2 DEF UserTypes
    <2> QED BY <1>1, <2>1, <2>2
  <1>3. CASE Abort
    BY <1>1, <1>3 DEF Abort
  <1>4. CASE CheckPending
    <2>1. mode' = "work" => typed > 0
      BY <1>4 DEF CheckPending
    <2>2. typed' = (IF mode' = "work" THEN typed - 1 ELSE typed) /\ troubles' = troubles
      BY <1>4 DEF CheckPending
    <2> QED BY <1>1, <2>1, <2>2
  <1>5. CASE TurnEnds \/ ReplRead \/ ReplHandle \/ DeliverPending
    BY <1>1, <1>5 DEF TurnEnds, ReplRead, ReplHandle, DeliverPending
  <1>6. CASE RunnerRead \/ RunnerTake \/ PrintRead \/ PrintTake
    BY <1>1, <1>6 DEF RunnerRead, RunnerTake, PrintRead, PrintTake
  <1> QED BY <1>2, <1>3, <1>4, <1>5, <1>6 DEF ReaderMoves, ReaderStep

\* So do those of the readers.
LEMMA ReaderMovesTyped ==
    ASSUME TypeOK, ReaderMoves
    PROVE  TypeOK'
  <1>1. /\ exists' \in BOOLEAN /\ inbox' \in Contents
        /\ lock' \in Callers \cup {None, "dead"}
        /\ pc' \in [Callers -> Points]
        /\ job' \in [Callers -> Appends \cup Marks \cup {None}]
        /\ seen' \in [Callers -> Contents] /\ sent' \subseteq Messages
        /\ stored' \in Seq(Messages) /\ spoiled' \in BOOLEAN
    <2>1. CASE Calm
      BY <2>1 DEF Calm, TypeOK
    <2>2. CASE \E k \in Markers, j \in Marks : Starts(k, j)
      BY <2>2 DEF Starts, Goto, TypeOK, Points, Callers
    <2> QED BY <2>1, <2>2, ReadersStart
  <1> USE DEF file, ends, past, ReaderMoves, ReaderStep, TypeOK, TurnEnds, UserTypes, Abort, CheckPending,
           RunnerRead, RunnerTake, PrintRead, PrintTake, ReplRead, ReplHandle,
           DeliverPending
  <1>2. /\ reader' \in {"runner", "repl", "print"}
        /\ mode' \in {"work", "check", "read", "mark", "done", "poll", "handle"}
    OBVIOUS
  <1>3. snapshot' \subseteq Messages /\ queue' \subseteq Messages
    BY UnreadTyped, IndicesTyped
  <1>4. busy' \in BOOLEAN /\ aborted' \in BOOLEAN
    OBVIOUS
  <1>5. typed' \in 0 .. troubles' /\ troubles' \in 0 .. MaxTroubles
    BY BoundsTyped
  <1>6. took' \in [Messages -> 0 .. 2] /\ behind' \in 0 .. 2
    BY TakeTyped, CountTyped
  <1>7. unmarked' \subseteq Messages /\ missed' \subseteq Messages
    OBVIOUS
  <1> QED BY <1>1, <1>2, <1>3, <1>4, <1>5, <1>6, <1>7

-----------------------------------------------------------------------------
(* What was written stays.                                                 *)

\* Every step on the file is one of these; the rest of a proof about them
\* follows this list.
FileMoves ==
    \/ \E w \in Writers, m \in Messages : Send(w, m)
    \/ \E c \in Callers : FileStep(c)
    \/ \E w \in Writers : Crash(w)
    \/ StaleLock

LEMMA FileMovesKeepJobs ==
    ASSUME FileInv, FileMoves
    PROVE  JobsFit'
  <1> USE MailboxAssumption DEF FileInv, TypeOK, JobsFit, Callers, Critical, At, Goto
  <1>1. ASSUME NEW w \in Writers, NEW m \in Messages, Send(w, m) PROVE JobsFit'
    BY <1>1 DEF Send, Appends
  <1>2. ASSUME NEW c \in Callers, CreateInbox(c) PROVE JobsFit'
    BY <1>2 DEF CreateInbox
  <1>3. ASSUME NEW c \in Callers, FillNew(c) PROVE JobsFit'
    BY <1>3 DEF FillNew
  <1>4. ASSUME NEW c \in Callers, LockAndRead(c) PROVE JobsFit'
    BY <1>4 DEF LockAndRead
  <1>5. ASSUME NEW c \in Callers, LockFails(c) PROVE JobsFit'
    BY <1>5 DEF LockFails
  <1>6. ASSUME NEW c \in Callers, EmptyFile(c) PROVE JobsFit'
    BY <1>6 DEF EmptyFile
  <1>7. ASSUME NEW c \in Callers, FillFile(c) PROVE JobsFit'
    BY <1>7 DEF FillFile
  <1>8. ASSUME NEW c \in Callers, Release(c) PROVE JobsFit'
    BY <1>8 DEF Release
  <1>9. ASSUME NEW w \in Writers, Crash(w) PROVE JobsFit'
    BY <1>9 DEF Crash
  <1>10. CASE StaleLock
    BY <1>10 DEF StaleLock
  <1> QED
    BY <1>1, <1>2, <1>3, <1>4, <1>5, <1>6, <1>7, <1>8, <1>9, <1>10
       DEF FileMoves, FileStep

LEMMA FileMovesKeepExclusive ==
    ASSUME FileInv, FileMoves
    PROVE  Exclusive'
  <1> USE MailboxAssumption DEF FileInv, TypeOK, Exclusive, Callers, Critical, At, Goto
  <1>1. ASSUME NEW w \in Writers, NEW m \in Messages, Send(w, m) PROVE Exclusive'
    BY <1>1 DEF Send
  <1>2. ASSUME NEW c \in Callers, CreateInbox(c) PROVE Exclusive'
    BY <1>2 DEF CreateInbox
  <1>3. ASSUME NEW c \in Callers, FillNew(c) PROVE Exclusive'
    BY <1>3 DEF FillNew
  <1>4. ASSUME NEW c \in Callers, LockAndRead(c) PROVE Exclusive'
    BY <1>4 DEF LockAndRead
  <1>5. ASSUME NEW c \in Callers, LockFails(c) PROVE Exclusive'
    BY <1>5 DEF LockFails
  <1>6. ASSUME NEW c \in Callers, EmptyFile(c) PROVE Exclusive'
    BY <1>6 DEF EmptyFile
  <1>7. ASSUME NEW c \in Callers, FillFile(c) PROVE Exclusive'
    BY <1>7 DEF FillFile
  <1>8. ASSUME NEW c \in Callers, Release(c) PROVE Exclusive'
    BY <1>8 DEF Release
  <1>9. ASSUME NEW w \in Writers, Crash(w) PROVE Exclusive'
    BY <1>9 DEF Crash
  <1>10. CASE StaleLock
    BY <1>10 DEF StaleLock
  <1> QED
    BY <1>1, <1>2, <1>3, <1>4, <1>5, <1>6, <1>7, <1>8, <1>9, <1>10
       DEF FileMoves, FileStep

\* While one call has emptied the file, or nobody has taken the lock, there is
\* nobody else past the lock.
LEMMA Alone ==
    ASSUME FileInv
    PROVE  /\ lock = None => \A c \in Callers : pc[c] \notin Critical
           /\ \A c \in Callers : pc[c] \in Critical =>
                \A d \in Callers : pc[d] \in Critical => d = c
  BY MailboxAssumption DEF FileInv, Exclusive

LEMMA FileMovesKeepWritten ==
    ASSUME FileInv, FileMoves
    PROVE  HoldsWritten'
  <1> USE DEF FileInv, TypeOK, HoldsWritten, NobodyFills, Critical, At, Goto
  <1>0. Writers \subseteq Callers /\ Markers \subseteq Callers
    BY DEF Callers
  <1>1. ASSUME NEW w \in Writers, NEW m \in Messages, Send(w, m) PROVE HoldsWritten'
    BY <1>0, <1>1 DEF Send, past
  <1>2. ASSUME NEW c \in Callers, CreateInbox(c) PROVE HoldsWritten'
    BY <1>2 DEF CreateInbox, past
  <1>3. ASSUME NEW c \in Callers, FillNew(c) PROVE HoldsWritten'
    BY <1>3 DEF FillNew
  <1>4. ASSUME NEW c \in Callers, LockAndRead(c) PROVE HoldsWritten'
    BY <1>4, Alone DEF LockAndRead, past
  <1>5. ASSUME NEW c \in Callers, LockFails(c) PROVE HoldsWritten'
    BY <1>5 DEF LockFails
  <1>6. ASSUME NEW c \in Callers, EmptyFile(c) PROVE HoldsWritten'
    BY <1>6, Alone DEF EmptyFile, past
  <1>7. ASSUME NEW c \in Callers, FillFile(c) PROVE HoldsWritten'
    <2>1. /\ job[c] \in Appends \cup Marks /\ seen[c] \in Contents
          /\ IF c \in Writers THEN job[c] \in Appends ELSE job[c] \in Marks
      BY <1>7, JobTyped DEF FillFile
    <2>2. stored' = Rewritten(job[c], seen[c]).msgs \/ spoiled
      BY <1>7, <2>1, RewrittenTyped DEF FillFile
    <2>3. \A d \in Callers : pc'[d] \notin {"empty", "fill"}
      BY <1>7, Alone DEF FillFile
    <2> QED BY <1>7, <2>2, <2>3 DEF FillFile
  <1>8. ASSUME NEW c \in Callers, Release(c) PROVE HoldsWritten'
    BY <1>8 DEF Release, past
  <1>9. ASSUME NEW w \in Writers, Crash(w) PROVE HoldsWritten'
    <2>1. ~spoiled' /\ At(w, "fill") => inbox = Empty /\ seen[w] = Empty
      BY <1>0, <1>9 DEF Crash
    <2>2. At(w, "fill") => \A d \in Callers \ {w} : pc[d] \notin Critical
      BY <1>0, Alone
    <2> QED BY <1>0, <1>9, <2>1, <2>2 DEF Crash, Empty
  <1>10. CASE StaleLock
    BY <1>10 DEF StaleLock, past
  <1> QED
    BY <1>1, <1>2, <1>3, <1>4, <1>5, <1>6, <1>7, <1>8, <1>9, <1>10
       DEF FileMoves, FileStep

\* A reader that starts to mark leaves the file as it is.
LEMMA ReaderMovesKeepFile ==
    ASSUME FileInv, ReaderMoves
    PROVE  FileInv'
  <1>1. TypeOK'
    BY ReaderMovesTyped DEF FileInv
  <1>2. CASE Calm
    BY <1>1, <1>2 DEF Calm, FileInv, JobsFit, Exclusive, HoldsWritten, NobodyFills, At
  <1>3. ASSUME NEW k \in Markers, NEW j \in Marks, Starts(k, j)
        PROVE  FileInv'
    <2> USE <1>3, MailboxAssumption DEF FileInv, TypeOK, Starts, Goto, At, Callers, Critical
    <2>1. JobsFit'
      BY DEF JobsFit
    <2>2. Exclusive'
      BY DEF Exclusive
    <2>3. HoldsWritten'
      BY DEF HoldsWritten, NobodyFills
    <2> QED BY <1>1, <2>1, <2>2, <2>3 DEF FileInv
  <1> QED BY <1>2, <1>3, ReadersStart DEF FileInv

LEMMA StepKeepsFile ==
    FileInv /\ [Next]_vars => FileInv'
  <1> SUFFICES ASSUME FileInv, [Next]_vars PROVE FileInv'
    OBVIOUS
  <1>1. CASE FileMoves
    BY <1>1, FileStepsTyped, FileMovesKeepJobs, FileMovesKeepExclusive,
       FileMovesKeepWritten DEF FileInv, FileMoves
  <1>2. CASE ReaderMoves
    BY <1>2, ReaderMovesKeepFile
  <1>3. CASE UNCHANGED vars
    BY <1>3 DEF vars, file, ends, past, FileInv, TypeOK, JobsFit, Exclusive,
                HoldsWritten, NobodyFills, At
  <1> QED BY <1>1, <1>2, <1>3 DEF Next, FileMoves, ReaderMoves

(* For every set of agents, messages and kinds of reader: what was written *)
(* to the inbox stays in it, in order, or is in the hands of the call that *)
(* has emptied it, unless a late creator or a crash has damaged the file.  *)
THEOREM InboxIsSound ==
    Spec => []InboxSound
  <1>1. FileInv => InboxSound
    BY DEF FileInv, HoldsWritten, NobodyFills, InboxSound, Kept, At
  <1> QED BY <1>1, InitFileInv, StepKeepsFile, PTL DEF Spec

-----------------------------------------------------------------------------
(* The readers that wait for their mark take each message once.            *)

\* Outside the wait no call marks.
WaitsForMark == reader # "repl" /\ mode # "mark" => MarkDone

\* The index that the teammate marks is that of the message it has in hand.
MarksItsOwn ==
    reader = "runner" /\ ~spoiled =>
      /\ missed = {}
      /\ mode = "mark" =>
           \A k \in Markers : ~At(k, "idle") =>
              /\ job[k].op = "markOne" /\ job[k].index \in DOMAIN stored
              /\ snapshot = {stored[job[k].index]}

\* The mark of m is in the file, or with the call that has emptied it.
Marked(m) ==
    /\ NobodyFills => m \in inbox.read
    /\ \A c \in Callers : pc[c] \in {"empty", "fill"} => m \in seen[c].read

\* A call is on its way that will mark m.
BeingMarked(m) ==
    \E k \in Markers :
      /\ pc[k] \in {"lock", "empty", "fill"}
      /\ \/ job[k].op = "markAll" /\ m \in Members(stored)
         \/ /\ job[k].op = "markOne" /\ job[k].index \in DOMAIN stored
            /\ stored[job[k].index] = m

\* What was taken is marked for good, and what is in hand will be, unless the
\* mark has failed.
MarksLast ==
    reader # "repl" /\ ~spoiled =>
      /\ \A m \in Messages : /\ took[m] # 0 => m \in unmarked \/ Marked(m)
                             /\ took[m] = 2 => m \in unmarked
      /\ mode = "mark" =>
           \A m \in snapshot : /\ took[m] = 0 \/ m \in unmarked
                               /\ m \in unmarked \/ Marked(m) \/ BeingMarked(m)

OnceInv == FileInv /\ WaitsForMark /\ MarksItsOwn /\ MarksLast

LEMMA InitOnce ==
    Init => OnceInv
  <1> SUFFICES ASSUME Init PROVE OnceInv
    OBVIOUS
  <1>1. FileInv
    BY InitFileInv
  <1>2. WaitsForMark
    BY DEF Init, WaitsForMark, MarkDone, At, Callers
  <1>3. mode # "mark"
    BY DEF Init
  <1>4. MarksItsOwn /\ MarksLast
    BY <1>3 DEF Init, MarksItsOwn, MarksLast
  <1> QED BY <1>1, <1>2, <1>4 DEF OnceInv

\* No step on the file loses a mark, unless it spoils the file.
LEMMA MarksStay ==
    ASSUME FileInv, FileMoves, ~spoiled', NEW m, Marked(m)
    PROVE  Marked(m)'
  <1> USE DEF FileInv, TypeOK, Marked, NobodyFills, Critical, At, Goto
  <1>0. Writers \subseteq Callers
    BY DEF Callers
  <1>1. ASSUME NEW w \in Writers, NEW n \in Messages, Send(w, n) PROVE Marked(m)'
    BY <1>0, <1>1 DEF Send
  <1>2. ASSUME NEW c \in Callers, CreateInbox(c) PROVE Marked(m)'
    BY <1>2 DEF CreateInbox
  <1>3. ASSUME NEW c \in Callers, FillNew(c) PROVE Marked(m)'
    BY <1>3 DEF FillNew
  <1>4. ASSUME NEW c \in Callers, LockAndRead(c) PROVE Marked(m)'
    BY <1>4, Alone DEF LockAndRead
  <1>5. ASSUME NEW c \in Callers, LockFails(c) PROVE Marked(m)'
    BY <1>5 DEF LockFails
  <1>6. ASSUME NEW c \in Callers, EmptyFile(c) PROVE Marked(m)'
    BY <1>6, Alone DEF EmptyFile
  <1>7. ASSUME NEW c \in Callers, FillFile(c) PROVE Marked(m)'
    <2>1. job[c] \in Appends \cup Marks /\ seen[c] \in Contents
      BY <1>7, JobTyped DEF FillFile
    <2>2. m \in inbox'.read
      BY <1>7, <2>1, RewrittenTyped DEF FillFile
    <2>3. \A d \in Callers : pc'[d] \notin {"empty", "fill"}
      BY <1>7, Alone DEF FillFile
    <2> QED BY <2>2, <2>3
  <1>8. ASSUME NEW c \in Callers, Release(c) PROVE Marked(m)'
    BY <1>8 DEF Release
  <1>9. ASSUME NEW w \in Writers, Crash(w) PROVE Marked(m)'
    <2>1. Empty.read = {}
      BY DEF Empty
    <2>2. ~(At(w, "fill") /\ seen[w] = Empty)
      BY <1>0, <2>1
    <2>3. ~At(w, "fill")
      BY <1>9, <2>2 DEF Crash
    <2> QED BY <1>0, <1>9, <2>3 DEF Crash
  <1>10. CASE StaleLock
    BY <1>10 DEF StaleLock
  <1> QED
    BY <1>1, <1>2, <1>3, <1>4, <1>5, <1>6, <1>7, <1>8, <1>9, <1>10
       DEF FileMoves, FileStep

\* What is written is written at the end.
LEMMA StoredGrows ==
    ASSUME FileInv, FileMoves
    PROVE  /\ DOMAIN stored \subseteq DOMAIN stored'
           /\ \A i \in DOMAIN stored : stored'[i] = stored[i]
  <1>1. CASE UNCHANGED stored
    BY <1>1
  <1>2. ASSUME NEW c \in Writers, FillFile(c)
        PROVE  /\ DOMAIN stored \subseteq DOMAIN stored'
               /\ \A i \in DOMAIN stored : stored'[i] = stored[i]
    <2>1. job[c].msg \in Messages /\ stored' = Append(stored, job[c].msg)
      BY <1>2, JobTyped DEF FillFile, FileInv, Callers, At, Appends
    <2> QED BY <2>1 DEF FileInv, TypeOK
  <1>3. UNCHANGED stored \/ \E c \in Writers : FillFile(c)
    BY DEF FileMoves, FileStep, Send, CreateInbox, FillNew, LockAndRead, LockFails,
           EmptyFile, FillFile, Release, Crash, StaleLock, past
  <1> QED BY <1>1, <1>2, <1>3

\* The steps on the file leave the reader alone, and a marking call keeps its
\* work as long as it goes on.
LEMMA FileMovesSpareReader ==
    ASSUME FileInv, FileMoves
    PROVE  /\ UNCHANGED <<reader, mode, snapshot, queue, took>>
           /\ unmarked \subseteq unmarked' /\ (spoiled => spoiled')
           /\ \A k \in Markers : pc'[k] # "idle" =>
                pc[k] # "idle" /\ job'[k] = job[k]
  <1> USE MailboxAssumption DEF FileInv, TypeOK, Callers, At, Goto, ends, past
  <1>1. ASSUME NEW w \in Writers, NEW m \in Messages, Send(w, m)
        PROVE  /\ UNCHANGED <<reader, mode, snapshot, queue, took, unmarked, spoiled>>
               /\ \A k \in Markers : pc'[k] = pc[k] /\ job'[k] = job[k]
    BY <1>1 DEF Send
  <1>2. ASSUME NEW w \in Writers, Crash(w)
        PROVE  /\ UNCHANGED <<reader, mode, snapshot, queue, took, unmarked>>
               /\ spoiled => spoiled'
               /\ \A k \in Markers : pc'[k] = pc[k] /\ job'[k] = job[k]
    BY <1>2 DEF Crash
  <1>3. CASE StaleLock
    BY <1>3 DEF StaleLock
  <1>4. ASSUME NEW c \in Callers, FileStep(c)
        PROVE  /\ UNCHANGED <<reader, mode, snapshot, queue, took>>
               /\ unmarked \subseteq unmarked' /\ (spoiled => spoiled')
               /\ pc[c] # "idle"
               /\ pc'[c] # "idle" => job'[c] = job[c]
               /\ \A d \in Callers \ {c} : pc'[d] = pc[d] /\ job'[d] = job[d]
    BY <1>4 DEF FileStep, CreateInbox, FillNew, LockAndRead, LockFails, EmptyFile,
                FillFile, Release
  <1> QED BY <1>1, <1>2, <1>3, <1>4 DEF FileMoves

LEMMA FileMovesKeepWait ==
    ASSUME FileInv, FileMoves, WaitsForMark
    PROVE  WaitsForMark'
  BY FileMovesSpareReader DEF WaitsForMark, MarkDone, At

\* A call adds no mark to the file but that of the message in hand.
LEMMA FillsItsOwn ==
    ASSUME FileInv, WaitsForMark, MarksItsOwn, reader = "runner", ~spoiled,
           NEW c \in Callers, FillFile(c)
    PROVE  /\ inbox'.read \subseteq seen[c].read \cup snapshot
           /\ mode # "mark" => inbox'.read = seen[c].read
  <1>1. job[c] \in Appends \cup Marks /\ seen[c] \in Contents
    BY JobTyped DEF FillFile, FileInv, TypeOK, At
  <1>2. CASE c \in Writers
    BY <1>1, <1>2, RewrittenTyped, JobTyped DEF FillFile, FileInv, At
  <1>3. CASE c \in Markers
    <2>1. /\ mode = "mark"
          /\ job[c].op = "markOne" /\ job[c].index \in DOMAIN stored
          /\ snapshot = {stored[job[c].index]}
      BY <1>3 DEF FillFile, MarksItsOwn, WaitsForMark, MarkDone, At
    <2>2. seen[c].msgs = stored
      BY DEF FillFile, FileInv, HoldsWritten, At
    <2>3. Targets(job[c], seen[c]) \subseteq snapshot
      BY <2>1, <2>2 DEF Targets
    <2>4. inbox'.read \subseteq seen[c].read \cup snapshot
      BY <1>1, <1>3, <2>3, RewrittenTyped, JobTyped, MailboxAssumption
         DEF FillFile, FileInv, At
    <2> QED BY <2>1, <2>4
  <1> QED BY <1>2, <1>3 DEF Callers

LEMMA FileMovesKeepOwn ==
    ASSUME FileInv, FileMoves, WaitsForMark, MarksItsOwn
    PROVE  MarksItsOwn'
  <1> SUFFICES ASSUME reader = "runner", ~spoiled, ~spoiled' PROVE MarksItsOwn'
    BY FileMovesSpareReader DEF MarksItsOwn
  <1>1. mode' = "mark" =>
          \A k \in Markers : ~At(k, "idle")' =>
             /\ job'[k].op = "markOne" /\ job'[k].index \in DOMAIN stored'
             /\ snapshot' = {stored'[job'[k].index]}
    BY FileMovesSpareReader, StoredGrows DEF MarksItsOwn, At
  <1>2. CASE UNCHANGED missed
    BY <1>1, <1>2 DEF MarksItsOwn
  <1>3. ASSUME NEW c \in Callers, FillFile(c) PROVE missed' = {}
    BY <1>3, FillsItsOwn DEF FillFile, MarksItsOwn
  <1>4. UNCHANGED missed \/ \E c \in Callers : FillFile(c)
    BY DEF FileMoves, FileStep, Send, CreateInbox, FillNew, LockAndRead, LockFails,
           EmptyFile, Release, Crash, StaleLock, past
  <1> QED BY <1>1, <1>2, <1>3, <1>4 DEF MarksItsOwn

LEMMA FileMovesKeepMarks ==
    ASSUME FileInv, FileMoves, MarksLast
    PROVE  MarksLast'
  <1> SUFFICES ASSUME reader # "repl", ~spoiled, ~spoiled' PROVE MarksLast'
    BY FileMovesSpareReader DEF MarksLast
  <1>1. \A m \in Messages : /\ took'[m] # 0 => m \in unmarked' \/ Marked(m)'
                            /\ took'[m] = 2 => m \in unmarked'
    BY FileMovesSpareReader, MarksStay DEF MarksLast
  <1>2. ASSUME mode' = "mark", NEW m \in snapshot'
        PROVE  /\ took'[m] = 0 \/ m \in unmarked'
               /\ m \in unmarked' \/ Marked(m)' \/ BeingMarked(m)'
    <2>1. mode = "mark" /\ m \in snapshot
      BY <1>2, FileMovesSpareReader
    <2>2. took'[m] = 0 \/ m \in unmarked'
      BY <2>1, FileMovesSpareReader DEF MarksLast
    <2>3. CASE m \in unmarked \/ Marked(m)
      BY <2>2, <2>3, FileMovesSpareReader, MarksStay
    <2>4. ASSUME NEW k \in Markers, pc[k] \in {"lock", "empty", "fill"},
                 \/ job[k].op = "markAll" /\ m \in Members(stored)
                 \/ /\ job[k].op = "markOne" /\ job[k].index \in DOMAIN stored
                    /\ stored[job[k].index] = m
          PROVE  m \in unmarked' \/ Marked(m)' \/ BeingMarked(m)'
      <3> USE MailboxAssumption DEF FileInv, TypeOK, Callers, At, Goto
      <3>1. CASE pc'[k] \in {"lock", "empty", "fill"}
        <4>1. job'[k] = job[k]
          BY <3>1, FileMovesSpareReader
        <4>2. Members(stored) \subseteq Members(stored')
          BY StoredGrows DEF Members
        <4> QED BY <2>4, <3>1, <4>1, <4>2, StoredGrows DEF BeingMarked
      <3>2. m \in Members(stored) /\ job[k] \in Marks
        BY <2>4 DEF Members, JobsFit
      <3>3. CASE LockFails(k)
        BY <2>1, <3>3 DEF LockFails
      <3>4. CASE LockAndRead(k) /\ pc'[k] = "release"
        <4>1. inbox.msgs = stored /\ NobodyFills /\ NothingToDo(job[k], inbox)
          BY <3>4, Alone DEF LockAndRead, HoldsWritten, NobodyFills, Critical
        <4>2. CASE job[k].op = "markAll"
          BY <3>2, <4>1, <4>2 DEF NothingToDo, Members
        <4>3. CASE job[k].op = "markOne"
          <5>1. m \in Targets(job[k], inbox)
            BY <2>4, <4>1, <4>3 DEF Targets
          <5>2. Marked(m)
            BY <3>4, <4>1, <4>3, <5>1, Alone
               DEF NothingToDo, Marked, LockAndRead, Critical
          <5> QED BY <5>2, MarksStay
        <4> QED BY <2>4, <4>2, <4>3
      <3>5. CASE FillFile(k)
        <4>1. seen[k].msgs = stored /\ seen[k] \in Contents
          BY <3>5 DEF FillFile, HoldsWritten
        <4>2. m \in Targets(job[k], seen[k])
          BY <2>4, <4>1 DEF Targets
        <4>3. m \in inbox'.read
          BY <3>2, <3>5, <4>1, <4>2, RewrittenTyped DEF FillFile
        <4>4. \A d \in Callers : pc'[d] \notin {"empty", "fill"}
          BY <3>5, Alone DEF FillFile, Critical
        <4> QED BY <4>3, <4>4 DEF Marked, NobodyFills
      <3>6. \/ pc'[k] = pc[k] \/ LockFails(k) \/ LockAndRead(k) \/ EmptyFile(k)
            \/ FillFile(k)
        BY <2>4 DEF FileMoves, FileStep, Send, CreateInbox, FillNew, LockAndRead,
                    LockFails, EmptyFile, FillFile, Release, Crash, StaleLock
      <3>7. EmptyFile(k) => pc'[k] = "fill"
        BY DEF EmptyFile
      <3>8. LockAndRead(k) => pc'[k] \in {"empty", "release"}
        BY DEF LockAndRead
      <3> QED BY <2>4, <3>1, <3>3, <3>4, <3>5, <3>6, <3>7, <3>8
    <2> QED BY <2>1, <2>2, <2>3, <2>4 DEF MarksLast, BeingMarked
  <1> QED BY <1>1, <1>2 DEF MarksLast

\* The steps of a reader that waits for its mark: it rests, it takes what it
\* has in hand, or it begins to mark what it found unread.
Rests ==
    /\ Calm /\ UNCHANGED <<reader, took, unmarked, missed, behind>>
    /\ mode' = "mark" => mode = "mark" /\ UNCHANGED snapshot
    /\ mode = "mark" => mode' = "mark"

Takes ==
    /\ Calm /\ UNCHANGED <<reader, unmarked, missed>>
    /\ mode = "mark" /\ MarkDone /\ mode' = "work" /\ Take(snapshot)
    /\ reader = "runner" => CountBehind

Begins(k, j) ==
    /\ Starts(k, j) /\ UNCHANGED <<reader, took, unmarked, missed, behind>>
    /\ mode # "mark" /\ mode' = "mark"
    /\ \/ /\ reader = "print" /\ j.op = "markAll" /\ snapshot' = Unread(inbox)
       \/ /\ reader = "runner" /\ j.op = "markOne" /\ j.index \in Preferred(inbox)
          /\ snapshot' = {inbox.msgs[j.index]}

LEMMA WaitingReaders ==
    ASSUME TypeOK, ReaderMoves, reader # "repl"
    PROVE  Rests \/ Takes \/ \E k \in Markers, j \in Marks : Begins(k, j)
  <1> USE DEF file, ends, past
  <1>1. CASE TurnEnds \/ UserTypes \/ Abort
    BY <1>1 DEF TurnEnds, UserTypes, Abort, Rests, Calm
  <1>2. CASE CheckPending
    BY <1>2 DEF CheckPending, Rests, Calm
  <1>3. CASE RunnerTake \/ PrintTake
    BY <1>3 DEF RunnerTake, PrintTake, Takes, Calm
  <1>4. CASE RunnerRead /\ UNCHANGED <<snapshot, job, pc>> /\ mode' # "mark"
    BY <1>4 DEF RunnerRead, Rests, Calm
  <1>5. ASSUME RunnerRead, mode' = "mark", NEW i \in Preferred(inbox),
               snapshot' = {inbox.msgs[i]}, StartMark([op |-> "markOne", index |-> i])
        PROVE  \E k \in Markers, j \in Marks : Begins(k, j)
    <2> DEFINE j == [op |-> "markOne", index |-> i]
    <2>1. j \in Marks /\ j.op = "markOne" /\ j.index = i
      BY IndicesTyped DEF Marks
    <2>2. \E k \in Markers : Starts(k, j)
      BY <1>5, <2>1, StartMarkStarts DEF RunnerRead
    <2> HIDE DEF j
    <2> QED BY <1>5, <2>1, <2>2, IndicesTyped DEF RunnerRead, Begins
  <1>6. CASE PrintRead
    <2> DEFINE j == [op |-> "markAll"]
    <2>1. j \in Marks /\ j.op = "markAll"
      BY DEF Marks
    <2>2. \E k \in Markers : Starts(k, j)
      BY <1>6, <2>1, StartMarkStarts DEF PrintRead
    <2> HIDE DEF j
    <2> QED BY <1>6, <2>1, <2>2 DEF PrintRead, Begins
  <1>7. RunnerRead =>
          \/ UNCHANGED <<snapshot, job, pc>> /\ mode' # "mark"
          \/ \E i \in Preferred(inbox) :
               /\ snapshot' = {inbox.msgs[i]} /\ mode' = "mark"
               /\ StartMark([op |-> "markOne", index |-> i])
    BY DEF RunnerRead
  <1>8. ~(ReplRead \/ ReplHandle \/ DeliverPending)
    BY DEF ReplRead, ReplHandle, DeliverPending
  <1> QED BY <1>1, <1>2, <1>3, <1>4, <1>5, <1>6, <1>7, <1>8 DEF ReaderMoves, ReaderStep

LEMMA ReaderMovesKeepOnce ==
    ASSUME OnceInv, ReaderMoves, reader # "repl"
    PROVE  (WaitsForMark /\ MarksItsOwn /\ MarksLast)'
  <1> USE DEF OnceInv
  <1>0. TypeOK
    BY DEF FileInv
  <1>1. CASE Rests
    BY <1>1 DEF Rests, Calm, WaitsForMark, MarkDone, MarksItsOwn, MarksLast, Marked,
                BeingMarked, NobodyFills, Members, At
  <1>2. CASE Takes
    <2>1. WaitsForMark' /\ MarksItsOwn'
      BY <1>2 DEF Takes, Calm, WaitsForMark, MarkDone, MarksItsOwn, At
    <2>2. \A m : Marked(m)' = Marked(m)
      BY <1>2 DEF Takes, Calm, Marked, NobodyFills, At
    <2>3. \A m \in Messages : m \notin snapshot => took'[m] = took[m]
      BY <1>0, <1>2, TakeTyped DEF Takes
    <2>4. \A m \in Messages : took'[m] = 2 => took[m] # 0
      BY <1>0, <1>2, TakeTyped DEF Takes
    <2>5. \A m : ~BeingMarked(m)
      BY <1>2 DEF Takes, MarkDone, BeingMarked, At
    <2> QED BY <1>2, <2>1, <2>2, <2>3, <2>4, <2>5 DEF Takes, Calm, MarksLast
  <1>3. ASSUME NEW k \in Markers, NEW j \in Marks, Begins(k, j)
        PROVE  (WaitsForMark /\ MarksItsOwn /\ MarksLast)'
    <2>1. /\ \A h \in Markers \ {k} : pc'[h] = "idle"
          /\ pc'[k] = "lock" /\ job'[k] = j
      BY <1>0, <1>3 DEF Begins, Starts, WaitsForMark, MarkDone, At, Goto, TypeOK, Callers
    <2>2. WaitsForMark'
      BY <1>3 DEF Begins, WaitsForMark
    <2>0. reader = "runner" =>
            /\ j.index \in DOMAIN inbox.msgs
            /\ inbox.msgs[j.index] \notin inbox.read
      BY <1>0, <1>3, IndicesTyped DEF Begins
    <2>3. /\ Unread(inbox) # {} => NobodyFills
          /\ DOMAIN inbox.msgs # {} => NobodyFills
      <3>1. DOMAIN Empty.msgs = {}
        BY DEF Empty
      <3>2. Unread(Empty) = {}
        BY <3>1 DEF Unread, Members
      <3> QED BY <3>1, <3>2 DEF FileInv, HoldsWritten, NobodyFills
    <2>4. \A m : Marked(m)' = Marked(m)
      BY <1>0, <1>3 DEF Begins, Starts, Marked, NobodyFills, At, Goto, TypeOK, Callers
    <2>5. snapshot' # {} /\ ~spoiled => NobodyFills /\ inbox.msgs = stored
      BY <1>3, <2>0, <2>3 DEF Begins, FileInv, HoldsWritten
    <2>6. MarksItsOwn'
      BY <1>3, <2>0, <2>1, <2>5 DEF Begins, Starts, MarksItsOwn, At
    <2>7. snapshot' \subseteq Unread(inbox)
      BY <1>3, <2>0 DEF Begins, Unread, Members
    <2>8. ASSUME ~spoiled, NEW m \in snapshot' PROVE BeingMarked(m)'
      <3>1. m \in Members(stored)
        BY <2>5, <2>7, <2>8 DEF Unread
      <3>2. CASE j.op = "markAll"
        BY <1>3, <2>1, <3>1, <3>2 DEF Begins, Starts, BeingMarked
      <3>3. CASE j.op = "markOne"
        BY <1>3, <2>0, <2>1, <2>5, <2>8, <3>3 DEF Begins, Starts, BeingMarked
      <3> QED BY <1>3, <3>2, <3>3 DEF Begins
    <2>9. ASSUME ~spoiled, NEW m \in snapshot' PROVE took'[m] = 0 \/ m \in unmarked'
      <3>1. m \in Messages /\ m \notin inbox.read
        BY <1>0, <2>7, <2>9, UnreadTyped DEF Unread
      <3>2. ~Marked(m)
        BY <2>5, <2>9, <3>1 DEF Marked
      <3> QED BY <1>3, <2>9, <3>1, <3>2 DEF Begins, MarksLast
    <2>10. MarksLast'
      BY <1>3, <2>4, <2>8, <2>9 DEF Begins, Starts, MarksLast
    <2> QED BY <2>2, <2>6, <2>10
  <1> QED BY <1>0, <1>1, <1>2, <1>3, WaitingReaders

LEMMA StepKeepsOnce ==
    OnceInv /\ [Next]_vars => OnceInv'
  <1> SUFFICES ASSUME OnceInv, [Next]_vars PROVE OnceInv'
    OBVIOUS
  <1>1. FileInv'
    BY StepKeepsFile DEF OnceInv
  <1>2. CASE FileMoves
    BY <1>1, <1>2, FileMovesKeepWait, FileMovesKeepOwn, FileMovesKeepMarks DEF OnceInv
  <1>3. CASE ReaderMoves /\ reader # "repl"
    BY <1>1, <1>3, ReaderMovesKeepOnce DEF OnceInv
  <1>4. CASE ReaderMoves /\ reader = "repl"
    <2>1. reader' = "repl"
      BY <1>4 DEF ReaderMoves, ReaderStep, TurnEnds, UserTypes, Abort, CheckPending,
                  RunnerRead, RunnerTake, PrintRead, PrintTake, ReplRead, ReplHandle,
                  DeliverPending
    <2> QED BY <1>1, <2>1 DEF OnceInv, WaitsForMark, MarksItsOwn, MarksLast
  <1>5. CASE UNCHANGED vars
    BY <1>1, <1>5 DEF vars, file, ends, past, OnceInv, WaitsForMark, MarkDone,
                      MarksItsOwn, MarksLast, Marked, BeingMarked, NobodyFills,
                      Members, At
  <1> QED BY <1>2, <1>3, <1>4, <1>5 DEF Next, FileMoves, ReaderMoves

(* For every set of agents, messages and markers: the teammate marks only  *)
(* the message it has in hand, and neither it nor the headless leader      *)
(* takes a message a second time whose mark was made.                      *)
THEOREM EachIsTakenOnce ==
    Spec => []EachOnce
  <1>1. OnceInv => EachOnce
    <2> SUFFICES ASSUME OnceInv PROVE EachOnce
      OBVIOUS
    <2>1. OnlyTakenIsMarked
      BY DEF OnceInv, MarksItsOwn, OnlyTakenIsMarked
    <2>2. TakenOnce
      BY DEF OnceInv, MarksLast, TakenOnce
    <2> QED BY <2>1, <2>2 DEF EachOnce
  <1> QED BY <1>1, InitOnce, StepKeepsOnce, PTL DEF Spec

-----------------------------------------------------------------------------
(* A shutdown request is not overtaken twice.                              *)

\* Nothing is marked but what the teammate has taken or has in hand.
ReadIsTaken ==
    reader = "runner" /\ ~spoiled =>
      \A m \in Messages :
        m \in inbox.read \/ (\E c \in Callers : m \in seen[c].read) =>
           took[m] # 0 \/ (mode = "mark" /\ m \in snapshot)

\* Once ordinary mail was taken before a shutdown request, such a request is
\* waiting still, or is what the teammate has in hand.
Urgent ==
    reader = "runner" /\ ~spoiled =>
      /\ behind <= 1
      /\ behind = 1 => IF mode = "mark" THEN snapshot \cap Shutdowns # {}
                       ELSE \E s \in Shutdowns : s \in Members(stored) /\ took[s] = 0

FirstInv == OnceInv /\ ReadIsTaken /\ Urgent

LEMMA InitFirst ==
    Init => FirstInv
  <1>1. Empty.read = {}
    BY DEF Empty
  <1> QED BY <1>1, InitOnce DEF Init, FirstInv, ReadIsTaken, Urgent

LEMMA FileMovesKeepFirst ==
    ASSUME FirstInv, FileMoves
    PROVE  (ReadIsTaken /\ Urgent)'
  <1> SUFFICES ASSUME reader = "runner", ~spoiled, ~spoiled'
               PROVE  (ReadIsTaken /\ Urgent)'
    BY FileMovesSpareReader DEF FirstInv, OnceInv, ReadIsTaken, Urgent
  <1>0. FileInv /\ TypeOK /\ UNCHANGED <<reader, mode, snapshot, took>>
    BY FileMovesSpareReader DEF FirstInv, OnceInv, FileInv
  <1>1. Urgent'
    <2>1. UNCHANGED behind
      BY DEF FileMoves, FileStep, Send, CreateInbox, FillNew, LockAndRead, LockFails,
             EmptyFile, FillFile, Release, Crash, StaleLock, past
    <2>2. Members(stored) \subseteq Members(stored')
      BY <1>0, StoredGrows DEF Members
    <2> QED BY <1>0, <2>1, <2>2 DEF FirstInv, Urgent
  <1>2. ASSUME NEW m \in Messages,
               m \in inbox'.read \/ (\E c \in Callers : m \in seen'[c].read)
        PROVE  \/ m \in inbox.read \/ (\E c \in Callers : m \in seen[c].read)
               \/ mode = "mark" /\ m \in snapshot
    <2> USE <1>0 DEF TypeOK, Callers
    <2>1. Empty.read = {}
      BY DEF Empty
    <2>2. CASE UNCHANGED <<inbox, seen>>
      BY <1>2, <2>2
    <2>3. ASSUME NEW c \in Callers, FillNew(c) \/ EmptyFile(c)
          PROVE  \E d \in Callers : m \in seen[d].read
      BY <1>2, <2>1, <2>3 DEF FillNew, EmptyFile
    <2>4. ASSUME NEW c \in Callers, LockAndRead(c)
          PROVE  m \in inbox.read \/ \E d \in Callers : m \in seen[d].read
      BY <1>2, <2>4 DEF LockAndRead
    <2>5. ASSUME NEW c \in Callers, Release(c)
          PROVE  m \in inbox.read \/ \E d \in Callers : m \in seen[d].read
      BY <1>2, <2>1, <2>5 DEF Release
    <2>6. ASSUME NEW w \in Writers, Crash(w)
          PROVE  m \in inbox.read \/ \E d \in Callers : m \in seen[d].read
      BY <1>2, <2>1, <2>6 DEF Crash
    <2>7. ASSUME NEW c \in Callers, FillFile(c)
          PROVE  \/ \E d \in Callers : m \in seen[d].read
                 \/ mode = "mark" /\ m \in snapshot
      <3>1. m \in inbox'.read \/ \E d \in Callers : m \in seen[d].read
        BY <1>2, <2>7 DEF FillFile
      <3>2. /\ inbox'.read \subseteq seen[c].read \cup snapshot
            /\ mode # "mark" => inbox'.read = seen[c].read
        BY <2>7, FillsItsOwn DEF FirstInv, OnceInv
      <3> QED BY <3>1, <3>2
    <2> QED
      BY <2>2, <2>3, <2>4, <2>5, <2>6, <2>7
         DEF FileMoves, FileStep, Send, CreateInbox, LockFails, StaleLock
  <1>3. ReadIsTaken'
    BY <1>0, <1>2 DEF FirstInv, ReadIsTaken
  <1> QED BY <1>1, <1>3

\* With a shutdown request unread, the index to take is that of one.
LEMMA PreferredIsUrgent ==
    ASSUME TypeOK, NEW i \in Preferred(inbox),
           NEW s \in Shutdowns, s \in Members(inbox.msgs), s \notin inbox.read
    PROVE  inbox.msgs[i] \in Shutdowns
  <1>1. PICK n \in DOMAIN inbox.msgs : inbox.msgs[n] = s
    BY DEF Members
  <1>2. n \in UnreadAt(inbox)
    BY <1>1 DEF UnreadAt
  <1>3. Rank(s) = 0
    BY DEF Rank
  <1>4. Rank(inbox.msgs[i]) \in {0, 1, 2} /\ (Rank(inbox.msgs[i]) = 0 => inbox.msgs[i] \in Shutdowns)
    BY DEF Rank
  <1>5. Rank(inbox.msgs[i]) < 0 \/ Rank(inbox.msgs[i]) = 0
    BY <1>1, <1>2, <1>3 DEF Preferred
  <1> QED BY <1>4, <1>5

LEMMA ReaderMovesKeepFirst ==
    ASSUME FirstInv, ReaderMoves, reader = "runner"
    PROVE  (ReadIsTaken /\ Urgent)'
  <1>0. TypeOK /\ OnceInv
    BY DEF FirstInv, OnceInv, FileInv
  <1>1. CASE Rests
    BY <1>1 DEF Rests, Calm, FirstInv, ReadIsTaken, Urgent
  <1>2. CASE Takes
    <2>1. \A m \in Messages : /\ took[m] # 0 => took'[m] # 0
                              /\ m \in snapshot => took'[m] # 0
                              /\ m \notin snapshot => took'[m] = took[m]
      BY <1>0, <1>2 DEF Takes, Take, TypeOK
    <2>2. ReadIsTaken'
      BY <1>2, <2>1 DEF Takes, Calm, FirstInv, ReadIsTaken
    <2>3. CASE Overtaken /\ ~spoiled
      <3>1. behind = 0 /\ behind' = 1
        BY <1>0, <1>2, <2>3 DEF Takes, CountBehind, Overtaken, FirstInv, Urgent, TypeOK
      <3>2. PICK s \in Shutdowns : s \in Members(stored) /\ took[s] = 0 /\ s \notin snapshot
        BY <2>3 DEF Overtaken
      <3>3. s \in Members(stored') /\ took'[s] = 0
        BY <1>2, <2>1, <3>2, MailboxAssumption DEF Takes, Calm
      <3> QED BY <1>2, <2>2, <3>1, <3>3 DEF Takes, Urgent
    <2>4. CASE ~Overtaken
      <3>1. behind' = 0
        BY <1>2, <2>4 DEF Takes, CountBehind
      <3> QED BY <2>2, <3>1 DEF Urgent
    <2>5. CASE spoiled
      BY <1>2, <2>2, <2>5 DEF Takes, Calm, Urgent
    <2> QED BY <2>3, <2>4, <2>5
  <1>3. ASSUME NEW k \in Markers, NEW j \in Marks, Begins(k, j)
        PROVE  (ReadIsTaken /\ Urgent)'
    <2>1. ReadIsTaken'
      BY <1>3 DEF Begins, Starts, FirstInv, ReadIsTaken
    <2>2. ASSUME ~spoiled, behind = 1 PROVE snapshot' \cap Shutdowns # {}
      <3>1. PICK s \in Shutdowns : s \in Members(stored) /\ took[s] = 0
        BY <1>3, <2>2 DEF Begins, FirstInv, Urgent
      <3>2. inbox.msgs = stored
        <4>1. DOMAIN inbox.msgs # {}
          BY <1>0, <1>3, IndicesTyped DEF Begins
        <4>2. DOMAIN Empty.msgs = {}
          BY DEF Empty
        <4> QED BY <1>0, <2>2, <4>1, <4>2
                DEF OnceInv, FileInv, HoldsWritten, NobodyFills
      <3>3. s \notin inbox.read
        BY <1>3, <2>2, <3>1, MailboxAssumption DEF Begins, FirstInv, ReadIsTaken
      <3>4. inbox.msgs[j.index] \in Shutdowns
        BY <1>0, <1>3, <3>1, <3>2, <3>3, PreferredIsUrgent DEF Begins
      <3> QED BY <1>3, <3>4 DEF Begins
    <2>3. Urgent'
      BY <1>3, <2>2 DEF Begins, Starts, FirstInv, Urgent
    <2> QED BY <2>1, <2>3
  <1> QED BY <1>0, <1>1, <1>2, <1>3, WaitingReaders

(* For every set of agents and messages: while a shutdown request is       *)
(* stored, the teammate never takes two ordinary messages in a row.        *)
THEOREM ShutdownIsFirst ==
    Spec => []ShutdownFirst
  <1>1. FirstInv => ShutdownFirst
    BY DEF FirstInv, Urgent, ShutdownFirst
  <1>2. FirstInv /\ [Next]_vars => FirstInv'
    <2> SUFFICES ASSUME FirstInv, [Next]_vars PROVE FirstInv'
      OBVIOUS
    <2>1. OnceInv'
      BY StepKeepsOnce DEF FirstInv
    <2>2. CASE FileMoves
      BY <2>1, <2>2, FileMovesKeepFirst DEF FirstInv
    <2>3. CASE ReaderMoves /\ reader = "runner"
      BY <2>1, <2>3, ReaderMovesKeepFirst DEF FirstInv
    <2>4. CASE ReaderMoves /\ reader # "runner"
      <3>1. reader' # "runner"
        BY <2>4 DEF ReaderMoves, ReaderStep, TurnEnds, UserTypes, Abort, CheckPending,
                    RunnerRead, RunnerTake, PrintRead, PrintTake, ReplRead, ReplHandle,
                    DeliverPending
      <3> QED BY <2>1, <3>1 DEF FirstInv, ReadIsTaken, Urgent
    <2>5. CASE UNCHANGED vars
      BY <2>1, <2>5 DEF vars, file, ends, past, FirstInv, ReadIsTaken, Urgent
    <2> QED BY <2>2, <2>3, <2>4, <2>5 DEF Next, FileMoves, ReaderMoves
  <1> QED BY <1>1, <1>2, InitFirst, PTL DEF Spec
=============================================================================
