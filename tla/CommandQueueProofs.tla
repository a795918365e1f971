------------------------- MODULE CommandQueueProofs -------------------------
(***************************************************************************)
(* Proofs about the way from a prompt to a turn, for any number of         *)
(* commands, calls and Escapes and any kinds of command: the guard and the *)
(* calls are sound, one turn is alive, and no command is forgotten.        *)
(***************************************************************************)
EXTENDS CommandQueue, WellFoundedInduction, FiniteSetTheorems,
        SequenceTheorems, TLAPS

-----------------------------------------------------------------------------
(* What is taken from a queue.  The library's induction theorems cannot be *)
(* used here, so the lemmas argue by a least counterexample.               *)

LEMMA LeastNumber ==
  ASSUME NEW S, S \subseteq Nat, S # {}
  PROVE  \E m \in S : \A n \in S : m <= n
<1>2. PICK R : IsWellFoundedOn(R, Nat) /\ \A x, y \in Nat : y < x => <<y, x>> \in R
  <2>1. \A x, y \in Nat : y < x => <<y, x>> \in OpToRel(<, Nat)
    BY DEF OpToRel
  <2> QED BY <2>1, NatLessThanWellFounded, Zenon
<1>3. PICK m \in S : \A n \in S : ~ (<<n, m>> \in R)
  BY <1>2, WFMin
<1>4. \A n \in S : ~ (n < m)
  BY <1>2, <1>3
<1> QED
  BY <1>4

\* The partial results of Taken.
Extended(q, S, f, i) ==
  IF i = 0 THEN <<>>
  ELSE IF q[i] \in S THEN Append(f[i - 1], q[i]) ELSE f[i - 1]
Partial(q, S, f, n) == f = [i \in 0 .. n |-> Extended(q, S, f, i)]

LEMMA TakenExists ==
  ASSUME NEW q, NEW S, NEW n \in Nat
  PROVE  \E f : Partial(q, S, f, n)
<1> DEFINE Bad == {m \in Nat : ~ \E f : Partial(q, S, f, m)}
<1> SUFFICES ASSUME Bad # {} PROVE FALSE
  OBVIOUS
<1>1. PICK m \in Nat : m \in Bad /\ \A k \in Bad : m <= k
  <2>1. Bad \subseteq Nat
    OBVIOUS
  <2> HIDE DEF Bad
  <2> QED BY <2>1, LeastNumber
<1>2. m # 0
  <2> DEFINE f == [i \in 0 .. 0 |-> <<>>]
  <2>1. Partial(q, S, f, 0)
    BY DEF Partial, Extended
  <2> QED BY <1>1, <2>1
<1>3. m - 1 \in Nat /\ ~ (m <= m - 1)
  BY <1>1, <1>2
<1>4. PICK g : Partial(q, S, g, m - 1)
  BY <1>1, <1>3
<1> DEFINE f == [i \in 0 .. m |-> IF i = m THEN Extended(q, S, g, m) ELSE g[i]]
<1>5. \A i \in 0 .. m : Extended(q, S, f, i) = Extended(q, S, g, i)
  <2>1. \A i \in 0 .. m : i # 0 => i - 1 \in 0 .. m /\ f[i - 1] = g[i - 1]
    BY <1>2, <1>3
  <2> HIDE DEF f
  <2> QED BY <2>1 DEF Extended
<1>6. \A i \in 0 .. m : f[i] = Extended(q, S, g, i)
  <2>1. \A i \in 0 .. m : i # m => i \in 0 .. m - 1
    OBVIOUS
  <2> QED BY <1>4, <2>1 DEF Partial
<1>7. Partial(q, S, f, m)
  <2>1. f = [i \in 0 .. m |-> f[i]]
    OBVIOUS
  <2> HIDE DEF f
  <2> QED BY <1>5, <1>6, <2>1 DEF Partial
<1> QED
  BY <1>1, <1>7

\* What is taken is what the queue has of S.
LEMMA TakenIs ==
  ASSUME NEW X, NEW q \in Seq(X), NEW S
  PROVE  Taken(q, S) \in Seq(X) /\ Members(Taken(q, S)) = Members(q) \cap S
<1> DEFINE First(n) == {q[i] : i \in 1 .. n}
<1>1. PICK f : Partial(q, S, f, Len(q)) /\ Taken(q, S) = f[Len(q)]
  <2> DEFINE u == CHOOSE f : Partial(q, S, f, Len(q))
  <2>1. Taken(q, S) = u[Len(q)]
    BY DEF Taken, Partial, Extended
  <2>2. Partial(q, S, u, Len(q))
    BY TakenExists
  <2> QED BY <2>1, <2>2
<1>2. \A i \in 0 .. Len(q) : f[i] = Extended(q, S, f, i)
  BY <1>1 DEF Partial
<1> DEFINE Bad == {n \in 0 .. Len(q) : ~ (/\ f[n] \in Seq(X)
                                          /\ Members(f[n]) = First(n) \cap S)}
<1>3. Bad = {}
  <2> SUFFICES ASSUME Bad # {} PROVE FALSE
    OBVIOUS
  <2>1. PICK m \in 0 .. Len(q) : m \in Bad /\ \A k \in Bad : m <= k
    <3>1. Bad \subseteq 0 .. Len(q) /\ Bad \subseteq Nat
      OBVIOUS
    <3> HIDE DEF Bad
    <3> QED BY <3>1, LeastNumber
  <2>2. m # 0
    <3>1. f[0] = <<>>
      BY <1>2 DEF Extended
    <3>2. <<>> \in Seq(X) /\ Members(<<>>) = {} /\ First(0) = {}
      BY DEF Members
    <3> QED BY <2>1, <3>1, <3>2
  <2>3. m \in 1 .. Len(q) /\ m - 1 \in 0 .. Len(q) /\ ~ (m <= m - 1)
    BY <2>2
  <2>4. f[m - 1] \in Seq(X) /\ Members(f[m - 1]) = First(m - 1) \cap S
    BY <2>1, <2>3
  <2>5. f[m] = IF q[m] \in S THEN Append(f[m - 1], q[m]) ELSE f[m - 1]
    BY <1>2, <2>3 DEF Extended
  <2>6. First(m) = First(m - 1) \cup {q[m]}
    BY <2>3
  <2>7. q[m] \in X
    BY <2>3
  <2>8. ASSUME NEW s \in Seq(X)
        PROVE  Append(s, q[m]) \in Seq(X) /\ Members(Append(s, q[m])) = Members(s) \cup {q[m]}
    <3>1. /\ Append(s, q[m]) \in Seq(X) /\ Len(Append(s, q[m])) = Len(s) + 1
          /\ \A i \in 1 .. Len(s) : Append(s, q[m])[i] = s[i]
          /\ Append(s, q[m])[Len(s) + 1] = q[m]
      BY <2>7
    <3> QED BY <3>1 DEF Members
  <2> QED BY <2>1, <2>4, <2>5, <2>6, <2>8
<1>4. f[Len(q)] \in Seq(X) /\ Members(f[Len(q)]) = First(Len(q)) \cap S
  <2>1. Len(q) \in 0 .. Len(q)
    OBVIOUS
  <2>2. Len(q) \notin Bad
    <3> HIDE DEF Bad
    <3> QED BY <1>3
  <2> HIDE DEF First
  <2> QED BY <2>1, <2>2
<1>5. Members(q) = First(Len(q))
  BY DEF Members
<1> QED
  BY <1>1, <1>4, <1>5

LEMMA LeftIs ==
  ASSUME NEW X, NEW q \in Seq(X), NEW S
  PROVE  Left(q, S) \in Seq(X) /\ Members(Left(q, S)) = Members(q) \ S
BY TakenIs DEF Left

LEMMA AppendedIs ==
  ASSUME NEW X, NEW q \in Seq(X), NEW x \in X
  PROVE  Append(q, x) \in Seq(X) /\ Members(Append(q, x)) = Members(q) \cup {x}
<1>1. /\ Append(q, x) \in Seq(X) /\ Len(Append(q, x)) = Len(q) + 1
      /\ \A i \in 1 .. Len(q) : Append(q, x)[i] = q[i]
      /\ Append(q, x)[Len(q) + 1] = x
  OBVIOUS
<1> QED BY <1>1 DEF Members

LEMMA SingleIs ==
  ASSUME NEW X, NEW x \in X
  PROVE  <<x>> \in Seq(X) /\ Members(<<x>>) = {x}
BY DEF Members

LEMMA ConcatIs ==
  ASSUME NEW X, NEW q \in Seq(X), NEW r \in Seq(X)
  PROVE  Members(q \o r) = Members(q) \cup Members(r)
<1> DEFINE n == Len(q)
           s == q \o r
<1>1. /\ Len(s) = n + Len(r) /\ n \in Nat /\ Len(r) \in Nat /\ DOMAIN s = 1 .. Len(s)
      /\ DOMAIN q = 1 .. n /\ DOMAIN r = 1 .. Len(r)
      /\ \A i \in 1 .. n : s[i] = q[i]
      /\ \A i \in 1 .. Len(r) : s[n + i] = r[i]
  OBVIOUS
<1>2. \A i \in 1 .. Len(s) : i \in 1 .. n \/ (i - n \in 1 .. Len(r) /\ i = n + (i - n))
  BY <1>1
<1> HIDE DEF s
<1>3. Members(s) \subseteq Members(q) \cup Members(r)
  <2> SUFFICES ASSUME NEW i \in 1 .. Len(s) PROVE s[i] \in Members(q) \cup Members(r)
    BY <1>1 DEF Members
  <2>1. CASE i \in 1 .. n
    BY <1>1, <2>1 DEF Members
  <2>2. CASE i \notin 1 .. n
    <3>1. i - n \in DOMAIN r /\ s[i] = r[i - n]
      BY <1>1, <1>2, <2>2
    <3> QED BY <3>1 DEF Members
  <2> QED BY <2>1, <2>2
<1>4. Members(q) \subseteq Members(s)
  BY <1>1 DEF Members
<1>5. Members(r) \subseteq Members(s)
  <2>1. \A i \in 1 .. Len(r) : n + i \in DOMAIN s /\ s[n + i] = r[i]
    BY <1>1
  <2> QED BY <1>1, <2>1 DEF Members
<1> QED BY <1>3, <1>4, <1>5 DEF s

LEMMA MembersAre ==
  ASSUME NEW X, NEW q \in Seq(X)
  PROVE  Members(q) \subseteq X
BY DEF Members

-----------------------------------------------------------------------------
(* The guard and the calls.                                                *)

Processing(s) == exec[s].pc = "processing"

(* A turn holds a generation of its own.                                   *)
OwnGeneration ==
  /\ \A s \in Slots : Live(s) => exec[s].gen <= generation
  /\ \A s, t \in Slots : Live(s) /\ Live(t) /\ exec[s].gen = exec[t].gen => s = t

(* Somebody holds the guard.                                               *)
HasHolder ==
  /\ status = "running" => \E s \in Slots : Live(s) /\ exec[s].gen = generation
  /\ status = "dispatching" => \E s \in Slots : Processing(s)

GuardInv == TypeOK /\ AgentsApart /\ OwnGeneration /\ HasHolder

(* Until an Escape hits a call that prepares its input, the call that      *)
(* prepares one has reserved the guard, a turn that is not cancelled holds *)
(* it, and both are the call of the controller.                            *)
HolderInControl ==
  ~late => \A s \in Slots :
             /\ Processing(s) => status = "dispatching" /\ ctl = s
             /\ Live(s) /\ ~exec[s].aborted
                  => status = "running" /\ ctl = s /\ exec[s].gen = generation

\* A batch has nothing for a subagent, nor has what a turn attaches.
LEMMA ChosenApart ==
  /\ \A x \in BatchOf(queue) : x.kind # "agent"
  /\ \A sleepRan, allowSystem : \A x \in Attachable(queue, sleepRan, allowSystem) :
       x \in Members(queue) /\ x.kind # "agent"
BY DEF BatchOf, Attachable, IsMainThread

LEMMA NewEntry ==
  ASSUME TypeOK, sent < N, NEW k \in AllKinds
  PROVE  [id |-> sent + 1, kind |-> k] \in Entry /\ sent + 1 \in Commands /\ sent + 1 \in 0 .. N
BY NAssumption DEF TypeOK, Entry, Commands

\* What a call has that ends, begins or goes on.
LEMMA EndedCall ==
  ASSUME NEW a \in BOOLEAN
  PROVE  Free \in Call /\ [Free EXCEPT !.aborted = a] \in Call
<1>1. <<>> \in Seq(Entry)
  OBVIOUS
<1> QED BY <1>1 DEF Free, Call

LEMMA BegunCall ==
  ASSUME NEW q \in Seq(Entry), NEW g \in Nat
  PROVE  /\ [Free EXCEPT !.pc = "processing", !.cmds = q] \in Call
         /\ [Free EXCEPT !.pc = "querying", !.gen = g, !.cmds = q] \in Call
BY DEF Free, Call

LEMMA ChangedCall ==
  ASSUME NEW c \in Call, NEW g \in Nat, NEW S \in SUBSET Entry
  PROVE  /\ [c EXCEPT !.aborted = TRUE] \in Call
         /\ [c EXCEPT !.pc = "querying", !.gen = g] \in Call
         /\ [c EXCEPT !.pc = "draining", !.snap = S] \in Call
         /\ [c EXCEPT !.pc = "querying", !.snap = S] \in Call
BY DEF Call

\* What an input holds.
Apart(c) == \A x \in Members(c.cmds) \cup c.snap : x.kind # "agent"

\* What an action does to the calls: one changes, or two.
Becomes(s, c) == exec' = [exec EXCEPT ![s] = c]

LEMMA CallStep ==
  ASSUME exec \in [Slots -> Call], AgentsApart,
         NEW s \in Slots, NEW c \in Call, Apart(c), Becomes(s, c)
  PROVE  exec' \in [Slots -> Call] /\ AgentsApart'
BY DEF AgentsApart, Apart, Becomes

LEMMA StartStep ==
  ASSUME TypeOK, AgentsApart, NEW s \in Slots, NEW q \in Seq(Entry), Start(s, q),
         \A x \in Members(q) : x.kind # "agent"
  PROVE  /\ exec' \in [Slots -> Call] /\ AgentsApart'
         /\ ctl' = s
         /\ status' \in {"idle", "dispatching", "running"}
<1> DEFINE c == [Free EXCEPT !.pc = "processing", !.cmds = q]
<1>1. c \in Call
  BY BegunCall
<1>2. c.cmds = q /\ c.snap = {}
  BY DEF Free
<1>3. Apart(c)
  BY <1>2 DEF Apart
<1>4. Becomes(s, c)
  BY DEF Start, Becomes
<1> HIDE DEF c
<1> QED BY <1>1, <1>3, <1>4, CallStep DEF Start, TypeOK, Reserved

LEMMA ReleaseStep ==
  ASSUME TypeOK, AgentsApart, NEW s \in Slots, Release(s)
  PROVE  exec' \in [Slots -> Call] /\ AgentsApart'
<1> DEFINE c == [Free EXCEPT !.aborted = exec[s].aborted]
<1>1. exec[s].aborted \in BOOLEAN
  BY DEF TypeOK, Call
<1>2. c \in Call
  BY <1>1, EndedCall
<1>3. c.cmds = <<>> /\ c.snap = {}
  BY DEF Free
<1>4. Apart(c)
  BY <1>3 DEF Apart, Members
<1>5. Becomes(s, c)
  BY DEF Release, Becomes
<1> HIDE DEF c
<1> QED BY <1>2, <1>4, <1>5, CallStep DEF TypeOK

\* Who is said, and who is gone.
LEMMA SayStep ==
  ASSUME TypeOK, NEW S, SayAll(S)
  PROVE  /\ said' \in [Commands -> Nat]
         /\ \A i \in Commands : said'[i] >= said[i] /\ (i \in S => said'[i] > 0)
BY DEF TypeOK, SayAll

LEMMA GoneStep ==
  ASSUME TypeOK, NEW S, NEW why \in Reasons, GoneAll(S, why)
  PROVE  /\ gone' \in [Commands -> SUBSET Reasons]
         /\ \A i \in Commands : /\ gone[i] \subseteq gone'[i]
                                /\ gone'[i] \subseteq gone[i] \cup {why}
                                /\ i \in S => gone'[i] # {}
BY DEF TypeOK, GoneAll

LEMMA TypeStep == TypeOK /\ AgentsApart /\ [Next]_vars => TypeOK' /\ AgentsApart'
<1> SUFFICES ASSUME TypeOK, AgentsApart, [Next]_vars PROVE TypeOK' /\ AgentsApart'
  OBVIOUS
<1>a. /\ exec \in [Slots -> Call] /\ queue \in Seq(Entry) /\ Members(queue) \subseteq Entry
      /\ {"withdrawn", "failed", "purged", "overtaken"} = Reasons
  BY MembersAre DEF TypeOK, Reasons
<1>b. ASSUME NEW s \in Slots
      PROVE  exec[s] \in Call /\ exec[s].cmds \in Seq(Entry) /\ exec[s].snap \in SUBSET Entry
  BY <1>a, <1>b DEF Call
<1>1. CASE Submit
  <2>1. PICK k \in {"prompt", "slash", "bash"} :
          LET x == [id |-> sent + 1, kind |-> k]
          IN  IF ~IsActive THEN (\E s \in Slots : Start(s, <<x>>)) /\ UNCHANGED queue
              ELSE /\ queue' = Append(queue, x)
                   /\ \/ UNCHANGED exec
                      \/ /\ ctl # None
                         /\ exec' = [exec EXCEPT ![ctl].aborted = TRUE]
                   /\ UNCHANGED <<ctl, status>>
    BY <1>1 DEF Submit
  <2> DEFINE x == [id |-> sent + 1, kind |-> k]
  <2>2. x \in Entry /\ x.kind # "agent" /\ sent' \in 0 .. N
    BY <1>1, <2>1, NewEntry DEF Submit, AllKinds
  <2>3. queue' \in Seq(Entry)
    <3>1. queue' = queue \/ queue' = Append(queue, x)
      BY <2>1
    <3> HIDE DEF x
    <3> QED BY <1>a, <2>2, <3>1
  <2>4. exec' \in [Slots -> Call] /\ AgentsApart' /\ ctl' \in Slots \cup {None}
        /\ status' \in {"idle", "dispatching", "running"}
    <3> HIDE DEF x
    <3>1. CASE ~IsActive
      <4>1. PICK s \in Slots : Start(s, <<x>>)
        BY <2>1, <3>1 DEF x
      <4>2. <<x>> \in Seq(Entry) /\ Members(<<x>>) = {x}
        BY <2>2, SingleIs
      <4> QED BY <2>2, <4>1, <4>2, StartStep
    <3>2. CASE IsActive /\ UNCHANGED exec
      BY <1>a, <2>1, <3>2 DEF AgentsApart, TypeOK
    <3>3. CASE IsActive /\ ctl # None /\ exec' = [exec EXCEPT ![ctl].aborted = TRUE]
      <4>1. ctl \in Slots
        BY <3>3 DEF TypeOK
      <4>2. Becomes(ctl, [exec[ctl] EXCEPT !.aborted = TRUE])
        BY <1>a, <3>3, <4>1 DEF Becomes
      <4>3. [exec[ctl] EXCEPT !.aborted = TRUE] \in Call
        BY <1>b, <4>1, ChangedCall
      <4>4. Apart([exec[ctl] EXCEPT !.aborted = TRUE])
        BY <1>b, <4>1 DEF Apart, AgentsApart, Call
      <4> QED BY <1>a, <2>1, <3>3, <4>1, <4>2, <4>3, <4>4, CallStep DEF TypeOK
    <3> QED BY <2>1, <3>1, <3>2, <3>3
  <2> QED BY <1>1, <2>2, <2>3, <2>4 DEF Submit, TypeOK, Notify
<1>2. CASE Notice
  <2>1. PICK k \in {"note", "meta", "agent"} : queue' = Append(queue, [id |-> sent + 1, kind |-> k])
    BY <1>2 DEF Notice
  <2>2. queue' \in Seq(Entry) /\ sent' \in 0 .. N
    BY <1>2, <1>a, <2>1, NewEntry DEF Notice, AllKinds
  <2> QED BY <1>2, <2>2 DEF Notice, TypeOK, AgentsApart, Notify
<1>3. CASE Incoming
  <2> DEFINE x == [id |-> sent + 1, kind |-> "mail"]
             c == [Free EXCEPT !.pc = "querying", !.gen = generation + 1, !.cmds = <<x>>]
  <2>1. x \in Entry /\ x.kind # "agent" /\ sent' \in 0 .. N /\ sent + 1 \in Commands
    BY <1>3, NewEntry DEF Incoming, AllKinds
  <2>2. PICK s \in Slots : Becomes(s, c) /\ ctl' = s
    BY <1>3 DEF Incoming, Becomes
  <2>3. c.cmds = <<x>> /\ c.snap = {}
    BY DEF Free
  <2> HIDE DEF x
  <2>4. <<x>> \in Seq(Entry) /\ Members(<<x>>) = {x} /\ generation + 1 \in Nat
    BY <2>1, SingleIs DEF TypeOK
  <2>5. c \in Call /\ Apart(c)
    BY <2>1, <2>3, <2>4, BegunCall DEF Apart
  <2> HIDE DEF c
  <2> QED BY <1>3, <2>1, <2>2, <2>5, CallStep DEF Incoming, TypeOK, Notify
<1>4. CASE Effect
  <2>1. CASE UNCHANGED <<queue, exec, ctl, status>> /\ due' = FALSE
    BY <1>4, <2>1 DEF Effect, TypeOK, AgentsApart
  <2>2. ASSUME NEW s \in Slots, Start(s, Taken(queue, BatchOf(queue))),
               queue' = Left(queue, BatchOf(queue)), due' = TRUE
        PROVE  TypeOK' /\ AgentsApart'
    <3>1. Taken(queue, BatchOf(queue)) \in Seq(Entry) /\ queue' \in Seq(Entry)
      BY <1>a, <2>2, TakenIs, LeftIs
    <3>2. \A x \in Members(Taken(queue, BatchOf(queue))) : x.kind # "agent"
      BY <1>a, TakenIs, ChosenApart
    <3>3. exec' \in [Slots -> Call] /\ AgentsApart' /\ ctl' = s
          /\ status' \in {"idle", "dispatching", "running"}
      BY <2>2, <3>1, <3>2, StartStep
    <3> QED BY <1>4, <2>2, <3>1, <3>3 DEF Effect, TypeOK
  <2> QED BY <1>4, <2>1, <2>2 DEF Effect
<1>5. ASSUME NEW s \in Slots, Throws(s) PROVE TypeOK' /\ AgentsApart'
  BY <1>5, <1>a, ReleaseStep, GoneStep DEF Throws, TypeOK, Notify, Cancelled
<1>6. ASSUME NEW s \in Slots, RunsLocally(s) PROVE TypeOK' /\ AgentsApart'
  BY <1>6, <1>a, ReleaseStep, SayStep DEF RunsLocally, TypeOK, Notify, Cancelled
<1>7. ASSUME NEW s \in Slots, Overtaken(s) PROVE TypeOK' /\ AgentsApart'
  <2> DEFINE kept == Taken(exec[s].cmds, {x \in Members(exec[s].cmds) : x.kind # "meta"})
             again == [i \in DOMAIN kept |-> [id |-> kept[i].id, kind |-> "prompt"]]
  <2>1. kept \in Seq(Entry)
    BY <1>b, TakenIs
  <2> HIDE DEF kept
  <2>2. again \in Seq(Entry)
    <3>1. \A i \in 1 .. Len(kept) : [id |-> kept[i].id, kind |-> "prompt"] \in Entry
      <4>1. \A i \in 1 .. Len(kept) : kept[i] \in Entry
        BY <2>1
      <4>2. "prompt" \in AllKinds
        BY DEF AllKinds
      <4> QED BY <4>1, <4>2 DEF Entry
    <3>2. DOMAIN kept = 1 .. Len(kept) /\ Len(kept) \in Nat
      BY <2>1
    <3>3. again \in [1 .. Len(kept) -> Entry]
      BY <3>1, <3>2
    <3> HIDE DEF again
    <3> QED BY <3>2, <3>3
  <2>3. queue' = queue \o again
    BY <1>7 DEF Overtaken, kept
  <2>4. queue' \in Seq(Entry)
    BY <1>a, <2>2, <2>3
  <2> QED BY <1>7, <1>a, <2>4, ReleaseStep, GoneStep DEF Overtaken, TypeOK, Notify
<1>8. ASSUME NEW s \in Slots, Asks(s) PROVE TypeOK' /\ AgentsApart'
  <2>1. generation + 1 \in Nat
    BY DEF TypeOK
  <2>2. Becomes(s, [exec[s] EXCEPT !.pc = "querying", !.gen = generation + 1])
    BY <1>8, <1>a DEF Asks, Becomes
  <2>3. [exec[s] EXCEPT !.pc = "querying", !.gen = generation + 1] \in Call
    BY <1>b, <2>1, ChangedCall
  <2>4. Apart([exec[s] EXCEPT !.pc = "querying", !.gen = generation + 1])
    BY <1>b DEF Apart, AgentsApart, Call
  <2> QED BY <1>8, <1>a, <2>1, <2>2, <2>3, <2>4, CallStep, SayStep DEF Asks, TypeOK, Notify
<1>9. ASSUME NEW s \in Slots, Shows(s) PROVE TypeOK' /\ AgentsApart'
  BY <1>9, <1>a, ReleaseStep, SayStep DEF Shows, TypeOK, Notify
<1>10. ASSUME NEW s \in Slots, DrainSelect(s) PROVE TypeOK' /\ AgentsApart'
  <2>1. PICK snap : /\ snap \subseteq Members(queue) /\ \A x \in snap : x.kind # "agent"
                    /\ exec' = [exec EXCEPT ![s].pc = "draining", ![s].snap = snap]
    BY <1>10, ChosenApart DEF DrainSelect
  <2>2. Becomes(s, [exec[s] EXCEPT !.pc = "draining", !.snap = snap])
    BY <1>a, <2>1 DEF Becomes
  <2>3. [exec[s] EXCEPT !.pc = "draining", !.snap = snap] \in Call
    BY <1>a, <1>b, <2>1, ChangedCall
  <2>4. Apart([exec[s] EXCEPT !.pc = "draining", !.snap = snap])
    BY <1>b, <2>1 DEF Apart, AgentsApart, Call
  <2> QED BY <1>10, <1>a, <2>2, <2>3, <2>4, CallStep DEF DrainSelect, TypeOK
<1>11. ASSUME NEW s \in Slots, DrainRemove(s) PROVE TypeOK' /\ AgentsApart'
  <2>1. Becomes(s, [exec[s] EXCEPT !.pc = "querying", !.snap = {}])
    BY <1>11, <1>a DEF DrainRemove, Becomes
  <2>2. [exec[s] EXCEPT !.pc = "querying", !.snap = {}] \in Call
    BY <1>b, ChangedCall
  <2>3. Apart([exec[s] EXCEPT !.pc = "querying", !.snap = {}])
    BY <1>b DEF Apart, AgentsApart, Call
  <2>4. queue' \in Seq(Entry)
    BY <1>11, <1>a, LeftIs DEF DrainRemove
  <2> QED BY <1>11, <1>a, <2>1, <2>2, <2>3, <2>4, CallStep, SayStep DEF DrainRemove, TypeOK, Notify
<1>12. ASSUME NEW s \in Slots, TurnEnds(s) PROVE TypeOK' /\ AgentsApart'
  BY <1>12, <1>a, ReleaseStep DEF TurnEnds, TypeOK, Notify
<1>13. ASSUME PopAllEditable PROVE queue' \in Seq(Entry) /\ gone' \in [Commands -> SUBSET Reasons]
  BY <1>13, <1>a, LeftIs, GoneStep DEF PopAllEditable
<1>14. CASE Escape
  <2>0. escapes' \in 0 .. MaxEscapes
    BY <1>14, MaxEscapesAssumption DEF Escape, TypeOK
  <2>1. CASE CanCancel
    <3>1. ctl \in Slots
      BY <2>1 DEF CanCancel, TypeOK
    <3>2. Becomes(ctl, [exec[ctl] EXCEPT !.aborted = TRUE])
      BY <1>14, <1>a, <2>1, <3>1 DEF Escape, Becomes
    <3>3. [exec[ctl] EXCEPT !.aborted = TRUE] \in Call
      BY <1>b, <3>1, ChangedCall
    <3>4. Apart([exec[ctl] EXCEPT !.aborted = TRUE])
      BY <1>b, <3>1 DEF Apart, AgentsApart, Call
    <3>5. exec' \in [Slots -> Call] /\ AgentsApart'
      BY <1>a, <3>1, <3>2, <3>3, <3>4, CallStep
    <3>6. late' \in BOOLEAN
      BY <1>14, <2>1 DEF Escape, TypeOK
    <3> QED BY <1>14, <2>0, <2>1, <3>5, <3>6 DEF Escape, TypeOK, Notify
  <2>2. CASE ~CanCancel
    BY <1>14, <1>13, <2>0, <2>2 DEF Escape, TypeOK, Notify, AgentsApart
  <2> QED BY <2>1, <2>2
<1>15. CASE PopUp
  BY <1>15, <1>13 DEF PopUp, TypeOK, Notify, AgentsApart
<1>16. CASE OpenUI \/ CloseUI
  BY <1>16 DEF OpenUI, CloseUI, TypeOK, AgentsApart
<1>17. CASE AgentDrains
  BY <1>17, <1>a, LeftIs, SayStep DEF AgentDrains, TypeOK, Notify, AgentsApart
<1>18. CASE AgentEnds
  BY <1>18, <1>a, LeftIs, GoneStep DEF AgentEnds, TypeOK, Notify, AgentsApart
<1>19. CASE UNCHANGED vars
  BY <1>19 DEF vars, TypeOK, AgentsApart
<1> QED BY <1>1, <1>2, <1>3, <1>4, <1>5, <1>6, <1>7, <1>8, <1>9, <1>10, <1>11, <1>12,
           <1>14, <1>15, <1>16, <1>17, <1>18, <1>19 DEF Next

HolderInv == OwnGeneration /\ HasHolder /\ HolderInControl

\* A call that begins to prepare its input has the guard and the controller.
LEMMA HolderStart ==
  ASSUME TypeOK, HolderInv, status = "idle", NEW s \in Slots, NEW q, Start(s, q),
         UNCHANGED <<generation, late>>
  PROVE  HolderInv'
<1>1. /\ exec' = [exec EXCEPT ![s] = [Free EXCEPT !.pc = "processing", !.cmds = q]]
      /\ ctl' = s /\ status' = "dispatching" /\ ~Live(s) /\ exec \in [Slots -> Call]
  BY DEF Start, NextSlot, IsFree, Reserved, Live, TypeOK
<1>2. exec'[s].pc = "processing" /\ \A t \in Slots \ {s} : exec'[t] = exec[t]
  BY <1>1 DEF Free
<1> QED BY <1>1, <1>2 DEF HolderInv, OwnGeneration, HasHolder, HolderInControl, Live, Processing

\* A call that has ended holds nothing.
LEMMA Released ==
  ASSUME TypeOK, NEW s \in Slots, Release(s)
  PROVE  /\ exec'[s].pc = "free" /\ \A t \in Slots \ {s} : exec'[t] = exec[t]
         /\ ~Live(s)' /\ ~Processing(s)'
         /\ \A t \in Slots \ {s} : Live(t)' = Live(t) /\ Processing(t)' = Processing(t)
BY DEF Release, TypeOK, Free, Live, Processing

\* A call whose turn goes on, cancelled or not.
LEMMA Continues ==
  ASSUME TypeOK, HolderInv, UNCHANGED <<status, generation, late>>,
         \A t \in Slots : /\ exec'[t].gen = exec[t].gen
                          /\ Live(t)' = Live(t) /\ Processing(t)' = Processing(t)
                          /\ exec[t].aborted => exec'[t].aborted,
         ctl' = ctl
  PROVE  HolderInv'
BY DEF HolderInv, OwnGeneration, HasHolder, HolderInControl

LEMMA HolderStep == TypeOK /\ HolderInv /\ [Next]_vars => HolderInv'
<1> SUFFICES ASSUME TypeOK, HolderInv, [Next]_vars PROVE HolderInv'
  OBVIOUS
<1>a. exec \in [Slots -> Call] /\ generation \in Nat /\ late \in BOOLEAN
  BY DEF TypeOK
<1>b. \A s \in Slots : exec[s] \in Call /\ exec[s].gen \in Nat /\ exec[s].aborted \in BOOLEAN
  BY <1>a DEF Call
<1>1. CASE Submit
  <2>1. CASE ~IsActive
    BY <1>1, <2>1, HolderStart DEF Submit, IsActive
  <2>2. CASE IsActive
    <3>1. UNCHANGED <<status, generation, late, ctl>>
      BY <1>1, <2>2 DEF Submit
    <3>2. exec' = exec \/ (ctl \in Slots /\ exec' = [exec EXCEPT ![ctl].aborted = TRUE])
      BY <1>1, <2>2 DEF Submit, TypeOK
    <3>3. \A t \in Slots : /\ exec'[t].gen = exec[t].gen /\ exec'[t].pc = exec[t].pc
                           /\ exec[t].aborted => exec'[t].aborted
      <4>1. CASE exec' = exec
        BY <4>1
      <4>2. CASE ctl \in Slots /\ exec' = [exec EXCEPT ![ctl].aborted = TRUE]
        BY <1>a, <1>b, <4>2 DEF Call
      <4> QED BY <3>2, <4>1, <4>2
    <3> QED BY <3>1, <3>3, Continues DEF Live, Processing
  <2> QED BY <2>1, <2>2
<1>2. CASE Notice \/ PopUp \/ OpenUI \/ CloseUI \/ AgentDrains \/ AgentEnds \/ UNCHANGED vars
  <2>1. UNCHANGED <<exec, status, generation, late, ctl>>
    BY <1>2 DEF Notice, PopUp, OpenUI, CloseUI, AgentDrains, AgentEnds, vars
  <2> QED BY <2>1, Continues DEF Live, Processing
<1>3. CASE Incoming
  <2>1. PICK s \in Slots :
          /\ ~Live(s)
          /\ exec' = [exec EXCEPT ![s] =
                 [Free EXCEPT !.pc = "querying", !.gen = generation + 1,
                              !.cmds = <<[id |-> sent + 1, kind |-> "mail"]>>]]
          /\ ctl' = s
    BY <1>3 DEF Incoming, NextSlot, IsFree, Live
  <2>2. /\ exec'[s].pc = "querying" /\ exec'[s].gen = generation + 1
        /\ \A t \in Slots \ {s} : exec'[t] = exec[t]
    BY <1>a, <2>1 DEF Free
  <2>3. status = "idle" /\ status' = "running" /\ generation' = generation + 1 /\ late' = late
    BY <1>3 DEF Incoming, IsActive
  <2> QED BY <1>a, <1>b, <2>1, <2>2, <2>3
       DEF HolderInv, OwnGeneration, HasHolder, HolderInControl, Live, Processing
<1>4. CASE Effect
  <2>1. CASE UNCHANGED <<queue, exec, ctl, status>>
    BY <1>4, <2>1, Continues DEF Effect, Live, Processing
  <2>2. CASE ~UNCHANGED <<queue, exec, ctl, status>>
    BY <1>4, <2>2, HolderStart DEF Effect, IsActive
  <2> QED BY <2>1, <2>2
<1>5. ASSUME NEW s \in Slots, Throws(s) \/ RunsLocally(s) PROVE HolderInv'
  <2>1. /\ Processing(s) /\ Release(s) /\ status' = Cancelled(status)
        /\ ctl' \in {ctl, None} /\ UNCHANGED <<generation, late>>
    BY <1>5 DEF Throws, RunsLocally, Processing
  <2> QED BY <1>a, <1>b, <2>1, Released
       DEF HolderInv, OwnGeneration, HasHolder, HolderInControl, Live, Processing, Cancelled
<1>6. ASSUME NEW s \in Slots, Overtaken(s) PROVE HolderInv'
  <2>1. /\ Processing(s) /\ Release(s) /\ status = "running"
        /\ UNCHANGED <<status, ctl, generation, late>>
    BY <1>6 DEF Overtaken, Processing
  <2> QED BY <1>a, <1>b, <2>1, Released
       DEF HolderInv, OwnGeneration, HasHolder, HolderInControl, Live, Processing
<1>7. ASSUME NEW s \in Slots, Asks(s) PROVE HolderInv'
  <2>1. /\ Processing(s) /\ status' = "running" /\ generation' = generation + 1
        /\ exec' = [exec EXCEPT ![s].pc = "querying", ![s].gen = generation + 1]
        /\ UNCHANGED <<ctl, late>>
    BY <1>7 DEF Asks, Processing
  <2>2. /\ exec'[s].pc = "querying" /\ exec'[s].gen = generation + 1
        /\ \A t \in Slots \ {s} : exec'[t] = exec[t]
    BY <1>a, <1>b, <2>1 DEF Call
  <2> QED BY <1>a, <1>b, <2>1, <2>2
       DEF HolderInv, OwnGeneration, HasHolder, HolderInControl, Live, Processing
<1>8. ASSUME NEW s \in Slots, Shows(s) PROVE HolderInv'
  <2>1. /\ Processing(s) /\ Release(s) /\ status # "running" /\ status' = "idle"
        /\ generation' = generation + 1 /\ ctl' = None /\ late' = late
    BY <1>8 DEF Shows, Processing
  <2> QED BY <1>a, <1>b, <2>1, Released
       DEF HolderInv, OwnGeneration, HasHolder, HolderInControl, Live, Processing
<1>9. ASSUME NEW s \in Slots, DrainSelect(s) \/ DrainRemove(s) PROVE HolderInv'
  <2>1. PICK snap : \/ exec' = [exec EXCEPT ![s].pc = "draining", ![s].snap = snap]
                    \/ exec' = [exec EXCEPT ![s].pc = "querying", ![s].snap = snap]
    BY <1>9 DEF DrainSelect, DrainRemove
  <2>2. exec[s].pc \in {"querying", "draining"} /\ UNCHANGED <<status, generation, late, ctl>>
    BY <1>9 DEF DrainSelect, DrainRemove
  <2>3. /\ exec'[s].pc \in {"querying", "draining"} /\ exec'[s].gen = exec[s].gen /\ exec'[s].aborted = exec[s].aborted
        /\ \A t \in Slots \ {s} : exec'[t] = exec[t]
    BY <1>a, <1>b, <2>1 DEF Call
  <2> QED BY <2>2, <2>3, Continues DEF Live, Processing
<1>10. ASSUME NEW s \in Slots, TurnEnds(s) PROVE HolderInv'
  <2>1. /\ Live(s) /\ ~Processing(s) /\ Release(s) /\ UNCHANGED <<generation, late>>
        /\ IF Owns(s) THEN status' = "idle" /\ ctl' = None ELSE UNCHANGED <<status, ctl>>
    BY <1>10 DEF TurnEnds, Live, Processing
  <2> QED BY <1>a, <1>b, <2>1, Released
       DEF HolderInv, OwnGeneration, HasHolder, HolderInControl, Live, Processing, Owns
<1>11. CASE Escape
  <2>1. CASE ~CanCancel
    <3>1. UNCHANGED <<exec, status, generation, late, ctl>>
      BY <1>11, <2>1 DEF Escape
    <3> QED BY <3>1, Continues DEF Live, Processing
  <2>2. CASE CanCancel
    <3>1. /\ ctl \in Slots /\ status' = "idle" /\ generation' \in {generation, generation + 1}
          /\ exec' = [exec EXCEPT ![ctl].aborted = TRUE] /\ ctl' = None
          /\ late' = (late \/ \E s \in Slots : Processing(s))
      BY <1>11, <2>2 DEF Escape, CanCancel, TypeOK, Processing
    <3>2. /\ \A t \in Slots : exec'[t].pc = exec[t].pc /\ exec'[t].gen = exec[t].gen
          /\ exec'[ctl].aborted /\ \A t \in Slots \ {ctl} : exec'[t] = exec[t]
      BY <1>a, <1>b, <3>1 DEF Call
    <3>3. \A t \in Slots : Live(t)' = Live(t) /\ Processing(t)' = Processing(t)
      BY <3>2 DEF Live, Processing
    <3>4. OwnGeneration'
      BY <1>a, <1>b, <3>1, <3>2, <3>3 DEF HolderInv, OwnGeneration
    <3>5. HasHolder'
      BY <3>1 DEF HasHolder
    <3>6. HolderInControl'
      <4> SUFFICES ASSUME ~late', NEW t \in Slots
                   PROVE  ~Processing(t)' /\ ~(Live(t)' /\ ~exec'[t].aborted)
        BY DEF HolderInControl
      <4>1. ~late /\ ~Processing(t)
        BY <1>a, <3>1
      <4>2. Live(t) /\ ~exec[t].aborted => t = ctl
        BY <4>1 DEF HolderInv, HolderInControl
      <4> QED BY <3>2, <3>3, <4>1, <4>2
    <3> QED BY <3>4, <3>5, <3>6 DEF HolderInv
  <2> QED BY <2>1, <2>2
<1> QED BY <1>1, <1>2, <1>3, <1>4, <1>5, <1>6, <1>7, <1>8, <1>9, <1>10, <1>11 DEF Next

-----------------------------------------------------------------------------
(* Nothing is forgotten.                                                   *)

Waits(i) == i \in Ids(Members(queue))
HeldBy(i, s) == Processing(s) /\ i \in Ids(Members(exec[s].cmds))
Kept(i) == Waits(i) \/ (\E s \in Slots : HeldBy(i, s)) \/ said[i] > 0 \/ gone[i] # {}

(* A call that finds a turn running when it has prepared its input was hit *)
(* by an Escape.                                                           *)
OvertakenIsLate == \A i \in Commands : "overtaken" \in gone[i] => late

KeptInv == OvertakenIsLate /\ \A i \in 1 .. sent : Kept(i)

\* What is said or gone stays so; who waits or is held has to be looked at.
LEMMA StaysKept ==
  ASSUME TypeOK, NEW i \in Commands, Kept(i), Waits(i) => Kept(i)',
         \A s \in Slots : HeldBy(i, s) => Kept(i)',
         said' = said \/ \E S : SayAll(S),
         gone' = gone \/ \E S : \E why \in Reasons : GoneAll(S, why)
  PROVE  Kept(i)'
<1>1. said[i] > 0 => said'[i] > 0
  BY SayStep DEF TypeOK
<1>2. gone[i] # {} => gone'[i] # {}
  BY GoneStep DEF TypeOK
<1> QED BY <1>1, <1>2 DEF Kept

\* The queue after something was taken out of it.
LEMMA LeftWaits ==
  ASSUME TypeOK, NEW S, queue' = Left(queue, S), NEW i, Waits(i)
  PROVE  Waits(i)' \/ i \in Ids(S)
<1>1. Members(queue') = Members(queue) \ S
  BY LeftIs DEF TypeOK
<1> QED BY <1>1 DEF Waits, Ids

\* A call that is not s holds what it held.
LEMMA HeldByOthers ==
  ASSUME TypeOK, NEW s \in Slots, NEW i, NEW t \in Slots, HeldBy(i, t), t # s,
         exec'[t] = exec[t]
  PROVE  Kept(i)'
BY DEF Kept, HeldBy, Processing

LEMMA HeldBySame ==
  ASSUME TypeOK, NEW i, NEW t \in Slots, HeldBy(i, t),
         exec'[t].pc = exec[t].pc, exec'[t].cmds = exec[t].cmds
  PROVE  Kept(i)'
BY DEF Kept, HeldBy, Processing

LEMMA StartHolds ==
  ASSUME TypeOK, NEW s \in Slots, NEW q, Start(s, q)
  PROVE  /\ \A i \in Ids(Members(q)) : Kept(i)'
         /\ \A t \in Slots : Processing(t) => t # s /\ exec'[t] = exec[t]
<1>1. /\ exec' = [exec EXCEPT ![s] = [Free EXCEPT !.pc = "processing", !.cmds = q]]
      /\ exec \in [Slots -> Call] /\ ~Processing(s)
  BY DEF Start, NextSlot, IsFree, TypeOK, Processing
<1>2. exec'[s].pc = "processing" /\ exec'[s].cmds = q
  BY <1>1 DEF Free
<1> QED BY <1>1, <1>2 DEF Kept, HeldBy, Processing

LEMMA KeptStep == TypeOK /\ HolderInv /\ KeptInv /\ [Next]_vars => KeptInv'
<1> SUFFICES ASSUME TypeOK, HolderInv, KeptInv, [Next]_vars PROVE KeptInv'
  OBVIOUS
<1>a. /\ exec \in [Slots -> Call] /\ sent \in 0 .. N /\ N \in Nat
      /\ queue \in Seq(Entry) /\ Members(queue) \subseteq Entry
      /\ \A s \in Slots : Members(exec[s].cmds) \subseteq Entry
      /\ {"withdrawn", "failed", "purged", "overtaken"} = Reasons
  BY NAssumption, MembersAre DEF TypeOK, Call, Reasons
<1>b. \A i \in 1 .. sent : i \in Commands /\ Kept(i)
  BY <1>a DEF KeptInv, Commands
\* A step that submits nothing, and whose reason is not that of Overtaken.
<1>c. ASSUME sent' = sent, late => late',
             said' = said \/ \E S : SayAll(S),
             gone' = gone \/ \E S : \E why \in {"withdrawn", "failed", "purged"} : GoneAll(S, why),
             \A i \in Commands : Waits(i) => Kept(i)',
             \A i \in Commands : \A s \in Slots : HeldBy(i, s) => Kept(i)'
      PROVE  KeptInv'
  <2>1. \A i \in Commands : "overtaken" \in gone'[i] => "overtaken" \in gone[i]
    BY <1>c, GoneStep, <1>a DEF TypeOK
  <2>2. gone' = gone \/ \E S : \E why \in Reasons : GoneAll(S, why)
    BY <1>a, <1>c
  <2>3. \A i \in Commands : Kept(i) => Kept(i)'
    BY <1>c, <2>2, StaysKept
  <2> QED BY <1>b, <1>c, <2>1, <2>3 DEF KeptInv, OvertakenIsLate
<1>1. CASE Submit \/ Notice
  <2>1. PICK k \in AllKinds :
          \/ (\E s \in Slots : Start(s, <<[id |-> sent + 1, kind |-> k]>>)) /\ queue' = queue
          \/ /\ queue' = Append(queue, [id |-> sent + 1, kind |-> k])
             /\ \/ exec' = exec
                \/ ctl # None /\ exec' = [exec EXCEPT ![ctl].aborted = TRUE]
    BY <1>1 DEF Submit, Notice, AllKinds
  <2> DEFINE x == [id |-> sent + 1, kind |-> k]
  <2>2. /\ x \in Entry /\ x.id = sent + 1 /\ sent + 1 \in Commands /\ sent' = sent + 1
        /\ UNCHANGED <<said, gone, late>>
    BY <1>1, NewEntry DEF Submit, Notice
  <2>3. \A i \in Commands : Waits(i) => Waits(i)'
    <3>1. queue' = queue \/ Members(queue') = Members(queue) \cup {x}
      BY <1>a, <2>1, <2>2, AppendedIs
    <3> QED BY <3>1 DEF Waits, Ids
  <2>4. \A i \in Commands : \A t \in Slots : HeldBy(i, t) => Kept(i)'
    <3>1. ASSUME NEW s \in Slots, Start(s, <<x>>), NEW i \in Commands, NEW t \in Slots, HeldBy(i, t)
          PROVE  Kept(i)'
      BY <3>1, StartHolds, HeldByOthers DEF HeldBy
    <3>2. ASSUME exec' = exec \/ (ctl # None /\ exec' = [exec EXCEPT ![ctl].aborted = TRUE])
          PROVE  \A t \in Slots : exec'[t].pc = exec[t].pc /\ exec'[t].cmds = exec[t].cmds
      <4>1. CASE exec' = exec
        BY <4>1
      <4>2. CASE ctl # None /\ exec' = [exec EXCEPT ![ctl].aborted = TRUE]
        BY <1>a, <4>2 DEF Call, TypeOK
      <4> QED BY <3>2, <4>1, <4>2
    <3> QED BY <2>1, <3>1, <3>2, HeldBySame
  <2>0. PICK n \in Commands : n = sent + 1
    BY <2>2
  <2>5. Kept(n)'
    <3> HIDE DEF x
    <3>1. CASE \E s \in Slots : Start(s, <<x>>)
      <4>1. Members(<<x>>) = {x}
        BY <2>2, SingleIs
      <4>2. n \in Ids(Members(<<x>>))
        BY <2>0, <2>2, <4>1 DEF Ids
      <4> QED BY <3>1, <4>2, StartHolds
    <3>2. CASE queue' = Append(queue, x)
      <4>1. Members(queue') = Members(queue) \cup {x}
        BY <1>a, <2>2, <3>2, AppendedIs
      <4> QED BY <2>0, <2>2, <4>1 DEF Kept, Waits, Ids
    <3> QED BY <2>1, <3>1, <3>2 DEF x
  <2>6. \A i \in 1 .. sent : Kept(i)'
    BY <1>b, <2>2, <2>3, <2>4, StaysKept DEF Kept
  <2>7. \A i \in 1 .. sent' : i \in 1 .. sent \/ i = n
    BY <1>a, <2>0, <2>2
  <2>8. \A i \in 1 .. sent' : Kept(i)'
    BY <2>5, <2>6, <2>7
  <2> QED BY <2>2, <2>8 DEF KeptInv, OvertakenIsLate
<1>2. CASE Incoming
  <2>1. PICK s \in Slots : ~Processing(s) /\ \A t \in Slots \ {s} : exec'[t] = exec[t]
    BY <1>2, <1>a DEF Incoming, NextSlot, IsFree, Processing
  <2>2. /\ sent + 1 \in Commands /\ sent' = sent + 1 /\ UNCHANGED <<queue, gone, late>>
        /\ said' = [said EXCEPT ![sent + 1] = @ + 1]
    BY <1>2, <1>a DEF Incoming, Commands
  <2>3. \A i \in Commands : said'[i] >= said[i] /\ said'[sent + 1] > 0
    BY <2>2 DEF TypeOK
  <2>4. \A i \in Commands : \A t \in Slots : HeldBy(i, t) => HeldBy(i, t)'
    BY <2>1 DEF HeldBy, Processing
  <2>5. \A i \in Commands : said[i] \in Nat /\ said'[i] \in Nat
    BY <2>2 DEF TypeOK
  <2>6. \A i \in Commands : Kept(i) => Kept(i)'
    BY <2>2, <2>3, <2>4, <2>5 DEF Kept, Waits
  <2>0. PICK n \in Commands : n = sent + 1
    BY <2>2
  <2>7. Kept(n)'
    BY <2>0, <2>3 DEF Kept
  <2>8. \A i \in 1 .. sent' : i \in 1 .. sent \/ i = n
    BY <1>a, <2>0, <2>2
  <2>9. \A i \in 1 .. sent' : Kept(i)'
    BY <1>b, <2>6, <2>7, <2>8
  <2> QED BY <2>2, <2>9 DEF KeptInv, OvertakenIsLate
<1>3. CASE Effect
  <2>1. UNCHANGED <<sent, late, said, gone>>
    BY <1>3 DEF Effect
  <2>2. CASE UNCHANGED <<queue, exec, ctl, status>>
    BY <1>c, <2>1, <2>2, HeldBySame DEF Kept, Waits
  <2>3. ASSUME NEW s \in Slots, Start(s, Taken(queue, BatchOf(queue))),
               queue' = Left(queue, BatchOf(queue))
        PROVE  KeptInv'
    <3>1. Members(Taken(queue, BatchOf(queue))) = Members(queue) \cap BatchOf(queue)
      BY <1>a, TakenIs
    <3>2. Members(queue') = Members(queue) \ BatchOf(queue)
      BY <1>a, <2>3, LeftIs
    <3>3. \A i \in Commands : Waits(i) => Kept(i)'
      <4>1. \A i \in Commands : Waits(i) =>
              Waits(i)' \/ i \in Ids(Members(Taken(queue, BatchOf(queue))))
        BY <3>1, <3>2 DEF Waits, Ids
      <4> QED BY <2>3, <4>1, StartHolds DEF Kept
    <3>4. \A i \in Commands : \A t \in Slots : HeldBy(i, t) => Kept(i)'
      BY <2>3, StartHolds, HeldByOthers DEF HeldBy
    <3> QED BY <1>c, <2>1, <3>3, <3>4
  <2> QED BY <1>3, <2>2, <2>3 DEF Effect
\* A call that has ended: all it held is said or gone, or waits again.
<1>4. ASSUME NEW s \in Slots, Release(s), NEW i \in Commands,
             i \in Ids(Members(exec[s].cmds)) => Kept(i)', NEW t \in Slots, HeldBy(i, t)
      PROVE  Kept(i)'
  BY <1>4, Released, HeldByOthers DEF HeldBy
<1>5. ASSUME NEW S, SayAll(S) \/ \E why \in Reasons : GoneAll(S, why), NEW i \in Commands, i \in S
      PROVE  Kept(i)'
  BY <1>5, SayStep, GoneStep DEF Kept
<1>6. ASSUME NEW s \in Slots, Throws(s) \/ RunsLocally(s) \/ Shows(s) PROVE KeptInv'
  <2> DEFINE S == Ids(Members(exec[s].cmds))
  <2>1. /\ Release(s) /\ UNCHANGED <<sent, queue, late>>
        /\ \/ GoneAll(S, "failed") /\ said' = said
           \/ SayAll(S) /\ gone' = gone
    BY <1>6 DEF Throws, RunsLocally, Shows
  <2>2. \A i \in Commands : i \in S => Kept(i)'
    BY <1>5, <2>1, <1>a
  <2>3. \A i \in Commands : \A t \in Slots : HeldBy(i, t) => Kept(i)'
    BY <1>4, <2>1, <2>2
  <2> QED BY <1>c, <2>1, <2>3 DEF Kept, Waits
<1>7. ASSUME NEW s \in Slots, Overtaken(s) PROVE KeptInv'
  <2> DEFINE cmds == exec[s].cmds
             kept == Taken(cmds, {x \in Members(cmds) : x.kind # "meta"})
             again == [i \in DOMAIN kept |-> [id |-> kept[i].id, kind |-> "prompt"]]
             meta == {x.id : x \in {y \in Members(cmds) : y.kind = "meta"}}
  <2>1. late
    BY <1>7 DEF Overtaken, HolderInv, HolderInControl, Processing
  <2>2. /\ queue' = queue \o again /\ GoneAll(meta, "overtaken") /\ Release(s)
        /\ UNCHANGED <<sent, late, said>>
    BY <1>7 DEF Overtaken
  <2>3. cmds \in Seq(Entry)
    BY <1>a DEF Call
  <2>4. kept \in Seq(Entry) /\ Members(kept) = {x \in Members(cmds) : x.kind # "meta"}
    BY <2>3, TakenIs
  <2>5. /\ DOMAIN again = DOMAIN kept /\ \A i \in DOMAIN kept : again[i].id = kept[i].id
        /\ again \in Seq({again[i] : i \in DOMAIN kept})
    <3> HIDE DEF kept
    <3>1. DOMAIN kept = 1 .. Len(kept) /\ Len(kept) \in Nat
      BY <2>4
    <3>2. again \in [1 .. Len(kept) -> {again[i] : i \in DOMAIN kept}]
      BY <3>1
    <3> QED BY <3>1, <3>2
  <2>6. Members(queue') = Members(queue) \cup Members(again)
    <3> HIDE DEF again, kept
    <3> DEFINE X == Entry \cup {again[i] : i \in DOMAIN kept}
    <3>1. queue \in Seq(X) /\ again \in Seq(X)
      BY <1>a, <2>5, SeqMonotonic
    <3> QED BY <2>2, <3>1, ConcatIs
  <2>7. \A i : Waits(i) => Waits(i)'
    BY <2>6 DEF Waits, Ids
  <2>8. ASSUME NEW i \in Commands, i \in Ids(Members(cmds)) PROVE Kept(i)'
    <3>1. i \in meta \/ i \in Ids(Members(kept))
      BY <2>4, <2>8 DEF Ids
    <3>4. i \in Ids(Members(kept)) => i \in Ids(Members(again))
      <4> HIDE DEF again, kept
      <4> QED BY <2>5 DEF Ids, Members
    <3>2. CASE i \in meta
      BY <1>5, <1>a, <2>2, <3>2
    <3>3. CASE i \in Ids(Members(again))
      BY <2>6, <3>3 DEF Kept, Waits, Ids
    <3> QED BY <3>1, <3>2, <3>3, <3>4
  <2>9. \A i \in Commands : \A t \in Slots : HeldBy(i, t) => Kept(i)'
    BY <1>4, <2>2, <2>8
  <2> HIDE DEF meta, again, kept, cmds
  <2>10. \A i \in Commands : Kept(i) => Kept(i)'
    BY <1>a, <2>2, <2>7, <2>9, StaysKept DEF Kept
  <2> QED BY <1>b, <2>1, <2>2, <2>10 DEF KeptInv, OvertakenIsLate
<1>8. ASSUME NEW s \in Slots, Asks(s) PROVE KeptInv'
  <2>1. /\ exec' = [exec EXCEPT ![s].pc = "querying", ![s].gen = generation + 1]
        /\ SayAll(Ids(Members(exec[s].cmds))) /\ UNCHANGED <<sent, queue, late, gone>>
    BY <1>8 DEF Asks
  <2>2. ASSUME NEW i \in Commands, NEW t \in Slots, HeldBy(i, t) PROVE Kept(i)'
    <3>1. CASE t = s
      BY <1>5, <2>1, <2>2, <3>1 DEF HeldBy
    <3>2. CASE t # s
      BY <1>a, <2>1, <2>2, <3>2, HeldByOthers
    <3> QED BY <3>1, <3>2
  <2> QED BY <1>c, <2>1, <2>2 DEF Kept, Waits
<1>9. ASSUME NEW s \in Slots, DrainSelect(s) \/ TurnEnds(s) PROVE KeptInv'
  <2>1. ~Processing(s) /\ UNCHANGED <<sent, queue, late, said, gone>>
    BY <1>9 DEF DrainSelect, TurnEnds, Processing
  <2>2. \A t \in Slots \ {s} : exec'[t] = exec[t]
    BY <1>9, <1>a DEF DrainSelect, TurnEnds, Release
  <2>3. \A i \in Commands : \A t \in Slots : HeldBy(i, t) => Kept(i)'
    BY <2>1, <2>2, HeldByOthers DEF HeldBy
  <2> QED BY <1>c, <2>1, <2>3 DEF Kept, Waits
<1>10. ASSUME NEW s \in Slots, DrainRemove(s) PROVE KeptInv'
  <2>1. /\ ~Processing(s) /\ queue' = Left(queue, exec[s].snap) /\ SayAll(Ids(exec[s].snap))
        /\ UNCHANGED <<sent, late, gone>>
    BY <1>10 DEF DrainRemove, Processing
  <2>2. \A t \in Slots \ {s} : exec'[t] = exec[t]
    BY <1>10, <1>a DEF DrainRemove
  <2>3. \A i \in Commands : \A t \in Slots : HeldBy(i, t) => Kept(i)'
    BY <2>1, <2>2, HeldByOthers DEF HeldBy
  <2>4. \A i \in Commands : Waits(i) => Kept(i)'
    BY <1>5, <2>1, LeftWaits DEF Kept
  <2> QED BY <1>c, <2>1, <2>3, <2>4
<1>11. ASSUME PopAllEditable, UNCHANGED <<sent, late, said>>, UNCHANGED exec
       PROVE  KeptInv'
  <2>1. PICK S : queue' = Left(queue, S) /\ GoneAll(Ids(S), "withdrawn")
    BY <1>11 DEF PopAllEditable
  <2>2. \A i \in Commands : Waits(i) => Kept(i)'
    BY <1>5, <1>a, <2>1, LeftWaits DEF Kept
  <2> QED BY <1>c, <1>11, <2>1, <2>2, HeldBySame
<1>12. CASE Escape
  <2>1. CASE ~CanCancel
    BY <1>11, <1>12, <2>1 DEF Escape
  <2>2. CASE CanCancel
    <3>1. /\ exec' = [exec EXCEPT ![ctl].aborted = TRUE] /\ (late => late')
          /\ UNCHANGED <<sent, queue, said, gone>>
      BY <1>12, <2>2 DEF Escape
    <3>2. \A t \in Slots : exec'[t].pc = exec[t].pc /\ exec'[t].cmds = exec[t].cmds
      BY <1>a, <3>1 DEF Call
    <3> QED BY <1>c, <3>1, <3>2, HeldBySame DEF Kept, Waits
  <2> QED BY <2>1, <2>2
<1>13. CASE PopUp
  BY <1>11, <1>13 DEF PopUp
<1>14. CASE OpenUI \/ CloseUI \/ UNCHANGED vars
  <2>1. UNCHANGED <<exec, sent, queue, late, said, gone>>
    BY <1>14 DEF OpenUI, CloseUI, vars
  <2> QED BY <1>c, <2>1, HeldBySame DEF Kept, Waits
<1>15. CASE AgentDrains \/ AgentEnds
  <2>1. PICK S : /\ queue' = Left(queue, S) /\ UNCHANGED <<exec, sent, late>>
                 /\ \/ SayAll(Ids(S)) /\ gone' = gone
                    \/ GoneAll(Ids(S), "purged") /\ said' = said
    BY <1>15 DEF AgentDrains, AgentEnds
  <2>2. \A i \in Commands : Waits(i) => Kept(i)'
    BY <1>5, <1>a, <2>1, LeftWaits DEF Kept
  <2> QED BY <1>c, <2>1, <2>2, HeldBySame
<1> QED BY <1>1, <1>2, <1>3, <1>6, <1>7, <1>8, <1>9, <1>10, <1>12, <1>13, <1>14, <1>15 DEF Next

-----------------------------------------------------------------------------
QueueInv == TypeOK /\ AgentsApart /\ HolderInv /\ KeptInv

LEMMA QueueInit == Init => QueueInv
<1> SUFFICES ASSUME Init PROVE QueueInv
  OBVIOUS
<1>1. TypeOK
  <2>1. Free \in Call
    BY EndedCall
  <2>2. <<>> \in Seq(Entry)
    OBVIOUS
  <2>3. exec \in [Slots -> Call] /\ queue \in Seq(Entry) /\ sent \in 0 .. N /\ escapes \in 0 .. MaxEscapes
    BY <2>1, <2>2, NAssumption, MaxEscapesAssumption DEF Init
  <2>4. said \in [Commands -> Nat] /\ gone \in [Commands -> SUBSET Reasons] /\ generation \in Nat
    BY DEF Init
  <2> QED BY <2>3, <2>4 DEF Init, TypeOK, None
<1>2. AgentsApart
  BY DEF Init, AgentsApart, Free, Members
<1>3. HolderInv
  BY DEF Init, HolderInv, OwnGeneration, HasHolder, HolderInControl, Live, Processing, Free
<1>4. KeptInv
  BY DEF Init, KeptInv, OvertakenIsLate
<1> QED BY <1>1, <1>2, <1>3, <1>4 DEF QueueInv

LEMMA QueueAlways == Spec => []QueueInv
<1>1. QueueInv /\ [Next]_vars => QueueInv'
  BY TypeStep, HolderStep, KeptStep DEF QueueInv
<1> QED BY QueueInit, <1>1, PTL DEF Spec

\* The guard is never held by nobody, and by one turn at most, however many
\* calls a cancelled turn leaves behind; no call of the main thread has what is
\* for a subagent.
THEOREM CallsAreSound == Spec => []CallsSound
<1>1. QueueInv => CallsSound
  <2> SUFFICES ASSUME QueueInv PROVE CallsSound
    OBVIOUS
  <2>1. ASSUME status = "running"
        PROVE  Cardinality({s \in Slots : Live(s) /\ exec[s].gen = generation}) = 1
    <3>1. PICK u \in Slots : Live(u) /\ exec[u].gen = generation
      BY <2>1 DEF QueueInv, HolderInv, HasHolder
    <3>2. {s \in Slots : Live(s) /\ exec[s].gen = generation} = {u}
      BY <3>1 DEF QueueInv, HolderInv, OwnGeneration
    <3> QED BY <3>2, FS_Singleton
  <2> QED BY <2>1 DEF QueueInv, HolderInv, HasHolder, CallsSound, GuardHeld, Processing
<1> QED BY QueueAlways, <1>1, PTL

\* Until an Escape hits a call that prepares its input, one turn at most is
\* alive that nobody cancelled, and Escape reaches it.
THEOREM OneTurnIsAlive == Spec => []OneLiveTurn
<1>1. QueueInv => OneLiveTurn
  BY DEF QueueInv, HolderInv, HolderInControl, OneLiveTurn
<1> QED BY QueueAlways, <1>1, PTL

\* Every command that was submitted waits, is held by a call, was said, or is
\* gone for one of the reasons the user can see.
THEOREM NothingIsForgotten == Spec => []NothingForgotten
<1>1. QueueInv => NothingForgotten
  <2> SUFFICES ASSUME QueueInv, NEW i \in 1 .. sent
               PROVE  /\ Kept(i)
                      /\ "overtaken" \in gone[i] => late
    BY DEF NothingForgotten, Kept, Waits, HeldBy, Processing
  <2>1. i \in Commands
    BY NAssumption DEF QueueInv, TypeOK, Commands
  <2> QED BY <2>1 DEF QueueInv, KeptInv, OvertakenIsLate
<1> QED BY QueueAlways, <1>1, PTL
=============================================================================
