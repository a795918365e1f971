--------------------------- MODULE UploaderProofs ---------------------------
(***************************************************************************)
(* Proofs about the two uploaders of a remote session.                     *)
(*                                                                         *)
(* The event uploader, for any callers, programs, limits and sizes:        *)
(* nothing is misplaced, the queue is bounded, who waits is served, and a  *)
(* closed uploader begins no send.                                         *)
(*                                                                         *)
(* The uploader of the worker's state (at the end), for any keys, values   *)
(* and reports: the patches lead to the latest state, and it implements    *)
(* WorkerState.                                                            *)
(***************************************************************************)
EXTENDS SerialBatchEventUploader, WorkerStateUploader,
        WellFoundedInduction, SequenceTheorems, TLAPS

-----------------------------------------------------------------------------
(* Induction without the library's induction theorems, which cannot be     *)
(* used here: a set of numbers has a least one.                            *)

LEMMA LeastNumber ==
  ASSUME NEW S, S \subseteq Nat, S # {}
  PROVE  \E m \in S : \A n \in S : m <= n
<1>1. PICK R : IsWellFoundedOn(R, Nat) /\ \A x, y \in Nat : y < x => <<y, x>> \in R
  <2>1. \A x, y \in Nat : y < x => <<y, x>> \in OpToRel(<, Nat)
    BY DEF OpToRel
  <2> QED BY <2>1, NatLessThanWellFounded, Zenon
<1>2. PICK m \in S : \A n \in S : ~ (<<n, m>> \in R)
  BY <1>1, WFMin
<1>3. \A n \in S : ~ (n < m)
  BY <1>1, <1>2
<1> QED BY <1>3

\* A set that has 0 and with a number the next one, up to n.
LEMMA CountingUp ==
  ASSUME NEW n \in Nat, NEW P, 0 \in P, \A i \in 1 .. n : i - 1 \in P => i \in P
  PROVE  \A i \in 0 .. n : i \in P
<1> DEFINE Missing == {i \in 0 .. n : i \notin P}
<1> SUFFICES ASSUME Missing # {} PROVE FALSE
  OBVIOUS
<1>1. Missing \subseteq Nat
  OBVIOUS
<1>2. PICK m \in Missing : \A i \in Missing : m <= i
  <2> HIDE DEF Missing
  <2> QED BY <1>1, LeastNumber
<1>3. m \in 1 .. n /\ m - 1 \in 0 .. n /\ ~ (m <= m - 1)
  BY <1>2
<1>4. m - 1 \in P
  BY <1>2, <1>3
<1> QED BY <1>2, <1>3, <1>4

\* A set of sequences that has the empty one and with a sequence its
\* extensions.
LEMMA SeqInduction ==
  ASSUME NEW X, NEW P, <<>> \in P,
         \A s \in Seq(X) : \A x \in X : s \in P => Append(s, x) \in P
  PROVE  \A s \in Seq(X) : s \in P
<1> SUFFICES ASSUME NEW q \in Seq(X) PROVE q \in P
  OBVIOUS
<1> DEFINE Good1 == {n \in Nat : \A s \in Seq(X) : Len(s) = n => s \in P}
<1>1. 0 \in Good1
  <2>1. \A s \in Seq(X) : Len(s) = 0 => s = <<>>
    OBVIOUS
  <2> QED BY <2>1
<1>2. ASSUME NEW i \in 1 .. Len(q), i - 1 \in Good1 PROVE i \in Good1
  <2> SUFFICES ASSUME NEW s \in Seq(X), Len(s) = i PROVE s \in P
    OBVIOUS
  <2>1. PICK t \in Seq(X), x \in X : s = Append(t, x)
    <3>1. s # <<>>
      OBVIOUS
    <3> QED BY <3>1, SequenceEmptyOrAppend
  <2>2. Len(t) = i - 1
    BY <2>1
  <2> QED BY <1>2, <2>1, <2>2
<1>3. Len(q) \in 0 .. Len(q) /\ Len(q) \in Nat
  OBVIOUS
<1>4. Len(q) \in Good1
  <2> HIDE DEF Good1
  <2> QED BY <1>1, <1>2, <1>3, CountingUp
<1> QED BY <1>4

-----------------------------------------------------------------------------
(* Sequences and the sets of their elements.                               *)

LEMMA SetOfEmpty == ToSet(<<>>) = {}
BY DEF ToSet

LEMMA AppendedIs ==
  ASSUME NEW X, NEW s \in Seq(X), NEW x \in X
  PROVE  /\ Append(s, x) \in Seq(X) /\ Len(Append(s, x)) = Len(s) + 1
         /\ DOMAIN Append(s, x) = 1 .. Len(s) + 1 /\ DOMAIN s = 1 .. Len(s)
         /\ \A i \in 1 .. Len(s) : Append(s, x)[i] = s[i]
         /\ Append(s, x)[Len(s) + 1] = x
OBVIOUS

LEMMA SetOfAppend ==
  ASSUME NEW X, NEW s \in Seq(X), NEW x \in X
  PROVE  ToSet(Append(s, x)) = ToSet(s) \cup {x}
BY AppendedIs DEF ToSet

LEMMA ConcatIs ==
  ASSUME NEW X, NEW s \in Seq(X), NEW t \in Seq(X)
  PROVE  /\ s \o t \in Seq(X) /\ Len(s \o t) = Len(s) + Len(t)
         /\ DOMAIN (s \o t) = 1 .. Len(s) + Len(t)
         /\ DOMAIN s = 1 .. Len(s) /\ DOMAIN t = 1 .. Len(t)
         /\ \A i \in 1 .. Len(s) : (s \o t)[i] = s[i]
         /\ \A i \in 1 .. Len(t) : (s \o t)[Len(s) + i] = t[i]
         /\ \A i \in 1 .. Len(s) + Len(t) :
              i \in 1 .. Len(s) \/ \E j \in 1 .. Len(t) : i = Len(s) + j
<1>1. Len(s) \in Nat /\ Len(t) \in Nat
  OBVIOUS
<1>2. /\ s \o t \in Seq(X) /\ Len(s \o t) = Len(s) + Len(t)
      /\ DOMAIN (s \o t) = 1 .. Len(s) + Len(t)
      /\ DOMAIN s = 1 .. Len(s) /\ DOMAIN t = 1 .. Len(t)
  OBVIOUS
<1>3. \A i \in 1 .. Len(s) : (s \o t)[i] = s[i]
  OBVIOUS
<1>4. \A i \in 1 .. Len(t) : (s \o t)[Len(s) + i] = t[i]
  OBVIOUS
<1>5. \A i \in 1 .. Len(s) + Len(t) :
        i \in 1 .. Len(s) \/ (i - Len(s) \in 1 .. Len(t) /\ i = Len(s) + (i - Len(s)))
  BY <1>1
<1>6. \A i \in 1 .. Len(s) + Len(t) :
        i \in 1 .. Len(s) \/ \E j \in 1 .. Len(t) : i = Len(s) + j
  BY <1>5
<1> QED BY <1>2, <1>3, <1>4, <1>6

LEMMA SetOfConcat ==
  ASSUME NEW X, NEW s \in Seq(X), NEW t \in Seq(X)
  PROVE  ToSet(s \o t) = ToSet(s) \cup ToSet(t)
<1> DEFINE c == s \o t
<1>1. /\ DOMAIN c = 1 .. Len(s) + Len(t)
      /\ DOMAIN s = 1 .. Len(s) /\ DOMAIN t = 1 .. Len(t)
      /\ \A i \in 1 .. Len(s) : c[i] = s[i]
      /\ \A i \in 1 .. Len(t) : c[Len(s) + i] = t[i]
      /\ \A i \in 1 .. Len(s) + Len(t) :
           i \in 1 .. Len(s) \/ \E j \in 1 .. Len(t) : i = Len(s) + j
      /\ Len(s) \in Nat /\ Len(t) \in Nat
  BY ConcatIs
<1> HIDE DEF c
<1>2. ASSUME NEW i \in DOMAIN c PROVE c[i] \in ToSet(s) \cup ToSet(t)
  <2>1. CASE i \in 1 .. Len(s)
    BY <1>1, <2>1 DEF ToSet
  <2>2. CASE \E j \in 1 .. Len(t) : i = Len(s) + j
    <3>1. PICK j \in 1 .. Len(t) : i = Len(s) + j
      BY <2>2
    <3>2. c[i] = t[j] /\ j \in DOMAIN t
      BY <1>1, <3>1
    <3> QED BY <3>2 DEF ToSet
  <2> QED BY <1>1, <2>1, <2>2
<1>3. \A i \in DOMAIN s : i \in DOMAIN c /\ c[i] = s[i]
  BY <1>1
<1>4. \A i \in DOMAIN t : Len(s) + i \in DOMAIN c /\ c[Len(s) + i] = t[i]
  BY <1>1
<1>5. ToSet(s) \subseteq ToSet(c) /\ ToSet(t) \subseteq ToSet(c)
  BY <1>3, <1>4 DEF ToSet
<1>6. ToSet(c) \subseteq ToSet(s) \cup ToSet(t)
  BY <1>2 DEF ToSet
<1> QED BY <1>5, <1>6 DEF c

LEMMA ConcatAppend ==
  ASSUME NEW X, NEW s \in Seq(X), NEW t \in Seq(X), NEW x \in X
  PROVE  s \o Append(t, x) = Append(s \o t, x)
OBVIOUS

LEMMA SetIn ==
  ASSUME NEW X, NEW s \in Seq(X)
  PROVE  ToSet(s) \subseteq X /\ (s = <<>> <=> ToSet(s) = {})
<1>1. DOMAIN s = 1 .. Len(s) /\ Len(s) \in Nat /\ (Len(s) = 0 <=> s = <<>>)
  OBVIOUS
<1>2. ToSet(s) \subseteq X
  BY DEF ToSet
<1>3. s # <<>> => s[1] \in ToSet(s)
  BY <1>1 DEF ToSet
<1> QED BY <1>2, <1>3, SetOfEmpty

(* No element twice.                                                       *)
Distinct(s) == \A i, j \in DOMAIN s : s[i] = s[j] => i = j

LEMMA DistinctAppend ==
  ASSUME NEW X, NEW s \in Seq(X), NEW x \in X
  PROVE  Distinct(Append(s, x)) <=> Distinct(s) /\ x \notin ToSet(s)
<1> DEFINE a == Append(s, x)
           n == Len(s)
<1>1. /\ DOMAIN a = 1 .. n + 1 /\ DOMAIN s = 1 .. n /\ n \in Nat
      /\ \A i \in 1 .. n : a[i] = s[i]
      /\ a[n + 1] = x
  BY AppendedIs
<1> HIDE DEF a, n
<1>2. \A i \in 1 .. n + 1 : i \in 1 .. n \/ i = n + 1
  BY <1>1
<1>3. Distinct(s) /\ x \notin ToSet(s) => Distinct(a)
  BY <1>1, <1>2 DEF Distinct, ToSet
<1>4. Distinct(a) => Distinct(s)
  BY <1>1 DEF Distinct
<1>5. Distinct(a) => x \notin ToSet(s)
  BY <1>1 DEF Distinct, ToSet
<1> QED BY <1>3, <1>4, <1>5 DEF a

LEMMA DistinctConcat ==
  ASSUME NEW X, NEW s \in Seq(X), NEW t \in Seq(X)
  PROVE  Distinct(s \o t) <=> /\ Distinct(s) /\ Distinct(t)
                              /\ ToSet(s) \cap ToSet(t) = {}
<1> DEFINE c == s \o t
           n == Len(s)
           m == Len(t)
<1>1. /\ DOMAIN c = 1 .. n + m /\ DOMAIN s = 1 .. n /\ DOMAIN t = 1 .. m
      /\ \A i \in 1 .. n : c[i] = s[i]
      /\ \A i \in 1 .. m : c[n + i] = t[i]
      /\ \A i \in 1 .. n + m : i \in 1 .. n \/ \E j \in 1 .. m : i = n + j
      /\ n \in Nat /\ m \in Nat
  BY ConcatIs
<1> HIDE DEF c, n, m
<1>2. ASSUME Distinct(c) PROVE Distinct(s) /\ Distinct(t) /\ ToSet(s) \cap ToSet(t) = {}
  <2>1. Distinct(s)
    BY <1>1, <1>2 DEF Distinct
  <2>2. Distinct(t)
    <3>1. \A i \in 1 .. m : n + i \in DOMAIN c
      BY <1>1
    <3>2. \A i, j \in 1 .. m : t[i] = t[j] => n + i = n + j
      BY <1>1, <1>2, <3>1 DEF Distinct
    <3> QED BY <1>1, <3>2 DEF Distinct
  <2>3. ASSUME NEW i \in 1 .. n, NEW j \in 1 .. m PROVE s[i] # t[j]
    <3>1. i \in DOMAIN c /\ n + j \in DOMAIN c /\ i # n + j
      BY <1>1
    <3> QED BY <1>1, <1>2, <3>1 DEF Distinct
  <2> QED BY <1>1, <2>1, <2>2, <2>3 DEF ToSet
<1>3. ASSUME Distinct(s), Distinct(t), ToSet(s) \cap ToSet(t) = {} PROVE Distinct(c)
  <2>1. \A i \in 1 .. n, j \in 1 .. m : s[i] # t[j]
    BY <1>1, <1>3 DEF ToSet
  <2> SUFFICES ASSUME NEW i \in DOMAIN c, NEW j \in DOMAIN c, c[i] = c[j] PROVE i = j
    BY DEF Distinct
  <2>2. CASE i \in 1 .. n /\ j \in 1 .. n
    BY <1>1, <1>3, <2>2 DEF Distinct
  <2>3. ASSUME NEW k \in 1 .. m, NEW l \in 1 .. m, i = n + k, j = n + l PROVE i = j
    <3>1. t[k] = t[l]
      BY <1>1, <2>3
    <3> QED BY <1>1, <1>3, <2>3, <3>1 DEF Distinct
  <2>4. ASSUME i \in 1 .. n, NEW l \in 1 .. m, j = n + l PROVE i = j
    <3>1. s[i] = t[l]
      BY <1>1, <2>4
    <3> QED BY <2>1, <2>4, <3>1
  <2>5. ASSUME j \in 1 .. n, NEW l \in 1 .. m, i = n + l PROVE i = j
    <3>1. s[j] = t[l]
      BY <1>1, <2>5
    <3> QED BY <2>1, <2>5, <3>1
  <2>6. i \in 1 .. n \/ \E k \in 1 .. m : i = n + k
    BY <1>1
  <2>7. j \in 1 .. n \/ \E k \in 1 .. m : j = n + k
    BY <1>1
  <2> QED BY <2>2, <2>3, <2>4, <2>5, <2>6, <2>7
<1> QED BY <1>2, <1>3 DEF c
-----------------------------------------------------------------------------
(* What Only leaves of a sequence.                                         *)

\* The partial results of Only.
OnlyStep(s, S, f, n) ==
  IF n = 0 THEN <<>> ELSE IF s[n] \in S THEN Append(f[n - 1], s[n]) ELSE f[n - 1]
OnlyUpTo(s, S, f, m) == f = [n \in 0 .. m |-> OnlyStep(s, S, f, n)]

LEMMA OnlyExists ==
  ASSUME NEW s, NEW S, NEW n \in Nat
  PROVE  \E f : OnlyUpTo(s, S, f, n)
<1> DEFINE P == {m \in 0 .. n : \E f : OnlyUpTo(s, S, f, m)}
<1>1. 0 \in P
  <2> DEFINE f == [i \in 0 .. 0 |-> <<>>]
  <2>1. OnlyUpTo(s, S, f, 0)
    BY DEF OnlyUpTo, OnlyStep
  <2> QED BY <2>1
<1>2. ASSUME NEW m \in 1 .. n, m - 1 \in P PROVE m \in P
  <2>1. PICK g : OnlyUpTo(s, S, g, m - 1)
    BY <1>2
  <2> DEFINE f == [i \in 0 .. m |-> IF i = m THEN OnlyStep(s, S, g, m) ELSE g[i]]
  <2>2. \A i \in 0 .. m : OnlyStep(s, S, f, i) = OnlyStep(s, S, g, i)
    <3>1. \A i \in 0 .. m : i # 0 => i - 1 \in 0 .. m /\ f[i - 1] = g[i - 1]
      OBVIOUS
    <3> HIDE DEF f
    <3> QED BY <3>1 DEF OnlyStep
  <2>3. \A i \in 0 .. m : f[i] = OnlyStep(s, S, g, i)
    <3>1. \A i \in 0 .. m : i # m => i \in 0 .. m - 1
      OBVIOUS
    <3> QED BY <2>1, <3>1 DEF OnlyUpTo
  <2>4. OnlyUpTo(s, S, f, m)
    <3>1. f = [i \in 0 .. m |-> f[i]]
      OBVIOUS
    <3> HIDE DEF f
    <3> QED BY <2>2, <2>3, <3>1 DEF OnlyUpTo
  <2> QED BY <2>4
<1>3. n \in P
  <2> HIDE DEF P
  <2>1. \A m \in 0 .. n : m \in P
    BY <1>1, <1>2, CountingUp
  <2> QED BY <2>1
<1> QED BY <1>3

LEMMA OnlyBy ==
  ASSUME NEW X, NEW s \in Seq(X), NEW S
  PROVE  \E f : /\ Only(s, S) = f[Len(s)] /\ f[0] = <<>>
                /\ \A n \in 1 .. Len(s) :
                     f[n] = IF s[n] \in S THEN Append(f[n - 1], s[n]) ELSE f[n - 1]
<1> DEFINE u == CHOOSE f : OnlyUpTo(s, S, f, Len(s))
<1>1. Only(s, S) = u[Len(s)]
  BY DEF Only, OnlyUpTo, OnlyStep
<1>2. OnlyUpTo(s, S, u, Len(s))
  BY OnlyExists
<1> HIDE DEF u
<1>3. \A n \in 0 .. Len(s) : u[n] = OnlyStep(s, S, u, n)
  BY <1>2 DEF OnlyUpTo
<1>4. u[0] = <<>>
  BY <1>3 DEF OnlyStep
<1>5. \A n \in 1 .. Len(s) :
        u[n] = IF s[n] \in S THEN Append(u[n - 1], s[n]) ELSE u[n - 1]
  BY <1>3 DEF OnlyStep
<1> QED BY <1>1, <1>4, <1>5

LEMMA OnlyOfEmpty == \A S : Only(<<>>, S) = <<>>
<1> SUFFICES ASSUME NEW S PROVE Only(<<>>, S) = <<>>
  OBVIOUS
<1>1. <<>> \in Seq({}) /\ Len(<<>>) = 0
  OBVIOUS
<1>2. \A s \in Seq({}) : \E f : Only(s, S) = f[Len(s)] /\ f[0] = <<>>
  BY OnlyBy
<1>3. PICK f : Only(<<>>, S) = f[Len(<<>>)] /\ f[0] = <<>>
  BY <1>1, <1>2, Zenon
<1> QED BY <1>1, <1>3

LEMMA OnlyAppend ==
  ASSUME NEW X, NEW s \in Seq(X), NEW x \in X, NEW S
  PROVE  Only(Append(s, x), S) = IF x \in S THEN Append(Only(s, S), x) ELSE Only(s, S)
<1> DEFINE a == Append(s, x)
           n == Len(s)
<1>1. /\ a \in Seq(X) /\ Len(a) = n + 1 /\ n \in Nat
      /\ \A i \in 1 .. n : a[i] = s[i]
      /\ a[n + 1] = x
  BY AppendedIs
<1> HIDE DEF a
<1>2. PICK f : /\ Only(a, S) = f[n + 1] /\ f[0] = <<>>
               /\ \A i \in 1 .. n + 1 :
                    f[i] = IF a[i] \in S THEN Append(f[i - 1], a[i]) ELSE f[i - 1]
  BY <1>1, OnlyBy
<1>3. PICK g : /\ Only(s, S) = g[n] /\ g[0] = <<>>
               /\ \A i \in 1 .. n :
                    g[i] = IF s[i] \in S THEN Append(g[i - 1], s[i]) ELSE g[i - 1]
  BY OnlyBy
<1> DEFINE P == {i \in 0 .. n : f[i] = g[i]}
<1>4. 0 \in P
  BY <1>1, <1>2, <1>3
<1>5. ASSUME NEW i \in 1 .. n, i - 1 \in P PROVE i \in P
  <2>1. i \in 1 .. n + 1 /\ f[i - 1] = g[i - 1] /\ a[i] = s[i]
    BY <1>1, <1>5
  <2> QED BY <1>2, <1>3, <2>1
<1>6. n \in P
  <2> HIDE DEF P, n
  <2>1. \A i \in 0 .. n : i \in P
    BY <1>1, <1>4, <1>5, CountingUp
  <2> QED BY <1>1, <2>1
<1>7. f[n + 1] = IF x \in S THEN Append(f[n], x) ELSE f[n]
  BY <1>1, <1>2
<1> QED BY <1>2, <1>3, <1>6, <1>7 DEF a

LEMMA OnlyIs ==
  ASSUME NEW X, NEW s \in Seq(X), NEW S
  PROVE  /\ Only(s, S) \in Seq(X) /\ Len(Only(s, S)) <= Len(s)
         /\ ToSet(Only(s, S)) = ToSet(s) \cap S
<1> DEFINE P == {t \in Seq(X) : /\ Only(t, S) \in Seq(X) /\ Len(Only(t, S)) <= Len(t)
                                /\ ToSet(Only(t, S)) = ToSet(t) \cap S}
<1>1. <<>> \in P
  <2>1. Only(<<>>, S) = <<>> /\ ToSet(<<>>) = {}
    BY OnlyOfEmpty, SetOfEmpty
  <2>2. <<>> \in Seq(X) /\ Len(<<>>) <= Len(<<>>) /\ {} = {} \cap S
    OBVIOUS
  <2> QED BY <2>1, <2>2, Zenon
<1>2. ASSUME NEW t \in Seq(X), NEW x \in X, t \in P PROVE Append(t, x) \in P
  <2> DEFINE o == Only(t, S)
  <2>1. o \in Seq(X) /\ Len(o) <= Len(t) /\ ToSet(o) = ToSet(t) \cap S
    BY <1>2
  <2>2. /\ Append(t, x) \in Seq(X) /\ Len(Append(t, x)) = Len(t) + 1
        /\ ToSet(Append(t, x)) = ToSet(t) \cup {x} /\ Len(t) \in Nat
    BY AppendedIs, SetOfAppend
  <2>3. CASE x \in S
    <3>1. Only(Append(t, x), S) = Append(o, x)
      BY <2>3, OnlyAppend
    <3> HIDE DEF o
    <3>2. /\ Append(o, x) \in Seq(X) /\ Len(Append(o, x)) = Len(o) + 1
          /\ ToSet(Append(o, x)) = ToSet(o) \cup {x} /\ Len(o) \in Nat
      BY <2>1, AppendedIs, SetOfAppend
    <3>3. Len(Append(o, x)) <= Len(Append(t, x))
      BY <2>1, <2>2, <3>2
    <3>4. ToSet(Append(o, x)) = ToSet(Append(t, x)) \cap S
      BY <2>1, <2>2, <2>3, <3>2
    <3> QED BY <2>2, <3>1, <3>2, <3>3, <3>4
  <2>4. CASE x \notin S
    <3>1. Only(Append(t, x), S) = o
      BY <2>4, OnlyAppend
    <3> HIDE DEF o
    <3> QED BY <2>1, <2>2, <2>4, <3>1
  <2> QED BY <2>3, <2>4
<1>3. s \in P
  <2> HIDE DEF P
  <2> QED BY <1>1, <1>2, SeqInduction
<1> QED BY <1>3

LEMMA OnlyConcat ==
  ASSUME NEW X, NEW s \in Seq(X), NEW t \in Seq(X), NEW S
  PROVE  Only(s \o t, S) = Only(s, S) \o Only(t, S)
<1> DEFINE P == {r \in Seq(X) : Only(s \o r, S) = Only(s, S) \o Only(r, S)}
<1>1. <<>> \in P
  <2>1. s \o <<>> = s /\ Only(s, S) \o <<>> = Only(s, S)
    BY OnlyIs
  <2>2. Only(<<>>, S) = <<>> /\ <<>> \in Seq(X)
    BY OnlyOfEmpty
  <2> QED BY <2>1, <2>2, Zenon
<1>2. ASSUME NEW r \in Seq(X), NEW x \in X, r \in P PROVE Append(r, x) \in P
  <2>1. s \o Append(r, x) = Append(s \o r, x) /\ s \o r \in Seq(X)
    BY ConcatAppend, ConcatIs
  <2>2. Only(s, S) \in Seq(X) /\ Only(r, S) \in Seq(X) /\ Append(r, x) \in Seq(X)
    BY OnlyIs, AppendedIs
  <2>3. Only(Append(s \o r, x), S)
          = IF x \in S THEN Append(Only(s \o r, S), x) ELSE Only(s \o r, S)
    BY <2>1, OnlyAppend
  <2>4. Only(Append(r, x), S) = IF x \in S THEN Append(Only(r, S), x) ELSE Only(r, S)
    BY OnlyAppend
  <2>5. Only(s, S) \o Append(Only(r, S), x) = Append(Only(s, S) \o Only(r, S), x)
    BY <2>2, ConcatAppend
  <2>6. Only(s \o r, S) = Only(s, S) \o Only(r, S)
    BY <1>2
  <2>7. Only(s \o Append(r, x), S) = Only(s, S) \o Only(Append(r, x), S)
    BY <2>1, <2>3, <2>4, <2>5, <2>6
  <2> QED BY <2>2, <2>7
<1>3. t \in P
  <2> HIDE DEF P
  <2> QED BY <1>1, <1>2, SeqInduction
<1> QED BY <1>3

LEMMA OnlySame ==
  ASSUME NEW X, NEW s \in Seq(X), NEW S, NEW T, \A x \in ToSet(s) : x \in S <=> x \in T
  PROVE  Only(s, S) = Only(s, T)
<1> DEFINE P == {r \in Seq(X) : (\A x \in ToSet(r) : x \in S <=> x \in T)
                                   => Only(r, S) = Only(r, T)}
<1>1. <<>> \in P
  BY OnlyOfEmpty
<1>2. ASSUME NEW r \in Seq(X), NEW x \in X, r \in P PROVE Append(r, x) \in P
  <2> SUFFICES ASSUME \A y \in ToSet(Append(r, x)) : y \in S <=> y \in T
               PROVE  Only(Append(r, x), S) = Only(Append(r, x), T)
    BY AppendedIs
  <2>1. ToSet(Append(r, x)) = ToSet(r) \cup {x}
    BY SetOfAppend
  <2>2. Only(r, S) = Only(r, T) /\ (x \in S <=> x \in T)
    BY <1>2, <2>1
  <2>3. /\ Only(Append(r, x), S) = IF x \in S THEN Append(Only(r, S), x) ELSE Only(r, S)
        /\ Only(Append(r, x), T) = IF x \in T THEN Append(Only(r, T), x) ELSE Only(r, T)
    BY OnlyAppend
  <2> QED BY <2>2, <2>3
<1>3. s \in P
  <2> HIDE DEF P
  <2> QED BY <1>1, <1>2, SeqInduction
<1> QED BY <1>3

LEMMA OnlyAll ==
  ASSUME NEW X, NEW s \in Seq(X), NEW S, ToSet(s) \subseteq S
  PROVE  Only(s, S) = s
<1> DEFINE P == {r \in Seq(X) : Only(r, X) = r}
<1>1. <<>> \in P
  BY OnlyOfEmpty
<1>2. \A r \in Seq(X) : \A x \in X : r \in P => Append(r, x) \in P
  BY OnlyAppend, AppendedIs
<1>3. s \in P
  <2> HIDE DEF P
  <2> QED BY <1>1, <1>2, SeqInduction
<1>4. \A x \in ToSet(s) : x \in S <=> x \in X
  BY SetIn
<1>5. Only(s, S) = Only(s, X)
  BY <1>4, OnlySame
<1> QED BY <1>3, <1>5

LEMMA OnlyNone ==
  ASSUME NEW X, NEW s \in Seq(X), NEW S, ToSet(s) \cap S = {}
  PROVE  Only(s, S) = <<>>
<1>1. Only(s, S) \in Seq(X) /\ ToSet(Only(s, S)) = {}
  BY OnlyIs
<1> QED BY <1>1, SetIn

LEMMA OnlyOnly ==
  ASSUME NEW X, NEW s \in Seq(X), NEW S, NEW T
  PROVE  Only(Only(s, S), T) = Only(s, S \cap T)
<1> DEFINE P == {r \in Seq(X) : Only(Only(r, S), T) = Only(r, S \cap T)}
<1>1. <<>> \in P
  BY OnlyOfEmpty
<1>2. ASSUME NEW r \in Seq(X), NEW x \in X, r \in P PROVE Append(r, x) \in P
  <2>1. Append(r, x) \in Seq(X) /\ Only(r, S) \in Seq(X)
    BY AppendedIs, OnlyIs
  <2>2. Only(Append(r, x), S) = IF x \in S THEN Append(Only(r, S), x) ELSE Only(r, S)
    BY OnlyAppend
  <2>3. Only(Append(Only(r, S), x), T)
          = IF x \in T THEN Append(Only(Only(r, S), T), x) ELSE Only(Only(r, S), T)
    BY <2>1, OnlyAppend
  <2>4. Only(Append(r, x), S \cap T)
          = IF x \in S \cap T THEN Append(Only(r, S \cap T), x) ELSE Only(r, S \cap T)
    BY OnlyAppend
  <2>5. Only(Only(r, S), T) = Only(r, S \cap T)
    BY <1>2
  <2>6. Only(Only(Append(r, x), S), T) = Only(Append(r, x), S \cap T)
    <3>1. CASE x \in S
      <4>1. /\ Only(Append(r, x), S) = Append(Only(r, S), x)
            /\ x \in S \cap T <=> x \in T
        BY <2>2, <3>1
      <4> QED BY <2>3, <2>4, <2>5, <4>1, Zenon
    <3>2. CASE x \notin S
      BY <2>2, <2>4, <2>5, <3>2
    <3> QED BY <3>1, <3>2
  <2> QED BY <2>1, <2>6
<1>3. s \in P
  <2> HIDE DEF P
  <2> QED BY <1>1, <1>2, SeqInduction
<1> QED BY <1>3

LEMMA DistinctOnly ==
  ASSUME NEW X, NEW s \in Seq(X), NEW S, Distinct(s)
  PROVE  Distinct(Only(s, S))
<1> DEFINE P == {r \in Seq(X) : Distinct(r) => Distinct(Only(r, S))}
<1>1. <<>> \in P
  BY OnlyOfEmpty
<1>2. ASSUME NEW r \in Seq(X), NEW x \in X, r \in P PROVE Append(r, x) \in P
  <2> SUFFICES ASSUME Distinct(Append(r, x)) PROVE Distinct(Only(Append(r, x), S))
    BY AppendedIs
  <2>1. Distinct(r) /\ x \notin ToSet(r)
    BY DistinctAppend
  <2>2. Distinct(Only(r, S))
    BY <1>2, <2>1
  <2>3. Only(r, S) \in Seq(X) /\ x \notin ToSet(Only(r, S))
    BY <2>1, OnlyIs
  <2>4. Distinct(Append(Only(r, S), x))
    BY <2>2, <2>3, DistinctAppend
  <2>5. Only(Append(r, x), S) = IF x \in S THEN Append(Only(r, S), x) ELSE Only(r, S)
    BY OnlyAppend
  <2> QED BY <2>2, <2>4, <2>5
<1>3. s \in P
  <2> HIDE DEF P
  <2> QED BY <1>1, <1>2, SeqInduction
<1> QED BY <1>3
-----------------------------------------------------------------------------
(* Least and greatest numbers, prefixes.                                   *)

LEMMA MinIs ==
  ASSUME NEW S, S \subseteq Nat, S # {}
  PROVE  Min(S) \in S /\ \A n \in S : Min(S) <= n
<1>1. \E m \in S : \A n \in S : m <= n
  BY LeastNumber
<1> QED BY <1>1 DEF Min

LEMMA MaxIs ==
  ASSUME NEW m \in Nat, NEW S, S \subseteq 0 .. m, S # {}
  PROVE  Max(S) \in S /\ \A n \in S : n <= Max(S)
<1> DEFINE Above == {k \in Nat : \A n \in S : n <= k}
<1>1. PICK k \in Above : \A j \in Above : k <= j
  <2>1. Above \subseteq Nat /\ m \in Above
    OBVIOUS
  <2> HIDE DEF Above
  <2> QED BY <2>1, LeastNumber
<1>2. k \in S
  <2> SUFFICES ASSUME k \notin S PROVE FALSE
    OBVIOUS
  <2>1. \A n \in S : n <= k - 1 /\ 0 <= n /\ n \in Int
    BY <1>1
  <2>2. PICK n \in S : TRUE
    OBVIOUS
  <2>3. k - 1 \in Nat
    BY <1>1, <2>1, <2>2
  <2>4. k - 1 \in Above
    BY <2>1, <2>3
  <2> QED BY <1>1, <2>4
<1>3. \E x \in S : \A n \in S : x >= n
  BY <1>1, <1>2
<1>4. Max(S) \in S /\ \A n \in S : Max(S) >= n
  BY <1>3 DEF Max
<1> QED BY <1>4

LEMMA PairMinIs ==
  ASSUME NEW a \in Nat, NEW b \in Nat
  PROVE  Min({a, b}) \in Nat /\ Min({a, b}) <= a /\ Min({a, b}) <= b /\ Min({a, b}) \in {a, b}
BY MinIs

LEMMA SplitIs ==
  ASSUME NEW X, NEW s \in Seq(X), NEW c \in 0 .. Len(s)
  PROVE  /\ SubSeq(s, 1, c) \in Seq(X) /\ SubSeq(s, c + 1, Len(s)) \in Seq(X)
         /\ Len(SubSeq(s, 1, c)) = c /\ Len(SubSeq(s, c + 1, Len(s))) = Len(s) - c
         /\ s = SubSeq(s, 1, c) \o SubSeq(s, c + 1, Len(s))
         /\ \A i \in 1 .. c : SubSeq(s, 1, c)[i] = s[i]
<1> DEFINE p == SubSeq(s, 1, c)
           r == SubSeq(s, c + 1, Len(s))
<1>1. /\ p \in Seq(X) /\ r \in Seq(X) /\ Len(s) \in Nat /\ c \in Nat /\ c <= Len(s)
      /\ Len(p) = c /\ Len(r) = Len(s) - c
      /\ \A i \in 1 .. c : p[i] = s[i]
      /\ \A i \in 1 .. Len(s) - c : r[i] = s[c + i]
  OBVIOUS
<1> HIDE DEF p, r
<1>2. p \o r \in Seq(X) /\ Len(p \o r) = Len(s)
  <2>1. p \o r \in Seq(X) /\ Len(p \o r) = Len(p) + Len(r)
    BY <1>1, ConcatIs
  <2> QED BY <1>1, <2>1
<1>3. ASSUME NEW i \in 1 .. Len(s) PROVE (p \o r)[i] = s[i]
  <2>1. CASE i \in 1 .. c
    BY <1>1, <2>1, ConcatIs
  <2>2. CASE i \notin 1 .. c
    <3>1. i - c \in 1 .. Len(s) - c /\ i = c + (i - c)
      BY <1>1, <2>2
    <3>2. (p \o r)[Len(p) + (i - c)] = r[i - c]
      BY <1>1, <3>1, ConcatIs
    <3> QED BY <1>1, <3>1, <3>2
  <2> QED BY <2>1, <2>2
<1>4. p \o r = s
  <2> DEFINE q == p \o r
  <2>1. q \in Seq(X) /\ Len(q) = Len(s) /\ \A i \in 1 .. Len(s) : q[i] = s[i]
    BY <1>2, <1>3
  <2> HIDE DEF q
  <2>2. q = s
    BY <2>1
  <2> QED BY <2>2 DEF q
<1> QED BY <1>1, <1>4 DEF p, r

-----------------------------------------------------------------------------
(* What takeBatch takes.                                                   *)

\* f has the sizes of the first events of s added up.
Sums(s, f, m) == f[0] = 0 /\ \A n \in 1 .. m : f[n] = f[n - 1] + Bytes[s[n]]

FitsIn(b) ==
  /\ Len(b) <= MaxBatchSize
  /\ MaxBatchBytes # 0 =>
       /\ ToSet(b) \cap Bad = {}
       /\ Len(b) <= 1 \/ \E f : Sums(b, f, Len(b)) /\ f[Len(b)] <= MaxBatchBytes

LEMMA SumsAgree ==
  ASSUME NEW s, NEW t, NEW f, NEW g, NEW m \in Nat, Sums(s, f, m), Sums(t, g, m),
         \A i \in 1 .. m : s[i] = t[i]
  PROVE  f[m] = g[m]
<1> DEFINE P == {i \in 0 .. m : f[i] = g[i]}
<1>1. 0 \in P
  BY DEF Sums
<1>2. ASSUME NEW i \in 1 .. m, i - 1 \in P PROVE i \in P
  <2>1. f[i] = f[i - 1] + Bytes[s[i]] /\ g[i] = g[i - 1] + Bytes[t[i]]
    BY DEF Sums
  <2> QED BY <1>2, <2>1
<1>3. m \in P
  <2> HIDE DEF P
  <2>1. \A i \in 0 .. m : i \in P
    BY <1>1, <1>2, CountingUp
  <2> QED BY <2>1
<1> QED BY <1>3

\* The partial sums, as Fitting defines them.
SumStep(s, f, n) == IF n = 0 THEN 0 ELSE f[n - 1] + Bytes[s[n]]
SumUpTo(s, f, m) == f = [n \in 0 .. m |-> SumStep(s, f, n)]

LEMMA SumsExist ==
  ASSUME NEW s, NEW n \in Nat
  PROVE  \E f : SumUpTo(s, f, n)
<1> DEFINE P == {m \in 0 .. n : \E f : SumUpTo(s, f, m)}
<1>1. 0 \in P
  <2> DEFINE f == [i \in 0 .. 0 |-> 0]
  <2>1. SumUpTo(s, f, 0)
    BY DEF SumUpTo, SumStep
  <2> QED BY <2>1
<1>2. ASSUME NEW m \in 1 .. n, m - 1 \in P PROVE m \in P
  <2>1. PICK g : SumUpTo(s, g, m - 1)
    BY <1>2
  <2> DEFINE f == [i \in 0 .. m |-> IF i = m THEN SumStep(s, g, m) ELSE g[i]]
  <2>2. \A i \in 0 .. m : SumStep(s, f, i) = SumStep(s, g, i)
    <3>1. \A i \in 0 .. m : i # 0 => i - 1 \in 0 .. m /\ f[i - 1] = g[i - 1]
      OBVIOUS
    <3> HIDE DEF f
    <3> QED BY <3>1 DEF SumStep
  <2>3. \A i \in 0 .. m : f[i] = SumStep(s, g, i)
    <3>1. \A i \in 0 .. m : i # m => i \in 0 .. m - 1
      OBVIOUS
    <3> QED BY <2>1, <3>1 DEF SumUpTo
  <2>4. SumUpTo(s, f, m)
    <3>1. f = [i \in 0 .. m |-> f[i]]
      OBVIOUS
    <3> HIDE DEF f
    <3> QED BY <2>2, <2>3, <3>1 DEF SumUpTo
  <2> QED BY <2>4
<1>3. n \in P
  <2> HIDE DEF P
  <2>1. \A m \in 0 .. n : m \in P
    BY <1>1, <1>2, CountingUp
  <2> QED BY <2>1
<1> QED BY <1>3

LEMMA FittingBy ==
  ASSUME NEW t \in Seq(Events)
  PROVE  \E f, m : /\ m \in Nat /\ m <= MaxBatchSize /\ m <= Len(t)
                   /\ m \in {MaxBatchSize, Len(t)}
                   /\ Sums(t, f, m)
                   /\ Fitting(t) = Max({0} \cup {n \in 1 .. m : n = 1 \/ f[n] <= MaxBatchBytes})
<1> DEFINE m == Min({MaxBatchSize, Len(t)})
           u == CHOOSE f : SumUpTo(t, f, m)
<1>1. m \in Nat /\ m <= MaxBatchSize /\ m <= Len(t) /\ m \in {MaxBatchSize, Len(t)}
  BY LimitsAssumption, PairMinIs
<1>2. Fitting(t) = Max({0} \cup {n \in 1 .. m : n = 1 \/ u[n] <= MaxBatchBytes})
  BY DEF Fitting, SumUpTo, SumStep
<1>3. SumUpTo(t, u, m)
  <2> HIDE DEF m
  <2> QED BY <1>1, SumsExist
<1> HIDE DEF m, u
<1>4. \A n \in 0 .. m : u[n] = SumStep(t, u, n)
  BY <1>3 DEF SumUpTo
<1>5. Sums(t, u, m)
  BY <1>1, <1>4 DEF Sums, SumStep
<1> QED BY <1>1, <1>2, <1>5

\* How many fit: the first so many, and at least as many as any prefix that
\* fits.
LEMMA FittingIs ==
  ASSUME NEW t \in Seq(Events)
  PROVE  /\ Fitting(t) \in 0 .. Len(t) /\ Fitting(t) <= MaxBatchSize
         /\ Fitting(t) = 0 => t = <<>>
         /\ Fitting(t) <= 1 \/ \E f : Sums(t, f, Fitting(t)) /\ f[Fitting(t)] <= MaxBatchBytes
         /\ \A k \in 1 .. Len(t) :
              /\ k <= MaxBatchSize
              /\ k = 1 \/ \E f : Sums(t, f, k) /\ f[k] <= MaxBatchBytes
              => k <= Fitting(t)
<1>1. PICK f, m : /\ m \in Nat /\ m <= MaxBatchSize /\ m <= Len(t)
                  /\ m \in {MaxBatchSize, Len(t)}
                  /\ Sums(t, f, m)
                  /\ Fitting(t) = Max({0} \cup {n \in 1 .. m : n = 1 \/ f[n] <= MaxBatchBytes})
  BY FittingBy
<1> DEFINE S == {0} \cup {n \in 1 .. m : n = 1 \/ f[n] <= MaxBatchBytes}
           c == Fitting(t)
<1>2. c \in S /\ \A n \in S : n <= c
  <2>1. S \subseteq 0 .. m /\ S # {} /\ c = Max(S)
    BY <1>1
  <2> HIDE DEF S, c
  <2> QED BY <1>1, <2>1, MaxIs
<1>3. Len(t) \in Nat /\ MaxBatchSize \in Nat /\ MaxBatchSize # 0
  BY LimitsAssumption
<1>4. c \in 0 .. m
  BY <1>1, <1>2
<1>5. \A k \in 0 .. m : Sums(t, f, k)
  BY <1>1 DEF Sums
<1>6. c = 0 => t = <<>>
  <2>1. m # 0 => 1 \in S
    BY <1>1
  <2>2. c = 0 => m = 0
    BY <1>2, <1>4, <2>1
  <2>3. m = 0 => Len(t) = 0
    BY <1>1, <1>3
  <2> QED BY <2>2, <2>3
<1>7. c <= 1 \/ (Sums(t, f, c) /\ f[c] <= MaxBatchBytes)
  BY <1>2, <1>4, <1>5
<1>8. ASSUME NEW k \in 1 .. Len(t), k <= MaxBatchSize,
             k = 1 \/ \E g : Sums(t, g, k) /\ g[k] <= MaxBatchBytes
      PROVE  k <= c
  <2>1. k \in 1 .. m
    BY <1>1, <1>3, <1>8
  <2>2. k = 1 \/ f[k] <= MaxBatchBytes
    <3>1. ASSUME NEW g, Sums(t, g, k) PROVE f[k] = g[k]
      <4>1. Sums(t, f, k) /\ k \in Nat
        BY <1>5, <2>1
      <4> QED BY <3>1, <4>1, SumsAgree
    <3> QED BY <1>8, <3>1
  <2>3. k \in S
    BY <2>1, <2>2
  <2> QED BY <1>2, <2>3
<1>9. c \in 0 .. Len(t) /\ c <= MaxBatchSize
  BY <1>1, <1>3, <1>4
<1>10. \A k \in 1 .. Len(t) :
         /\ k <= MaxBatchSize
         /\ k = 1 \/ \E g : Sums(t, g, k) /\ g[k] <= MaxBatchBytes
         => k <= c
  BY <1>8
<1>11. c <= 1 \/ \E g : Sums(t, g, c) /\ g[c] <= MaxBatchBytes
  BY <1>7
<1> HIDE DEF c
<1>12. c = Fitting(t)
  BY DEF c
<1> QED BY <1>6, <1>9, <1>10, <1>11, <1>12, Zenon
LEMMA GoodIs ==
  ASSUME NEW s \in Seq(Events)
  PROVE  /\ Good(s) \in Seq(Events) /\ Len(Good(s)) <= Len(s) /\ Len(Good(s)) \in Nat
         /\ ToSet(Good(s)) = ToSet(s) \ Bad
<1>1. ToSet(s) \subseteq Events
  BY SetIn
<1>2. /\ Good(s) \in Seq(Events) /\ Len(Good(s)) <= Len(s)
      /\ ToSet(Good(s)) = ToSet(s) \cap (Events \ Bad)
  BY OnlyIs DEF Good
<1> QED BY <1>1, <1>2

\* What is good of the first n events.
First(s, n) == Good(SubSeq(s, 1, n))

LEMMA FirstIs ==
  ASSUME NEW s \in Seq(Events), NEW n \in 0 .. Len(s)
  PROVE  /\ First(s, n) \in Seq(Events) /\ Len(First(s, n)) \in Nat
         /\ Len(First(s, n)) <= n
         /\ ToSet(First(s, n)) \cap Bad = {}
         /\ Good(s) = First(s, n) \o Good(SubSeq(s, n + 1, Len(s)))
<1> DEFINE p == SubSeq(s, 1, n)
           r == SubSeq(s, n + 1, Len(s))
<1>1. p \in Seq(Events) /\ r \in Seq(Events) /\ Len(p) = n /\ s = p \o r
  BY SplitIs
<1> HIDE DEF p, r
<1>2. Good(s) = Good(p) \o Good(r)
  BY <1>1, OnlyConcat DEF Good
<1>3. /\ Good(p) \in Seq(Events) /\ Len(Good(p)) \in Nat /\ Len(Good(p)) <= n
      /\ ToSet(Good(p)) \cap Bad = {}
  BY <1>1, GoodIs
<1> QED BY <1>2, <1>3 DEF First, p, r

LEMMA FirstEnds ==
  ASSUME NEW s \in Seq(Events)
  PROVE  Len(First(s, 0)) = 0 /\ First(s, Len(s)) = Good(s)
<1>1. 0 \in 0 .. Len(s) /\ SubSeq(s, 1, Len(s)) = s
  OBVIOUS
<1>2. Len(First(s, 0)) \in Nat /\ Len(First(s, 0)) <= 0
  BY <1>1, FirstIs
<1>3. First(s, Len(s)) = Good(s)
  BY <1>1 DEF First
<1> QED BY <1>2, <1>3

LEMMA FirstGrows ==
  ASSUME NEW s \in Seq(Events), NEW n \in 1 .. Len(s)
  PROVE  Len(First(s, n)) <= Len(First(s, n - 1)) + 1
<1> DEFINE p == SubSeq(s, 1, n - 1)
<1>1. /\ n - 1 \in 0 .. Len(s) /\ n \in 0 .. Len(s) /\ s[n] \in Events
  OBVIOUS
<1>2. p \in Seq(Events) /\ SubSeq(s, 1, n) = Append(p, s[n])
  <2>1. p \in Seq(Events) /\ Len(p) = n - 1 /\ \A i \in 1 .. n - 1 : p[i] = s[i]
    BY <1>1, SplitIs
  <2>2. /\ SubSeq(s, 1, n) \in Seq(Events) /\ Len(SubSeq(s, 1, n)) = n
        /\ \A i \in 1 .. n : SubSeq(s, 1, n)[i] = s[i]
    BY <1>1, SplitIs
  <2> DEFINE q == SubSeq(s, 1, n)
             a == Append(p, s[n])
  <2> HIDE DEF p
  <2>3. /\ a \in Seq(Events) /\ Len(a) = n
        /\ \A i \in 1 .. n - 1 : a[i] = p[i]
        /\ a[n] = s[n]
    BY <1>1, <2>1
  <2>4. \A i \in 1 .. n : i \in 1 .. n - 1 \/ i = n
    OBVIOUS
  <2> HIDE DEF q, a
  <2>5. q \in Seq(Events) /\ Len(q) = n /\ \A i \in 1 .. n : q[i] = s[i]
    BY <2>2 DEF q
  <2>6. \A i \in 1 .. n : a[i] = s[i]
    BY <2>1, <2>3, <2>4
  <2>7. q = a
    BY <2>3, <2>5, <2>6
  <2> QED BY <2>1, <2>7 DEF q, a
<1> DEFINE o == Good(p)
<1>3. o \in Seq(Events)
  BY <1>2, GoodIs
<1>4. Good(Append(p, s[n])) \in {o, Append(o, s[n])}
  <2> DEFINE x == s[n]
  <2>1. x \in Events /\ p \in Seq(Events)
    BY <1>1, <1>2
  <2> HIDE DEF x, p
  <2>2. Only(Append(p, x), Events \ Bad)
          = IF x \in Events \ Bad THEN Append(Only(p, Events \ Bad), x)
                                  ELSE Only(p, Events \ Bad)
    BY <2>1, OnlyAppend
  <2>3. Good(Append(p, x)) \in {Good(p), Append(Good(p), x)}
    BY <2>2 DEF Good
  <2> QED BY <2>3 DEF x
<1>5. Len(Append(o, s[n])) = Len(o) + 1 /\ Len(o) \in Nat
  BY <1>1, <1>3, AppendedIs
<1>6. First(s, n - 1) = o /\ First(s, n) = Good(Append(p, s[n]))
  BY <1>2 DEF First
<1> HIDE DEF o
<1> QED BY <1>4, <1>5, <1>6

\* As many as are asked for are good of some prefix.
LEMMA EndsThere ==
  ASSUME NEW s \in Seq(Events), NEW count \in 0 .. Len(Good(s))
  PROVE  \E n \in 0 .. Len(s) : Len(First(s, n)) = count
<1> DEFINE S == {n \in 0 .. Len(s) : count <= Len(First(s, n))}
<1>1. PICK m \in S : \A n \in S : m <= n
  <2>1. S \subseteq Nat
    OBVIOUS
  <2>2. Len(s) \in S
    BY FirstEnds, GoodIs
  <2> HIDE DEF S
  <2> QED BY <2>1, <2>2, LeastNumber
<1>2. CASE m = 0
  BY <1>1, <1>2, FirstEnds
<1>3. CASE m # 0
  <2>1. m \in 1 .. Len(s) /\ m - 1 \in 0 .. Len(s) /\ ~ (m <= m - 1)
    BY <1>3
  <2>2. ~ (count <= Len(First(s, m - 1)))
    BY <1>1, <2>1
  <2>3. /\ Len(First(s, m)) <= Len(First(s, m - 1)) + 1
        /\ Len(First(s, m)) \in Nat /\ Len(First(s, m - 1)) \in Nat
    BY <2>1, FirstGrows, FirstIs
  <2>4. count <= Len(First(s, m)) /\ count \in Nat
    BY <1>1, GoodIs
  <2>5. Len(First(s, m)) = count
    BY <2>2, <2>3, <2>4
  <2> QED BY <2>5
<1> QED BY <1>2, <1>3

\* With a byte limit: where the loop ends, and that nothing is good of a queue
\* of which nothing is taken.
LEMMA CutWithBytes ==
  ASSUME NEW s \in Seq(Events), MaxBatchBytes # 0
  PROVE  /\ Cut(s) \in 0 .. Len(s)
         /\ Taken(s) = First(s, Cut(s))
         /\ Len(Taken(s)) = Fitting(Good(s))
         /\ Taken(s) = <<>> => Cut(s) = Len(s)
<1> DEFINE count == Fitting(Good(s))
           ends  == {n \in 0 .. Len(s) : Len(First(s, n)) = count}
           c     == Cut(s)
<1>1. /\ Good(s) \in Seq(Events) /\ Len(Good(s)) \in Nat
      /\ MaxBatchSize \in Nat /\ MaxBatchSize # 0 /\ Len(s) \in Nat
  BY GoodIs, LimitsAssumption
<1>2. count \in 0 .. Len(Good(s)) /\ (count = 0 => Good(s) = <<>>)
  BY <1>1, FittingIs
<1>3. c = IF count = MaxBatchSize THEN Min(ends) ELSE Max(ends)
  BY DEF Cut, First
<1>4. ends \subseteq 0 .. Len(s) /\ ends \subseteq Nat /\ ends # {}
  BY <1>2, EndsThere
<1>5. c \in ends /\ (count # MaxBatchSize => \A n \in ends : n <= c)
  <2>1. CASE count = MaxBatchSize
    <3>1. Min(ends) \in ends
      <4> HIDE DEF ends
      <4> QED BY <1>4, MinIs
    <3> QED BY <1>3, <2>1, <3>1
  <2>2. CASE count # MaxBatchSize
    <3>1. Max(ends) \in ends /\ \A n \in ends : n <= Max(ends)
      <4> HIDE DEF ends
      <4> QED BY <1>1, <1>4, MaxIs
    <3> HIDE DEF c, ends
    <3> QED BY <1>3, <2>2, <3>1
  <2> QED BY <2>1, <2>2
<1>6. Taken(s) = First(s, c)
  BY DEF Taken, First
<1>7. c \in 0 .. Len(s) /\ Len(First(s, c)) = count
  BY <1>5
<1>8. Taken(s) = <<>> => c = Len(s)
  <2> SUFFICES ASSUME Taken(s) = <<>> PROVE c = Len(s)
    OBVIOUS
  <2>1. count = 0
    BY <1>6, <1>7
  <2>2. Len(s) \in ends
    BY <1>1, <1>2, <2>1, FirstEnds
  <2>3. Len(s) <= c
    BY <1>1, <1>5, <2>1, <2>2
  <2> QED BY <1>1, <1>7, <2>3
<1> QED BY <1>6, <1>7, <1>8

LEMMA FirstFits ==
  ASSUME NEW s \in Seq(Events), MaxBatchBytes # 0
  PROVE  FitsIn(Taken(s))
<1> DEFINE g == Good(s)
           b == Taken(s)
           m == Fitting(g)
           r == Good(SubSeq(s, Cut(s) + 1, Len(s)))
<1>1. Cut(s) \in 0 .. Len(s) /\ b = First(s, Cut(s)) /\ Len(b) = m
  BY CutWithBytes
<1>2. /\ b \in Seq(Events) /\ ToSet(b) \cap Bad = {} /\ g = b \o r
  BY <1>1, FirstIs
<1>3. r \in Seq(Events)
  BY <1>1, SplitIs, GoodIs
<1>4. /\ g \in Seq(Events) /\ m \in Nat /\ m <= MaxBatchSize
      /\ m <= 1 \/ \E f : Sums(g, f, m) /\ f[m] <= MaxBatchBytes
  BY GoodIs, FittingIs
<1> HIDE DEF g, b, m, r
<1>5. \A i \in 1 .. m : g[i] = b[i]
  BY <1>1, <1>2, <1>3, ConcatIs
<1>6. \A f : Sums(g, f, m) => Sums(b, f, m)
  BY <1>5 DEF Sums
<1>7. m <= 1 \/ \E f : Sums(b, f, m) /\ f[m] <= MaxBatchBytes
  BY <1>4, <1>6
<1>8. FitsIn(b)
  BY <1>1, <1>2, <1>4, <1>7 DEF FitsIn
<1> QED BY <1>8 DEF b

\* What takeBatch takes fits in a batch and leaves the rest; it leaves nothing
\* if it takes nothing.
LEMMA TakenIs ==
  ASSUME NEW s \in Seq(Events)
  PROVE  LET seen == SubSeq(s, 1, Cut(s))
             rest == SubSeq(s, Cut(s) + 1, Len(s))
         IN  /\ Cut(s) \in 0 .. Len(s)
             /\ Taken(s) \in Seq(Events) /\ FitsIn(Taken(s))
             /\ Taken(s) = Only(seen, IF MaxBatchBytes = 0 THEN Events ELSE Events \ Bad)
             /\ seen \in Seq(Events) /\ rest \in Seq(Events) /\ s = seen \o rest
             /\ Len(rest) <= Len(s)
             /\ Taken(s) = <<>> => rest = <<>>
<1> DEFINE seen == SubSeq(s, 1, Cut(s))
           rest == SubSeq(s, Cut(s) + 1, Len(s))
<1>1. CASE MaxBatchBytes = 0
  <2>1. Cut(s) = Min({MaxBatchSize, Len(s)}) /\ Taken(s) = seen
    BY <1>1 DEF Cut, Taken
  <2>2. /\ Cut(s) \in 0 .. Len(s) /\ Cut(s) <= MaxBatchSize
        /\ Cut(s) = 0 => Len(s) = 0
    <3>1. MaxBatchSize \in Nat /\ MaxBatchSize # 0 /\ Len(s) \in Nat
      BY LimitsAssumption
    <3>2. /\ Cut(s) \in Nat /\ Cut(s) <= MaxBatchSize /\ Cut(s) <= Len(s)
          /\ Cut(s) = MaxBatchSize \/ Cut(s) = Len(s)
      BY <2>1, <3>1, PairMinIs
    <3> QED BY <3>1, <3>2
  <2>3. /\ seen \in Seq(Events) /\ rest \in Seq(Events) /\ s = seen \o rest
        /\ Len(seen) = Cut(s) /\ Len(rest) = Len(s) - Cut(s)
    BY <2>2, SplitIs
  <2>4. FitsIn(Taken(s))
    BY <1>1, <2>1, <2>2, <2>3 DEF FitsIn
  <2>5. Taken(s) = Only(seen, Events)
    <3> HIDE DEF seen
    <3> QED BY <2>1, <2>3, SetIn, OnlyAll
  <2>6. Taken(s) = <<>> => rest = <<>>
    <3> HIDE DEF seen, rest
    <3>1. Taken(s) = <<>> => Cut(s) = 0
      BY <2>1, <2>3
    <3>2. Cut(s) = 0 => Len(rest) = 0
      BY <2>2, <2>3
    <3> QED BY <2>3, <3>1, <3>2
  <2>7. Len(rest) <= Len(s)
    BY <2>2, <2>3
  <2> HIDE DEF seen, rest
  <2> QED BY <1>1, <2>1, <2>2, <2>3, <2>4, <2>5, <2>6, <2>7 DEF seen, rest
<1>2. CASE MaxBatchBytes # 0
  <2>1. /\ Cut(s) \in 0 .. Len(s) /\ Taken(s) = First(s, Cut(s))
        /\ Taken(s) = <<>> => Cut(s) = Len(s)
    BY <1>2, CutWithBytes
  <2>2. /\ seen \in Seq(Events) /\ rest \in Seq(Events) /\ s = seen \o rest
        /\ Len(rest) = Len(s) - Cut(s)
    BY <2>1, SplitIs
  <2>3. FitsIn(Taken(s)) /\ Taken(s) \in Seq(Events)
    BY <1>2, <2>1, FirstFits, FirstIs
  <2>4. Taken(s) = Only(seen, Events \ Bad)
    BY <2>1 DEF First, Good
  <2>5. Taken(s) = <<>> => rest = <<>>
    BY <2>1, <2>2
  <2>6. Len(rest) <= Len(s)
    BY <2>1, <2>2
  <2> HIDE DEF seen, rest
  <2> QED BY <1>2, <2>1, <2>2, <2>3, <2>4, <2>5, <2>6 DEF seen, rest
<1> QED BY <1>1, <1>2

\* What fits at the front of the queue is taken with the rest of the batch.
LEMMA LeadIsTaken ==
  ASSUME NEW b \in Seq(Events), NEW r \in Seq(Events), FitsIn(b), b # <<>>
  PROVE  LET s == b \o r
         IN  Taken(s) # <<>> /\ Len(SubSeq(s, Cut(s) + 1, Len(s))) <= Len(r)
<1> DEFINE s == b \o r
           k == Len(b)
<1>1. /\ s \in Seq(Events) /\ Len(s) = k + Len(r) /\ k \in Nat /\ Len(r) \in Nat
      /\ k # 0 /\ k <= MaxBatchSize /\ MaxBatchSize \in Nat
  BY ConcatIs, LimitsAssumption DEF FitsIn
<1>2. Cut(s) \in 0 .. Len(s) /\ Len(SubSeq(s, Cut(s) + 1, Len(s))) = Len(s) - Cut(s)
  BY <1>1, TakenIs, SplitIs
<1>3. Taken(s) # <<>> /\ k <= Cut(s)
  <2>1. CASE MaxBatchBytes = 0
    <3>1. Cut(s) = Min({MaxBatchSize, Len(s)}) /\ Taken(s) = SubSeq(s, 1, Cut(s))
      BY <2>1 DEF Cut, Taken
    <3>2. k <= Cut(s)
      BY <1>1, <3>1, PairMinIs
    <3>3. Len(SubSeq(s, 1, Cut(s))) = Cut(s)
      BY <1>1, <1>2, SplitIs
    <3> HIDE DEF s
    <3> QED BY <1>1, <1>2, <3>1, <3>2, <3>3
  <2>2. CASE MaxBatchBytes # 0
    <3> DEFINE g == Good(s)
    <3>1. g = b \o Good(r) /\ Good(r) \in Seq(Events)
      <4>1. Good(b) = b
        <5>1. ToSet(b) \subseteq Events \ Bad
          BY <2>2, SetIn DEF FitsIn
        <5> QED BY <5>1, OnlyAll DEF Good
      <4>2. Only(b \o r, Events \ Bad) = Only(b, Events \ Bad) \o Only(r, Events \ Bad)
        BY OnlyConcat
      <4>3. Only(r, Events \ Bad) \in Seq(Events)
        BY OnlyIs
      <4> QED BY <4>1, <4>2, <4>3 DEF Good
    <3>2. g \in Seq(Events) /\ Len(g) = k + Len(Good(r)) /\ Len(Good(r)) \in Nat
          /\ \A i \in 1 .. k : g[i] = b[i]
      <4>1. Len(Good(r)) \in Nat
        BY GoodIs
      <4> HIDE DEF g
      <4> QED BY <3>1, <4>1, ConcatIs
    <3>3. k = 1 \/ \E f : Sums(g, f, k) /\ f[k] <= MaxBatchBytes
      <4>1. \A f : Sums(b, f, k) => Sums(g, f, k)
        BY <3>2 DEF Sums
      <4>2. k <= 1 \/ \E f : Sums(b, f, k) /\ f[k] <= MaxBatchBytes
        BY <2>2 DEF FitsIn
      <4> HIDE DEF g, k
      <4>3. k <= 1 => k = 1
        BY <1>1
      <4> QED BY <4>1, <4>2, <4>3
    <3>4. k \in 1 .. Len(g)
      BY <1>1, <3>2
    <3>5. k <= Fitting(g) /\ Fitting(g) \in Nat
      <4> HIDE DEF g
      <4> QED BY <1>1, <3>2, <3>3, <3>4, FittingIs
    <3>6. Len(Taken(s)) = Fitting(g) /\ Taken(s) = First(s, Cut(s))
      BY <1>1, <2>2, CutWithBytes
    <3>7. Len(First(s, Cut(s))) <= Cut(s)
      BY <1>1, <1>2, FirstIs
    <3> HIDE DEF g, s
    <3>8. Taken(s) # <<>>
      BY <1>1, <3>5, <3>6
    <3> QED BY <1>1, <1>2, <3>5, <3>6, <3>7, <3>8
  <2> QED BY <2>1, <2>2
<1> HIDE DEF s
<1>4. Len(SubSeq(s, Cut(s) + 1, Len(s))) <= Len(r)
  BY <1>1, <1>2, <1>3
<1> QED BY <1>3, <1>4 DEF s
\* A queue, the batch taken of it and the rest: what is dropped is all that is
\* missing.
LEMMA DroppedIsMissing ==
  ASSUME NEW s \in Seq(Events), Distinct(s)
  PROVE  LET left == Taken(s) \o SubSeq(s, Cut(s) + 1, Len(s))
         IN  Only(s, Events \ (ToSet(s) \ ToSet(left))) = left
<1> DEFINE seen == SubSeq(s, 1, Cut(s))
           rest == SubSeq(s, Cut(s) + 1, Len(s))
           b == Taken(s)
           G == IF MaxBatchBytes = 0 THEN Events ELSE Events \ Bad
           D == ToSet(s) \ ToSet(b \o rest)
<1>1. /\ b \in Seq(Events) /\ b = Only(seen, G)
      /\ seen \in Seq(Events) /\ rest \in Seq(Events) /\ s = seen \o rest
  BY TakenIs
<1>2. G \subseteq Events
  OBVIOUS
<1> HIDE DEF seen, rest, b, G
<1>3. /\ ToSet(b \o rest) = ToSet(b) \cup ToSet(rest)
      /\ ToSet(s) = ToSet(seen) \cup ToSet(rest)
      /\ ToSet(seen) \cap ToSet(rest) = {}
      /\ ToSet(b) = ToSet(seen) \cap G
      /\ ToSet(seen) \subseteq Events /\ ToSet(rest) \subseteq Events
  BY <1>1, SetOfConcat, DistinctConcat, OnlyIs, SetIn
<1>4. \A x \in ToSet(seen) : x \in Events \ D <=> x \in G
  BY <1>2, <1>3
<1>5. ToSet(rest) \subseteq Events \ D
  BY <1>3
<1> HIDE DEF D
<1>6. Only(seen, Events \ D) = b
  BY <1>1, <1>4, OnlySame
<1>7. Only(rest, Events \ D) = rest
  BY <1>1, <1>5, OnlyAll
<1>8. Only(s, Events \ D) = b \o rest
  <2> DEFINE S == Events \ D
  <2> HIDE DEF S
  <2>1. Only(seen \o rest, S) = Only(seen, S) \o Only(rest, S)
    BY <1>1, OnlyConcat
  <2> QED BY <1>1, <1>6, <1>7, <2>1 DEF S
<1> QED BY <1>8 DEF D, b, rest

-----------------------------------------------------------------------------
(* The head of the drain loop.                                             *)

LEMMA EmptyFits == FitsIn(<<>>)
<1>1. Len(<<>>) = 0 /\ ToSet(<<>>) = {}
  BY SetOfEmpty
<1> QED BY <1>1, LimitsAssumption DEF FitsIn

\* Whatever the loop finds, it begins a send with a batch that fits, or it ends
\* with nothing left or closed; what it drops is all that is missing.
LEMMA LoopStep ==
  ASSUME NEW s \in Seq(Events), NEW f \in 0 .. MaxFailures, NEW ph, NEW gone,
         Loop(s, f, ph, gone)
  PROVE  /\ pending' \in Seq(Events) /\ batch' \in Seq(Events)
         /\ drain' \in {"idle", "sending"} /\ failures' \in 0 .. MaxFailures
         /\ drain' = "sending" <=> batch' # <<>>
         /\ FitsIn(batch')
         /\ closed => batch' = <<>>
         /\ drain' = "idle" => closed \/ (pending' = <<>> /\ phase' = Flushed(ph))
         /\ phase' = ph \/ phase' = Flushed(ph)
         /\ phase' = ph \/ (pending' = <<>> /\ batch' = <<>>)
         /\ Len(pending') <= Len(s)
         /\ \E D : /\ D \subseteq ToSet(s) /\ lost' = lost \cup gone \cup D
                   /\ Distinct(s) => Only(s, Events \ D) = batch' \o pending'
<1> DEFINE taken == Taken(s)
           rest == SubSeq(s, Cut(s) + 1, Len(s))
           D == ToSet(s) \ ToSet(taken \o rest)
<1>1. /\ <<>> \in Seq(Events) /\ Len(<<>>) = 0 /\ Len(s) \in Nat /\ 0 \in 0 .. MaxFailures
      /\ <<>> \o s = s
  BY LimitsAssumption
<1>2. CASE Stops(s)
  <2>1. /\ pending' = s /\ drain' = "idle" /\ batch' = <<>> /\ failures' = 0
        /\ phase' = IF s = <<>> THEN Flushed(ph) ELSE ph
        /\ lost' = lost \cup gone
    BY <1>2 DEF Loop, End
  <2>2. s = <<>> \/ closed
    BY <1>2 DEF Stops
  <2>3. Only(s, Events \ {}) = s /\ {} \subseteq ToSet(s)
    BY SetIn, OnlyAll
  <2>4. \E d : /\ d \subseteq ToSet(s) /\ lost' = lost \cup gone \cup d
               /\ Distinct(s) => Only(s, Events \ d) = batch' \o pending'
    BY <1>1, <2>1, <2>3
  <2>5. FitsIn(batch')
    BY <2>1, EmptyFits
  <2>6. Len(pending') <= Len(s)
    BY <1>1, <2>1
  <2>7. phase' = ph \/ (phase' = Flushed(ph) /\ s = <<>>)
    BY <2>1
  <2>8. drain' = "idle" => closed \/ (pending' = <<>> /\ phase' = Flushed(ph))
    BY <2>1, <2>2
  <2>9. /\ pending' \in Seq(Events) /\ batch' \in Seq(Events)
        /\ drain' \in {"idle", "sending"} /\ failures' \in 0 .. MaxFailures
        /\ drain' = "sending" <=> batch' # <<>>
        /\ closed => batch' = <<>>
    BY <1>1, <2>1
  <2> QED BY <2>1, <2>4, <2>5, <2>6, <2>7, <2>8, <2>9
<1>3. CASE ~ Stops(s)
  <2>1. s # <<>> /\ ~ closed
    BY <1>3 DEF Stops
  <2>2. /\ taken \in Seq(Events) /\ FitsIn(taken)
        /\ rest \in Seq(Events)
        /\ Len(rest) <= Len(s)
        /\ taken = <<>> => rest = <<>>
    BY TakenIs
  <2>3. Distinct(s) => Only(s, Events \ D) = taken \o rest
    BY DroppedIsMissing
  <2>4. /\ lost' = lost \cup gone \cup D
        /\ IF taken = <<>> THEN End(rest, ph)
           ELSE /\ pending' = rest /\ batch' = taken
                /\ drain' = "sending" /\ failures' = f /\ phase' = ph
    BY <1>3 DEF Loop
  <2>5. D \subseteq ToSet(s)
    OBVIOUS
  <2> HIDE DEF taken, rest, D
  <2>6. pending' = rest /\ batch' = taken
    BY <2>2, <2>4 DEF End
  <2>7. \E d : /\ d \subseteq ToSet(s) /\ lost' = lost \cup gone \cup d
               /\ Distinct(s) => Only(s, Events \ d) = batch' \o pending'
    BY <2>3, <2>4, <2>5, <2>6
  <2>8. CASE taken = <<>>
    <3>1. /\ drain' = "idle" /\ batch' = <<>> /\ failures' = 0 /\ pending' = <<>>
          /\ phase' = Flushed(ph)
      BY <2>2, <2>4, <2>8 DEF End
    <3> QED BY <1>1, <2>1, <2>2, <2>6, <2>7, <3>1, EmptyFits
  <2>9. CASE taken # <<>>
    <3>1. drain' = "sending" /\ failures' = f /\ phase' = ph
      BY <2>4, <2>9
    <3> QED BY <2>1, <2>2, <2>6, <2>7, <2>9, <3>1
  <2> QED BY <2>8, <2>9
<1> QED BY <1>2, <1>3

\* A queue that begins with what fits is sent again, and what was behind stays.
LEMMA LoopGoesOn ==
  ASSUME NEW b \in Seq(Events), NEW r \in Seq(Events), FitsIn(b), b # <<>>, ~ closed,
         NEW f, NEW ph, NEW gone, Loop(b \o r, f, ph, gone)
  PROVE  drain' = "sending" /\ phase' = ph /\ Len(pending') <= Len(r)
<1> DEFINE s == b \o r
           rest == SubSeq(s, Cut(s) + 1, Len(s))
<1>1. Taken(s) # <<>> /\ Len(rest) <= Len(r)
  BY LeadIsTaken
<1>2. s # <<>>
  <2>1. s \in Seq(Events) /\ ToSet(s) = ToSet(b) \cup ToSet(r) /\ ToSet(b) # {}
    BY ConcatIs, SetOfConcat, SetIn
  <2> QED BY <2>1, SetOfEmpty
<1>3. ~ Stops(s) /\ Loop(s, f, ph, gone)
  BY <1>2 DEF Stops
<1> HIDE DEF s
<1>4. drain' = "sending" /\ phase' = ph /\ pending' = rest
  BY <1>1, <1>3 DEF Loop
<1> QED BY <1>1, <1>4

-----------------------------------------------------------------------------
(* Calls and their events.                                                 *)

LEMMA CallIs ==
  ASSUME NEW x \in Calls
  PROVE  /\ Call(x).op \in Ops /\ Call(x).size \in 0 .. MaxQueueSize
         /\ Call(x).size \in Nat /\ MaxQueueSize \in Nat
         /\ x = <<x[1], x[2]>>
<1>1. PICK c \in Callers : \E k \in DOMAIN Program[c] : x = <<c, k>>
  BY DEF Calls
<1>3. PICK k \in DOMAIN Program[c] : x = <<c, k>>
  BY <1>1
<1>2. x[1] = c /\ x[2] = k
  BY <1>3
<1>4. Program[c][k].op \in Ops /\ Program[c][k].size \in 0 .. MaxQueueSize
  BY <1>3, ProgramAssumption
<1> QED BY <1>2, <1>3, <1>4, LimitsAssumption DEF Call

LEMMA ItemsAre ==
  ASSUME NEW x \in Calls
  PROVE  /\ Items(x) \in Seq(Events) /\ Len(Items(x)) = Call(x).size
         /\ Distinct(Items(x))
         /\ \A e \in ToSet(Items(x)) : <<e[1], e[2]>> = x
<1> DEFINE n == Call(x).size
<1>1. n \in Nat /\ x = <<x[1], x[2]>>
  BY CallIs
<1>2. Items(x) = [j \in 1 .. n |-> <<x[1], x[2], j>>]
  BY DEF Items
<1>3. \A j \in 1 .. n : <<x[1], x[2], j>> \in Events
  BY DEF Events
<1> HIDE DEF n
<1>4. /\ Items(x) \in Seq(Events) /\ Len(Items(x)) = n
      /\ DOMAIN Items(x) = 1 .. n
      /\ \A j \in 1 .. n : Items(x)[j] = <<x[1], x[2], j>>
  BY <1>1, <1>2, <1>3
<1>5. Distinct(Items(x))
  BY <1>4 DEF Distinct
<1>6. \A e \in ToSet(Items(x)) : <<e[1], e[2]>> = x
  BY <1>1, <1>4 DEF ToSet
<1> QED BY <1>4, <1>5, <1>6 DEF n
-----------------------------------------------------------------------------
(* The inductive invariant.                                                *)

\* No event enters twice, no call is woken twice for one wait.
Once == Distinct(entered) /\ Distinct(jobs) /\ Distinct(resolvers)

\* An event that has entered is one of a call that has put its events.
Placed ==
  \A e \in ToSet(entered) : phase[<<e[1], e[2]>>] \in {"wrote", "flushing", "returned"}

\* As long as it is open, the uploader drops only what has entered.
LostHadEntered == ~ closed => lost \subseteq ToSet(entered)

\* The loop sends what fits, and does not end with events that are pending.
Driven ==
  /\ drain = "sending" <=> batch # <<>>
  /\ FitsIn(batch)
  /\ ~ closed /\ drain = "idle" => pending = <<>>

\* What a failed send has put back is taken at once after the sleep, and what
\* is behind it is within the limit of the queue.
Ready ==
  ~ closed /\ drain = "sleeping" =>
    \E b, r \in Seq(Events) :
      pending = b \o r /\ b # <<>> /\ FitsIn(b) /\ Len(r) <= MaxQueueSize

\* A flush waits for events that have entered, a call that has not begun to
\* flush for none.
Began ==
  \A x \in Calls :
    /\ before[x] \subseteq ToSet(entered)
    /\ phase[x] \in {"ahead", "blocked", "woken", "wrote"} => before[x] = {}

UploaderInv ==
  /\ TypeOK /\ Once /\ Placed /\ LostHadEntered /\ Driven /\ Ready /\ Began
  /\ NothingMisplaced /\ Bounded /\ FlushMeansSent /\ WaitersAreServed

\* All that the type invariant says of the sequences.
LEMMA TypesAre ==
  ASSUME TypeOK
  PROVE  /\ pending \in Seq(Events) /\ batch \in Seq(Events)
         /\ entered \in Seq(Events) /\ acked \in Seq(Events)
         /\ resolvers \in Seq(Calls) /\ jobs \in Seq(Calls)
         /\ lost \subseteq Events /\ closed \in BOOLEAN
         /\ drain \in {"idle", "sending", "sleeping"}
         /\ failures \in 0 .. MaxFailures /\ phase \in [Calls -> Phases]
         /\ before \in [Calls -> SUBSET Events]
         /\ ToSet(resolvers) = {x \in Calls : phase[x] = "blocked"}
         /\ ToSet(jobs) = {x \in Calls : phase[x] = "woken"}
BY DEF TypeOK

LEMMA TypesMake ==
  ASSUME pending' \in Seq(Events), batch' \in Seq(Events),
         entered' \in Seq(Events), acked' \in Seq(Events),
         resolvers' \in Seq(Calls), jobs' \in Seq(Calls),
         lost' \subseteq Events, closed' \in BOOLEAN,
         drain' \in {"idle", "sending", "sleeping"},
         failures' \in 0 .. MaxFailures, phase' \in [Calls -> Phases],
         before' \in [Calls -> SUBSET Events],
         ToSet(resolvers') = {x \in Calls : phase'[x] = "blocked"},
         ToSet(jobs') = {x \in Calls : phase'[x] = "woken"}
  PROVE  TypeOK'
BY DEF TypeOK

LEMMA ConcatThree ==
  ASSUME NEW X, NEW s \in Seq(X), NEW t \in Seq(X), NEW u \in Seq(X)
  PROVE  s \o (t \o u) = (s \o t) \o u
OBVIOUS

LEMMA EmptyConcat ==
  ASSUME NEW X, NEW s \in Seq(X)
  PROVE  <<>> \o s = s /\ s \o <<>> = s /\ <<>> \in Seq(X)
OBVIOUS

LEMMA FlushedIs ==
  ASSUME NEW ph \in [Calls -> Phases]
  PROVE  /\ Flushed(ph) \in [Calls -> Phases]
         /\ \A x \in Calls :
              /\ ph[x] = "flushing" => Flushed(ph)[x] = "returned"
              /\ ph[x] # "flushing" => Flushed(ph)[x] = ph[x]
              /\ Flushed(ph)[x] # "flushing"
              /\ \A p \in {"ahead", "blocked", "woken", "wrote"} :
                   Flushed(ph)[x] = p <=> ph[x] = p
BY DEF Flushed, Phases

LEMMA WokenIs ==
  ASSUME NEW ph \in [Calls -> Phases]
  PROVE  /\ Woken(ph) \in [Calls -> Phases]
         /\ \A x \in Calls :
              /\ ph[x] = "blocked" => Woken(ph)[x] = "woken"
              /\ ph[x] # "blocked" => Woken(ph)[x] = ph[x]
              /\ Woken(ph)[x] # "blocked"
              /\ Woken(ph)[x] = "woken" <=> ph[x] \in {"woken", "blocked"}
              /\ \A p \in {"ahead", "wrote", "flushing", "returned"} :
                   Woken(ph)[x] = p <=> ph[x] = p
BY DEF Woken, Phases

LEMMA EventIs ==
  ASSUME NEW e \in Events
  PROVE  <<e[1], e[2]>> \in Calls
<1>1. PICK x \in Calls : \E j \in 1 .. Call(x).size : e = <<x[1], x[2], j>>
  BY DEF Events
<1>2. x = <<x[1], x[2]>>
  BY CallIs
<1> QED BY <1>1, <1>2

(* What is kept of a sequence of events when L is lost.                    *)
Kept(s, L) == Only(s, Events \ L)

LEMMA KeptIs ==
  ASSUME NEW s \in Seq(Events), NEW L
  PROVE  /\ Kept(s, L) \in Seq(Events) /\ ToSet(Kept(s, L)) = ToSet(s) \ L
         /\ Distinct(s) => Distinct(Kept(s, L))
         /\ ToSet(s) \cap L = {} => Kept(s, L) = s
         /\ ToSet(s) \subseteq L => Kept(s, L) = <<>>
<1> DEFINE S == Events \ L
<1>1. ToSet(s) \subseteq Events
  BY SetIn
<1>2. ToSet(s) \cap S = ToSet(s) \ L
  BY <1>1
<1>3. ToSet(s) \cap L = {} => ToSet(s) \subseteq S
  BY <1>1
<1> HIDE DEF S
<1>4. /\ Only(s, S) \in Seq(Events) /\ ToSet(Only(s, S)) = ToSet(s) \cap S
      /\ Distinct(s) => Distinct(Only(s, S))
  BY OnlyIs, DistinctOnly
<1>5. ToSet(s) \subseteq S => Only(s, S) = s
  BY OnlyAll
<1>6. ToSet(s) \cap S = {} => Only(s, S) = <<>>
  BY OnlyNone
<1>7. Kept(s, L) = Only(s, S)
  BY DEF Kept, S
<1>8. ToSet(s) \subseteq L => ToSet(s) \cap S = {}
  BY <1>2
<1> QED BY <1>2, <1>3, <1>4, <1>5, <1>6, <1>7, <1>8

LEMMA KeptConcat ==
  ASSUME NEW s \in Seq(Events), NEW t \in Seq(Events), NEW L
  PROVE  Kept(s \o t, L) = Kept(s, L) \o Kept(t, L)
<1> DEFINE S == Events \ L
<1> HIDE DEF S
<1>1. Only(s \o t, S) = Only(s, S) \o Only(t, S)
  BY OnlyConcat
<1> QED BY <1>1 DEF Kept, S

LEMMA KeptKept ==
  ASSUME NEW s \in Seq(Events), NEW L, NEW E
  PROVE  Kept(Kept(s, L), E) = Kept(s, L \cup E)
<1> DEFINE S == Events \ L
           T == Events \ E
<1>1. S \cap T = Events \ (L \cup E)
  OBVIOUS
<1> HIDE DEF S, T
<1>2. Only(Only(s, S), T) = Only(s, S \cap T)
  BY OnlyOnly
<1> QED BY <1>1, <1>2 DEF S, T, Kept

LEMMA LoopLoses ==
  ASSUME NEW s \in Seq(Events), NEW f \in 0 .. MaxFailures, NEW ph, NEW gone,
         Loop(s, f, ph, gone)
  PROVE  \E D : /\ D \subseteq ToSet(s) /\ lost' = lost \cup gone \cup D
                /\ Distinct(s) => Kept(s, D) = batch' \o pending'
<1>1. \E D : /\ D \subseteq ToSet(s) /\ lost' = lost \cup gone \cup D
             /\ Distinct(s) => Only(s, Events \ D) = batch' \o pending'
  <2> HIDE DEF Loop
  <2> QED BY LoopStep
<1> QED BY <1>1 DEF Kept

\* The queue after the head of the loop, if what had entered and was not lost
\* had been sent or was pending.
LEMMA QueueAfterLoop ==
  ASSUME NEW s \in Seq(Events), NEW f \in 0 .. MaxFailures,
         NEW ph, NEW gone, Loop(s, f, ph, gone), closed' = closed,
         entered' \in Seq(Events), acked' \in Seq(Events), Distinct(entered'),
         ~ closed => lost \cup gone \subseteq ToSet(entered'),
         ~ closed => Kept(entered', lost \cup gone) = acked' \o s,
         Len(s) <= MaxQueueSize + MaxBatchSize,
         ~ closed => Len(pending') <= MaxQueueSize
  PROVE  /\ Driven' /\ Ready' /\ LostHadEntered' /\ NothingMisplaced' /\ Bounded'
         /\ lost \cup gone \subseteq lost' /\ lost' \subseteq lost \cup gone \cup Events
<1>1. /\ pending' \in Seq(Events) /\ batch' \in Seq(Events)
      /\ drain' \in {"idle", "sending"}
      /\ drain' = "sending" <=> batch' # <<>>
      /\ FitsIn(batch')
      /\ closed => batch' = <<>>
      /\ drain' = "idle" => closed \/ pending' = <<>>
      /\ Len(pending') <= Len(s)
  BY LoopStep
<1>2. PICK D : /\ D \subseteq ToSet(s) /\ lost' = lost \cup gone \cup D
               /\ Distinct(s) => Kept(s, D) = batch' \o pending'
  BY LoopLoses
<1>3. ToSet(s) \subseteq Events
  BY SetIn
<1>4. ASSUME ~ closed
      PROVE  /\ lost' \subseteq ToSet(entered')
             /\ Kept(entered', lost') = acked' \o batch' \o pending'
  <2> DEFINE L == lost \cup gone
             w == Kept(entered', L)
  <2>1. w \in Seq(Events) /\ Distinct(w) /\ ToSet(w) = ToSet(entered') \ L
    BY KeptIs
  <2>2. w = acked' \o s
    BY <1>4
  <2> HIDE DEF w
  <2>3. /\ Distinct(s) /\ ToSet(acked') \cap ToSet(s) = {}
        /\ ToSet(s) \subseteq ToSet(w)
    BY <2>1, <2>2, DistinctConcat, SetOfConcat
  <2>4. lost' \subseteq ToSet(entered')
    BY <1>2, <1>4, <2>1, <2>3
  <2>5. Kept(entered', lost') = Kept(w, D)
    <3>1. lost' = L \cup D
      BY <1>2
    <3> HIDE DEF L
    <3> QED BY <3>1, KeptKept DEF w
  <2>6. Kept(w, D) = Kept(acked', D) \o Kept(s, D)
    BY <2>2, KeptConcat
  <2>7. Kept(acked', D) = acked'
    <3>1. ToSet(acked') \cap D = {}
      BY <1>2, <2>3
    <3> QED BY <3>1, KeptIs
  <2>8. Kept(s, D) = batch' \o pending'
    BY <1>2, <2>3
  <2>9. acked' \o (batch' \o pending') = acked' \o batch' \o pending'
    <3> DEFINE a == acked'
               b == batch'
               p == pending'
    <3>1. a \in Seq(Events) /\ b \in Seq(Events) /\ p \in Seq(Events)
      BY <1>1
    <3> HIDE DEF a, b, p
    <3>2. a \o (b \o p) = (a \o b) \o p
      BY <3>1, ConcatThree
    <3> QED BY <3>2 DEF a, b, p
  <2> QED BY <2>4, <2>5, <2>6, <2>7, <2>8, <2>9
<1>5. Driven'
  BY <1>1 DEF Driven
<1>6. Ready'
  BY <1>1 DEF Ready
<1>7. LostHadEntered'
  BY <1>4 DEF LostHadEntered
<1>8. NothingMisplaced'
  BY <1>4 DEF NothingMisplaced, Kept
<1>9. Bounded'
  <2>1. Len(pending') <= MaxQueueSize + MaxBatchSize
    <3>1. /\ Len(pending') \in Nat /\ Len(s) \in Nat
          /\ MaxQueueSize + MaxBatchSize \in Nat
      BY <1>1, LimitsAssumption
    <3> QED BY <1>1, <3>1
  <2>2. drain' = "sending" => Len(pending') <= MaxQueueSize
    BY <1>1
  <2> QED BY <2>1, <2>2 DEF Bounded
<1> QED BY <1>2, <1>3, <1>5, <1>6, <1>7, <1>8, <1>9
-----------------------------------------------------------------------------
(* What a step keeps.                                                      *)

\* If nothing is left, all that was not lost has been sent.
LEMMA SentIs ==
  ASSUME NEW s \in Seq(Events), NEW a \in Seq(Events), NEW L,
         Kept(s, L) = a \o <<>> \o <<>>
  PROVE  ToSet(s) \subseteq ToSet(a) \cup L
<1>1. a \o <<>> \o <<>> = a
  BY EmptyConcat
<1>2. ToSet(s) \ L = ToSet(a)
  BY <1>1, KeptIs
<1> QED BY <1>2

\* A flush that returns has waited, has waited for nothing, or nothing is left.
LEMMA SentStep ==
  ASSUME entered' \in Seq(Events), acked' \in Seq(Events),
         NothingMisplaced', Began', FlushMeansSent, closed' = closed,
         ToSet(acked) \subseteq ToSet(acked'), lost \subseteq lost',
         ~ closed => \A x \in Calls : phase'[x] = "returned" =>
                       \/ phase[x] = "returned" /\ before'[x] = before[x]
                       \/ before'[x] = {}
                       \/ pending' = <<>> /\ batch' = <<>>
  PROVE  FlushMeansSent'
<1> SUFFICES ASSUME ~ closed', NEW x \in Calls, phase'[x] = "returned"
             PROVE  before'[x] \subseteq ToSet(acked') \cup lost'
  BY DEF FlushMeansSent
<1>1. CASE phase[x] = "returned" /\ before'[x] = before[x]
  BY <1>1 DEF FlushMeansSent
<1>2. CASE before'[x] = {}
  BY <1>2
<1>3. CASE pending' = <<>> /\ batch' = <<>>
  <2>1. Kept(entered', lost') = acked' \o <<>> \o <<>>
    BY <1>3 DEF NothingMisplaced, Kept
  <2>2. ToSet(entered') \subseteq ToSet(acked') \cup lost'
    BY <2>1, SentIs
  <2> QED BY <2>2 DEF Began
<1> QED BY <1>1, <1>2, <1>3

\* The phases of events that have entered.
LEMMA PlacedStep ==
  ASSUME TypeOK, Placed, entered' = entered,
         \A x \in Calls : phase[x] \in {"wrote", "flushing", "returned"}
                            => phase'[x] \in {"wrote", "flushing", "returned"}
  PROVE  Placed'
<1> SUFFICES ASSUME NEW e \in ToSet(entered)
             PROVE  phase'[<<e[1], e[2]>>] \in {"wrote", "flushing", "returned"}
  BY DEF Placed
<1>1. e \in Events
  BY TypesAre, SetIn
<1>2. <<e[1], e[2]>> \in Calls
  BY <1>1, EventIs
<1>3. phase[<<e[1], e[2]>>] \in {"wrote", "flushing", "returned"}
  BY DEF Placed
<1> QED BY <1>2, <1>3

LEMMA BeganStep ==
  ASSUME Began, before' = before, ToSet(entered) \subseteq ToSet(entered'),
         \A x \in Calls : phase'[x] \in {"ahead", "blocked", "woken", "wrote"}
                            => phase[x] \in {"ahead", "blocked", "woken", "wrote"}
  PROVE  Began'
BY DEF Began

\* releaseBackpressure: all that are blocked become jobs, behind those there are.
LEMMA WakeAll ==
  ASSUME TypeOK, Once,
         phase' \in {Woken(phase), Flushed(Woken(phase)), Woken(Flushed(phase))},
         jobs' = jobs \o resolvers, resolvers' = <<>>
  PROVE  /\ phase' \in [Calls -> Phases]
         /\ jobs' \in Seq(Calls) /\ resolvers' \in Seq(Calls)
         /\ ToSet(resolvers') = {x \in Calls : phase'[x] = "blocked"}
         /\ ToSet(jobs') = {x \in Calls : phase'[x] = "woken"}
         /\ Distinct(jobs') /\ Distinct(resolvers')
         /\ \A x \in Calls :
              /\ phase'[x] # "blocked"
              /\ phase[x] \in {"wrote", "flushing", "returned"}
                   => phase'[x] \in {"wrote", "flushing", "returned"}
              /\ phase'[x] \in {"ahead", "blocked", "woken", "wrote"}
                   => phase[x] \in {"ahead", "blocked", "woken", "wrote"}
<1>1. /\ resolvers \in Seq(Calls) /\ jobs \in Seq(Calls)
      /\ phase \in [Calls -> Phases]
      /\ ToSet(resolvers) = {x \in Calls : phase[x] = "blocked"}
      /\ ToSet(jobs) = {x \in Calls : phase[x] = "woken"}
      /\ Distinct(jobs) /\ Distinct(resolvers)
  BY TypesAre DEF Once
<1>2. /\ Woken(phase) \in [Calls -> Phases] /\ Flushed(phase) \in [Calls -> Phases]
      /\ Flushed(Woken(phase)) \in [Calls -> Phases]
      /\ Woken(Flushed(phase)) \in [Calls -> Phases]
  BY <1>1, WokenIs, FlushedIs
<1>3. phase' \in [Calls -> Phases]
  BY <1>2
<1>4. ASSUME NEW x \in Calls
      PROVE  /\ phase'[x] # "blocked"
             /\ phase'[x] = "woken" <=> phase[x] \in {"woken", "blocked"}
             /\ phase[x] \in {"wrote", "flushing", "returned"}
                  => phase'[x] \in {"wrote", "flushing", "returned"}
             /\ phase'[x] \in {"ahead", "blocked", "woken", "wrote"}
                  => phase[x] \in {"ahead", "blocked", "woken", "wrote"}
  BY <1>1 DEF Woken, Flushed, Phases
<1>5. jobs' \in Seq(Calls) /\ ToSet(jobs') = ToSet(jobs) \cup ToSet(resolvers)
  BY <1>1, ConcatIs, SetOfConcat
<1>6. Distinct(jobs')
  <2>1. ToSet(jobs) \cap ToSet(resolvers) = {}
    BY <1>1
  <2> QED BY <1>1, <2>1, DistinctConcat
<1>7. ToSet(jobs') = {x \in Calls : phase'[x] = "woken"}
  BY <1>1, <1>4, <1>5
<1>8. resolvers' \in Seq(Calls) /\ ToSet(resolvers') = {} /\ Distinct(resolvers')
  BY SetOfEmpty DEF Distinct
<1>9. {x \in Calls : phase'[x] = "blocked"} = {}
  BY <1>4
<1> QED BY <1>3, <1>4, <1>5, <1>6, <1>7, <1>8, <1>9

-----------------------------------------------------------------------------
(* The invariant: a send that has ended.                                   *)

LEMMA SendEnds ==
  ASSUME UploaderInv, drain = "sending", NEW gone, gone \subseteq Events,
         Loop(pending, 0, Woken(phase), gone),
         jobs' = jobs \o resolvers, resolvers' = <<>>,
         closed' = closed, entered' = entered, before' = before,
         acked' \in Seq(Events), ToSet(acked) \subseteq ToSet(acked'),
         ~ closed => gone \subseteq ToSet(entered),
         ~ closed => Kept(entered, lost \cup gone) = acked' \o pending
  PROVE  UploaderInv'
<1>1. /\ TypeOK /\ Once /\ Placed /\ LostHadEntered /\ Began
      /\ Bounded /\ FlushMeansSent
  BY DEF UploaderInv
<1>2. /\ pending \in Seq(Events) /\ entered \in Seq(Events) /\ lost \subseteq Events
      /\ closed \in BOOLEAN /\ before \in [Calls -> SUBSET Events]
      /\ 0 \in 0 .. MaxFailures /\ Distinct(entered)
  BY <1>1, TypesAre, LimitsAssumption DEF Once
<1>3. /\ pending' \in Seq(Events) /\ batch' \in Seq(Events)
      /\ drain' \in {"idle", "sending"} /\ failures' \in 0 .. MaxFailures
      /\ drain' = "idle" => closed \/ (pending' = <<>> /\ phase' = Flushed(Woken(phase)))
      /\ phase' = Woken(phase) \/ phase' = Flushed(Woken(phase))
      /\ phase' = Woken(phase) \/ (pending' = <<>> /\ batch' = <<>>)
      /\ Len(pending') <= Len(pending)
  <2> HIDE DEF Loop
  <2> QED BY <1>2, LoopStep
<1>4. /\ phase' \in [Calls -> Phases]
      /\ jobs' \in Seq(Calls) /\ resolvers' \in Seq(Calls)
      /\ ToSet(resolvers') = {x \in Calls : phase'[x] = "blocked"}
      /\ ToSet(jobs') = {x \in Calls : phase'[x] = "woken"}
      /\ Distinct(jobs') /\ Distinct(resolvers')
      /\ \A x \in Calls :
           /\ phase'[x] # "blocked"
           /\ phase[x] \in {"wrote", "flushing", "returned"}
                => phase'[x] \in {"wrote", "flushing", "returned"}
           /\ phase'[x] \in {"ahead", "blocked", "woken", "wrote"}
                => phase[x] \in {"ahead", "blocked", "woken", "wrote"}
  BY <1>1, <1>3, WakeAll
<1>5. /\ Driven' /\ Ready' /\ LostHadEntered' /\ NothingMisplaced' /\ Bounded'
      /\ lost \cup gone \subseteq lost' /\ lost' \subseteq lost \cup gone \cup Events
  <2>1. /\ Len(pending) \in Nat /\ Len(pending) <= MaxQueueSize
        /\ MaxQueueSize \in Nat /\ MaxBatchSize \in Nat
    BY <1>1, <1>2, LimitsAssumption DEF Bounded
  <2>2. Len(pending') \in Nat
    BY <1>3
  <2>3. Len(pending) <= MaxQueueSize + MaxBatchSize /\ Len(pending') <= MaxQueueSize
    BY <1>3, <2>1, <2>2
  <2>4. ~ closed => lost \cup gone \subseteq ToSet(entered')
    BY <1>1 DEF LostHadEntered
  <2>5. entered' \in Seq(Events) /\ Distinct(entered')
    BY <1>2
  <2>6. ~ closed => Kept(entered', lost \cup gone) = acked' \o pending
    OBVIOUS
  <2> QED BY <1>1, <1>2, <2>3, <2>4, <2>5, <2>6, QueueAfterLoop
<1>6. TypeOK'
  <2>1. lost' \subseteq Events /\ drain' \in {"idle", "sending", "sleeping"}
    BY <1>2, <1>3, <1>5
  <2> QED BY <1>2, <1>3, <1>4, <2>1, TypesMake
<1>7. Once'
  BY <1>2, <1>4 DEF Once
<1>8. Placed'
  BY <1>1, <1>4, PlacedStep
<1>9. Began'
  BY <1>1, <1>4, BeganStep
<1>10. FlushMeansSent'
  <2>1. \A x \in Calls : Woken(phase)[x] = "returned" => phase[x] = "returned"
    BY <1>1, TypesAre, WokenIs
  <2>2. \A x \in Calls : phase'[x] = "returned" =>
          \/ phase[x] = "returned" /\ before'[x] = before[x]
          \/ before'[x] = {}
          \/ pending' = <<>> /\ batch' = <<>>
    BY <1>3, <2>1
  <2> QED BY <1>1, <1>2, <1>5, <1>9, <2>2, SentStep
<1>11. WaitersAreServed'
  <2>1. \A x \in Calls : Flushed(Woken(phase))[x] # "flushing"
    BY <1>1, TypesAre, WokenIs, FlushedIs
  <2>2. ASSUME ~ closed, drain' = "idle", NEW x \in Calls
        PROVE  phase'[x] \notin {"blocked", "flushing"}
    BY <1>3, <1>4, <2>1, <2>2
  <2> QED BY <2>2 DEF WaitersAreServed, Draining
<1> QED BY <1>5, <1>6, <1>7, <1>8, <1>9, <1>10, <1>11 DEF UploaderInv

LEMMA SendOkStep ==
  ASSUME UploaderInv, SendOk
  PROVE  UploaderInv'
<1>1. /\ drain = "sending" /\ acked' = acked \o batch
      /\ Loop(pending, 0, Woken(phase), {})
      /\ jobs' = jobs \o resolvers /\ resolvers' = <<>>
      /\ closed' = closed /\ entered' = entered /\ before' = before
  BY DEF SendOk
<1>2. acked \in Seq(Events) /\ batch \in Seq(Events) /\ NothingMisplaced
  BY TypesAre DEF UploaderInv
<1>3. acked' \in Seq(Events) /\ ToSet(acked) \subseteq ToSet(acked')
  BY <1>1, <1>2, ConcatIs, SetOfConcat
<1> DEFINE gone == {}
<1>4. ~ closed => Kept(entered, lost \cup gone) = acked' \o pending
  BY <1>1, <1>2 DEF NothingMisplaced, Kept
<1>5. gone \subseteq Events /\ gone \subseteq ToSet(entered)
  OBVIOUS
<1>6. Loop(pending, 0, Woken(phase), gone)
  BY <1>1
<1> HIDE DEF gone
<1> QED BY <1>1, <1>3, <1>4, <1>5, <1>6, SendEnds

LEMMA SendDropStep ==
  ASSUME UploaderInv, SendDrop
  PROVE  UploaderInv'
<1>1. /\ drain = "sending" /\ acked' = acked
      /\ Loop(pending, 0, Woken(phase), ToSet(batch))
      /\ jobs' = jobs \o resolvers /\ resolvers' = <<>>
      /\ closed' = closed /\ entered' = entered /\ before' = before
  BY DEF SendDrop
<1>2. /\ acked \in Seq(Events) /\ batch \in Seq(Events) /\ pending \in Seq(Events)
      /\ entered \in Seq(Events)
      /\ NothingMisplaced /\ Distinct(entered)
  BY TypesAre DEF UploaderInv, Once
<1>3. ToSet(batch) \subseteq Events /\ acked' \in Seq(Events)
  BY <1>1, <1>2, SetIn
<1>4. ASSUME ~ closed
      PROVE  /\ ToSet(batch) \subseteq ToSet(entered)
             /\ Kept(entered, lost \cup ToSet(batch)) = acked \o pending
  <2> DEFINE w == Kept(entered, lost)
             ab == acked \o batch
  <2>1. w = ab \o pending
    BY <1>2, <1>4 DEF NothingMisplaced, Kept
  <2>2. w \in Seq(Events) /\ Distinct(w) /\ ToSet(w) \subseteq ToSet(entered)
    BY <1>2, KeptIs
  <2>3. ab \in Seq(Events) /\ ToSet(ab) = ToSet(acked) \cup ToSet(batch)
    BY <1>2, ConcatIs, SetOfConcat
  <2>4. Kept(w, ToSet(batch)) = Kept(entered, lost \cup ToSet(batch))
    BY <1>2, KeptKept
  <2>5. Distinct(ab) => ToSet(acked) \cap ToSet(batch) = {}
    BY <1>2, DistinctConcat
  <2>6. Kept(ab, ToSet(batch)) = Kept(acked, ToSet(batch)) \o Kept(batch, ToSet(batch))
    BY <1>2, KeptConcat
  <2> HIDE DEF w, ab
  <2>7. Distinct(ab) /\ ToSet(ab) \cap ToSet(pending) = {} /\ ToSet(ab) \subseteq ToSet(w)
    BY <1>2, <2>1, <2>2, <2>3, DistinctConcat, SetOfConcat
  <2>8. Kept(w, ToSet(batch)) = Kept(ab, ToSet(batch)) \o Kept(pending, ToSet(batch))
    BY <1>2, <2>1, <2>3, KeptConcat
  <2>9. /\ Kept(acked, ToSet(batch)) = acked
        /\ Kept(pending, ToSet(batch)) = pending
        /\ Kept(batch, ToSet(batch)) = <<>>
    <3>1. ToSet(pending) \cap ToSet(batch) = {}
      BY <2>3, <2>7
    <3> QED BY <1>2, <2>5, <2>7, <3>1, KeptIs
  <2>10. acked \o <<>> = acked
    BY <1>2, EmptyConcat
  <2> QED BY <2>2, <2>3, <2>4, <2>6, <2>7, <2>8, <2>9, <2>10
<1> QED BY <1>1, <1>3, <1>4, SendEnds
LEMMA SendRetryStep ==
  ASSUME UploaderInv, SendRetry
  PROVE  UploaderInv'
<1>1. /\ TypeOK /\ Once /\ Placed /\ LostHadEntered /\ Driven /\ Began
      /\ NothingMisplaced /\ Bounded /\ FlushMeansSent /\ WaitersAreServed
  BY DEF UploaderInv
<1>2. /\ drain = "sending"
      /\ MaxFailures = 0 \/ failures + 1 < MaxFailures
      /\ pending' = batch \o pending
      /\ drain' = "sleeping" /\ batch' = <<>>
      /\ failures' = IF MaxFailures = 0 THEN 0 ELSE failures + 1
      /\ closed' = closed /\ phase' = phase /\ resolvers' = resolvers /\ jobs' = jobs
      /\ entered' = entered /\ acked' = acked /\ lost' = lost /\ before' = before
  BY DEF SendRetry, Requeued
<1>3. /\ pending \in Seq(Events) /\ batch \in Seq(Events) /\ entered \in Seq(Events)
      /\ acked \in Seq(Events) /\ failures \in 0 .. MaxFailures
      /\ batch # <<>> /\ FitsIn(batch)
      /\ Len(pending) <= MaxQueueSize
      /\ MaxQueueSize \in Nat /\ MaxBatchSize \in Nat /\ MaxFailures \in Nat
  BY <1>1, <1>2, TypesAre, LimitsAssumption DEF Driven, Bounded
<1>4. /\ pending' \in Seq(Events) /\ Len(pending') = Len(batch) + Len(pending)
      /\ Len(batch) \in Nat /\ Len(pending) \in Nat
  BY <1>2, <1>3, ConcatIs
<1>5. TypeOK'
  <2>1. failures' \in 0 .. MaxFailures
    BY <1>2, <1>3
  <2>2. batch' \in Seq(Events)
    BY <1>2
  <2>3. drain' \in {"idle", "sending", "sleeping"}
    BY <1>2
  <2> QED BY <1>1, <1>2, <1>4, <2>1, <2>2, <2>3, TypesAre, TypesMake
<1>6. Once' /\ LostHadEntered' /\ FlushMeansSent'
  BY <1>1, <1>2 DEF Once, LostHadEntered, FlushMeansSent
<1>7. Placed' /\ Began'
  BY <1>1, <1>2, PlacedStep, BeganStep
<1>8. Driven'
  BY <1>2, EmptyFits DEF Driven
<1>9. Ready'
  BY <1>2, <1>3 DEF Ready
<1>10. NothingMisplaced'
  <2>1. acked \o <<>> \o (batch \o pending) = acked \o batch \o pending
    BY <1>3, EmptyConcat, ConcatThree
  <2> QED BY <1>1, <1>2, <2>1 DEF NothingMisplaced
<1>11. Bounded'
  <2>1. Len(batch) <= MaxBatchSize
    BY <1>3 DEF FitsIn
  <2>2. Len(pending') <= MaxQueueSize + MaxBatchSize
    BY <1>3, <1>4, <2>1
  <2> QED BY <1>2, <2>2 DEF Bounded
<1>12. WaitersAreServed'
  BY <1>2 DEF WaitersAreServed, Draining
<1> QED BY <1>5, <1>6, <1>7, <1>8, <1>9, <1>10, <1>11, <1>12 DEF UploaderInv

LEMMA SleepEndStep ==
  ASSUME UploaderInv, SleepEnd
  PROVE  UploaderInv'
<1>1. /\ TypeOK /\ Once /\ Placed /\ LostHadEntered /\ Driven /\ Ready /\ Began
      /\ NothingMisplaced /\ Bounded /\ FlushMeansSent
  BY DEF UploaderInv
<1> DEFINE gone == {}
<1>2. /\ drain = "sleeping" /\ Loop(pending, failures, phase, gone)
      /\ closed' = closed /\ resolvers' = resolvers /\ jobs' = jobs
      /\ entered' = entered /\ acked' = acked /\ before' = before
  BY DEF SleepEnd
<1>3. gone \subseteq Events /\ lost \cup gone = lost
  OBVIOUS
<1> HIDE DEF gone
<1>4. /\ pending \in Seq(Events) /\ entered \in Seq(Events) /\ acked \in Seq(Events)
      /\ lost \subseteq Events /\ batch = <<>>
      /\ failures \in 0 .. MaxFailures /\ Distinct(entered)
      /\ phase \in [Calls -> Phases]
      /\ MaxQueueSize \in Nat /\ MaxBatchSize \in Nat
  BY <1>1, <1>2, TypesAre, LimitsAssumption DEF Once, Driven
<1>5. /\ pending' \in Seq(Events) /\ batch' \in Seq(Events)
      /\ drain' \in {"idle", "sending"} /\ failures' \in 0 .. MaxFailures
      /\ phase' = phase \/ phase' = Flushed(phase)
  <2> HIDE DEF Loop
  <2> QED BY <1>2, <1>4, LoopStep
<1>6. ASSUME ~ closed
      PROVE  drain' = "sending" /\ phase' = phase /\ Len(pending') <= MaxQueueSize
  <2>1. PICK b, r \in Seq(Events) :
               pending = b \o r /\ b # <<>> /\ FitsIn(b) /\ Len(r) <= MaxQueueSize
    BY <1>1, <1>2, <1>6 DEF Ready
  <2>2. Loop(b \o r, failures, phase, gone)
    BY <1>2, <2>1
  <2>3. drain' = "sending" /\ phase' = phase /\ Len(pending') <= Len(r)
    BY <1>6, <2>1, <2>2, LoopGoesOn
  <2>4. Len(pending') \in Nat /\ Len(r) \in Nat
    BY <1>5
  <2> QED BY <1>4, <2>1, <2>3, <2>4
<1>7. /\ Driven' /\ Ready' /\ LostHadEntered' /\ NothingMisplaced' /\ Bounded'
      /\ lost \cup gone \subseteq lost' /\ lost' \subseteq lost \cup gone \cup Events
  <2>1. Kept(entered, lost) = acked \o pending \/ closed
    <3>1. acked \o <<>> = acked
      BY <1>4, EmptyConcat
    <3> QED BY <1>1, <1>4, <3>1 DEF NothingMisplaced, Kept
  <2>2. ~ closed => Kept(entered', lost \cup gone) = acked' \o pending
    BY <1>2, <1>3, <2>1
  <2>3. ~ closed => lost \cup gone \subseteq ToSet(entered')
    BY <1>1, <1>2, <1>3 DEF LostHadEntered
  <2>4. Len(pending) <= MaxQueueSize + MaxBatchSize
    BY <1>1 DEF Bounded
  <2>5. entered' \in Seq(Events) /\ acked' \in Seq(Events) /\ Distinct(entered')
    BY <1>2, <1>4
  <2> QED BY <1>1, <1>2, <1>4, <1>6, <2>2, <2>3, <2>4, <2>5, QueueAfterLoop
<1>8. /\ phase' \in [Calls -> Phases]
      /\ \A x \in Calls : \A p \in {"ahead", "blocked", "woken", "wrote"} :
           phase'[x] = p <=> phase[x] = p
      /\ \A x \in Calls : phase[x] \in {"wrote", "flushing", "returned"}
                            => phase'[x] \in {"wrote", "flushing", "returned"}
  <2>1. CASE phase' = phase
    BY <1>4, <2>1
  <2>2. CASE phase' = Flushed(phase)
    <3>1. phase' \in [Calls -> Phases]
      BY <1>4, <2>2, FlushedIs
    <3>2. \A x \in Calls : \A p \in {"ahead", "blocked", "woken", "wrote"} :
            phase'[x] = p <=> phase[x] = p
      BY <1>4, <2>2, FlushedIs
    <3>3. \A x \in Calls : phase[x] \in {"wrote", "flushing", "returned"}
                             => phase'[x] \in {"wrote", "flushing", "returned"}
      BY <1>4, <2>2, FlushedIs
    <3> QED BY <3>1, <3>2, <3>3
  <2> QED BY <1>5, <2>1, <2>2
<1>9. TypeOK'
  <2>1. /\ {x \in Calls : phase'[x] = "blocked"} = {x \in Calls : phase[x] = "blocked"}
        /\ {x \in Calls : phase'[x] = "woken"} = {x \in Calls : phase[x] = "woken"}
    BY <1>8
  <2>2. lost' \subseteq Events /\ drain' \in {"idle", "sending", "sleeping"}
    BY <1>3, <1>4, <1>5, <1>7
  <2> QED BY <1>1, <1>2, <1>4, <1>5, <1>8, <2>1, <2>2, TypesAre, TypesMake
<1>10. Once'
  BY <1>1, <1>2 DEF Once
<1>11. Placed' /\ Began'
  BY <1>1, <1>2, <1>8, PlacedStep, BeganStep
<1>12. FlushMeansSent'
  BY <1>1, <1>2, <1>3, <1>6, <1>7 DEF FlushMeansSent
<1>13. WaitersAreServed'
  BY <1>2, <1>6 DEF WaitersAreServed, Draining
<1> QED BY <1>7, <1>9, <1>10, <1>11, <1>12, <1>13 DEF UploaderInv

LEMMA CloseStep ==
  ASSUME UploaderInv, Close
  PROVE  UploaderInv'
<1>1. /\ TypeOK /\ Once /\ Placed /\ Driven /\ Began /\ Bounded
  BY DEF UploaderInv
<1>2. /\ closed' = TRUE /\ pending' = <<>>
      /\ lost' = lost \cup ToSet(pending)
      /\ phase' = Woken(Flushed(phase))
      /\ jobs' = jobs \o resolvers /\ resolvers' = <<>>
      /\ drain' = drain /\ batch' = batch /\ failures' = failures
      /\ entered' = entered /\ acked' = acked /\ before' = before
  BY DEF Close, loopVars
<1>3. /\ phase' \in [Calls -> Phases]
      /\ jobs' \in Seq(Calls) /\ resolvers' \in Seq(Calls)
      /\ ToSet(resolvers') = {x \in Calls : phase'[x] = "blocked"}
      /\ ToSet(jobs') = {x \in Calls : phase'[x] = "woken"}
      /\ Distinct(jobs') /\ Distinct(resolvers')
      /\ \A x \in Calls :
           /\ phase[x] \in {"wrote", "flushing", "returned"}
                => phase'[x] \in {"wrote", "flushing", "returned"}
           /\ phase'[x] \in {"ahead", "blocked", "woken", "wrote"}
                => phase[x] \in {"ahead", "blocked", "woken", "wrote"}
  BY <1>1, <1>2, WakeAll
<1>4. TypeOK'
  <2>1. lost' \subseteq Events
    BY <1>1, <1>2, TypesAre, SetIn
  <2>2. pending' \in Seq(Events) /\ closed' \in BOOLEAN
    BY <1>2
  <2> QED BY <1>1, <1>2, <1>3, <2>1, <2>2, TypesAre, TypesMake
<1>5. Once'
  BY <1>1, <1>2, <1>3 DEF Once
<1>6. Placed' /\ Began'
  BY <1>1, <1>2, <1>3, PlacedStep, BeganStep
<1>7. Driven'
  BY <1>1, <1>2 DEF Driven
<1>8. Bounded'
  <2>1. Len(<<>>) = 0 /\ MaxQueueSize \in Nat /\ MaxBatchSize \in Nat
    BY LimitsAssumption
  <2> QED BY <1>2, <2>1 DEF Bounded
<1>9. /\ LostHadEntered' /\ Ready' /\ NothingMisplaced' /\ FlushMeansSent'
      /\ WaitersAreServed'
  BY <1>2 DEF LostHadEntered, Ready, NothingMisplaced, FlushMeansSent, WaitersAreServed
<1> QED BY <1>4, <1>5, <1>6, <1>7, <1>8, <1>9 DEF UploaderInv
-----------------------------------------------------------------------------
(* The invariant: the calls.                                               *)

\* An open uploader whose loop has ended has nothing pending, so a flush finds
\* the loop running or has nothing to wait for.
LEMMA FlushStep ==
  ASSUME UploaderInv, NEW x \in Calls, Flush(x)
  PROVE  UploaderInv'
<1>1. /\ TypeOK /\ Once /\ Placed /\ LostHadEntered /\ Driven /\ Ready /\ Began
      /\ NothingMisplaced /\ Bounded /\ FlushMeansSent /\ WaitersAreServed
  BY DEF UploaderInv
<1>2. /\ phase[x] \in {"ahead", "wrote"}
      /\ before' = [before EXCEPT ![x] = ToSet(entered)]
      /\ closed' = closed /\ resolvers' = resolvers /\ jobs' = jobs
      /\ entered' = entered /\ acked' = acked
  BY DEF Flush, Turn
<1>3. ~ Nothing => Draining \/ closed
  BY <1>1 DEF Nothing, Draining, Driven
<1>4. /\ pending' = pending /\ lost' = lost
      /\ drain' = drain /\ batch' = batch /\ failures' = failures
      /\ \/ phase' = [phase EXCEPT ![x] = "returned"] /\ Nothing
         \/ phase' = [phase EXCEPT ![x] = "flushing"] /\ (Draining \/ closed)
  <2>1. CASE Nothing
    BY <2>1 DEF Flush, loopVars
  <2>2. CASE ~ Nothing
    BY <1>3, <2>2 DEF Flush, Kick, loopVars
  <2> QED BY <2>1, <2>2
<1>5. /\ entered \in Seq(Events) /\ before \in [Calls -> SUBSET Events]
      /\ phase \in [Calls -> Phases]
  BY <1>1, TypesAre
<1>6. PICK p \in {"returned", "flushing"} : phase' = [phase EXCEPT ![x] = p]
  BY <1>4
<1>7. /\ phase' \in [Calls -> Phases]
      /\ phase'[x] = p
      /\ \A y \in Calls : y # x => phase'[y] = phase[y]
      /\ \A y \in Calls : \A q \in {"blocked", "woken"} : phase'[y] = q <=> phase[y] = q
  BY <1>2, <1>5, <1>6 DEF Phases
<1>8. TypeOK'
  <2>1. before' \in [Calls -> SUBSET Events]
    BY <1>2, <1>5, SetIn
  <2>2. /\ {y \in Calls : phase'[y] = "blocked"} = {y \in Calls : phase[y] = "blocked"}
        /\ {y \in Calls : phase'[y] = "woken"} = {y \in Calls : phase[y] = "woken"}
    BY <1>7
  <2> QED BY <1>1, <1>2, <1>4, <1>7, <2>1, <2>2, TypesAre, TypesMake
<1>9. Once' /\ LostHadEntered' /\ Driven' /\ NothingMisplaced' /\ Bounded'
  BY <1>1, <1>2, <1>4 DEF Once, LostHadEntered, Driven, NothingMisplaced, Bounded
<1>10. Ready'
  BY <1>1, <1>2, <1>4 DEF Ready
<1>11. Placed'
  <2>1. \A y \in Calls : phase[y] \in {"wrote", "flushing", "returned"}
                           => phase'[y] \in {"wrote", "flushing", "returned"}
    BY <1>7
  <2> QED BY <1>1, <1>2, <2>1, PlacedStep
<1>12. Began'
  <2> SUFFICES ASSUME NEW y \in Calls
               PROVE  /\ before'[y] \subseteq ToSet(entered)
                      /\ phase'[y] \in {"ahead", "blocked", "woken", "wrote"}
                           => before'[y] = {}
    BY <1>2 DEF Began
  <2>1. CASE y = x
    BY <1>2, <1>5, <1>7, <2>1
  <2>2. CASE y # x
    BY <1>1, <1>2, <1>5, <1>7, <2>2 DEF Began
  <2> QED BY <2>1, <2>2
<1>13. FlushMeansSent'
  <2> SUFFICES ASSUME ~ closed, NEW y \in Calls, phase'[y] = "returned"
               PROVE  before'[y] \subseteq ToSet(acked) \cup lost
    BY <1>2, <1>4 DEF FlushMeansSent
  <2>1. CASE y = x
    <3>1. Nothing
      BY <1>4, <1>5, <2>1
    <3>2. pending = <<>> /\ batch = <<>>
      BY <1>1, <3>1 DEF Nothing, Draining, Driven
    <3>3. Kept(entered, lost) = acked \o <<>> \o <<>> /\ acked \in Seq(Events)
      BY <1>1, <3>2, TypesAre DEF NothingMisplaced, Kept
    <3>4. before'[y] = ToSet(entered)
      BY <1>2, <1>5, <2>1
    <3> QED BY <1>5, <3>3, <3>4, SentIs
  <2>2. CASE y # x
    <3>1. phase[y] = "returned" /\ before'[y] = before[y]
      BY <1>2, <1>5, <1>7, <2>2
    <3> QED BY <1>1, <3>1 DEF FlushMeansSent
  <2> QED BY <2>1, <2>2
<1>14. WaitersAreServed'
  <2> SUFFICES ASSUME ~ closed, NEW y \in Calls, phase'[y] \in {"blocked", "flushing"}
               PROVE  Draining
    BY <1>2, <1>4 DEF WaitersAreServed, Draining
  <2>1. CASE y = x
    BY <1>4, <1>5, <2>1
  <2>2. CASE y # x
    BY <1>1, <1>7, <2>2 DEF WaitersAreServed
  <2> QED BY <2>1, <2>2
<1> QED BY <1>8, <1>9, <1>10, <1>11, <1>12, <1>13, <1>14 DEF UploaderInv

\* A call that is its caller's next, or has been woken, puts its events.  Of
\* the invariant, all but what is said of the two sequences of calls.
PutInv ==
  /\ Placed /\ LostHadEntered /\ Driven /\ Ready /\ Began
  /\ NothingMisplaced /\ Bounded /\ FlushMeansSent /\ WaitersAreServed
  /\ Distinct(entered)
  /\ {pending, batch, entered, acked} \subseteq Seq(Events)
  /\ lost \subseteq Events /\ closed \in BOOLEAN
  /\ drain \in {"idle", "sending", "sleeping"}
  /\ failures \in 0 .. MaxFailures /\ phase \in [Calls -> Phases]
  /\ before \in [Calls -> SUBSET Events]

LEMMA PutInvIs == ASSUME UploaderInv PROVE PutInv
BY TypesAre DEF UploaderInv, PutInv, Once

\* The phases ph, and what had entered before a flush, when x goes on.
WentOn(x, ph) ==
  /\ ph \in [Calls -> Phases]
  /\ \A y \in Calls : y # x => ph[y] = phase[y]
  /\ \A y \in Calls : phase[y] \in {"wrote", "flushing", "returned"}
                        => ph[y] \in {"wrote", "flushing", "returned"}
  /\ \A y \in Calls : ph[y] \in {"ahead", "blocked", "woken", "wrote"}
                        => phase[y] \in {"ahead", "blocked", "woken", "wrote"}
  /\ \A y \in Calls : ph[y] = "returned" =>
       \/ phase[y] = "returned" /\ before'[y] = before[y]
       \/ before'[y] = {}
  /\ \A y \in Calls : ph[y] = "flushing" => phase[y] = "flushing"

LEMMA GoesOn ==
  ASSUME PutInv, NEW x \in Calls, phase[x] \in {"ahead", "woken"},
         NEW p \in {"blocked", "wrote", "returned"}, before' = before
  PROVE  WentOn(x, [phase EXCEPT ![x] = p]) /\ [phase EXCEPT ![x] = p][x] = p
<1> DEFINE ph == [phase EXCEPT ![x] = p]
<1>1. phase \in [Calls -> Phases] /\ Began
  BY DEF PutInv
<1>2. before[x] = {}
  BY <1>1 DEF Began
<1>3. ph \in [Calls -> Phases] /\ ph[x] = p /\ \A y \in Calls : y # x => ph[y] = phase[y]
  BY <1>1 DEF Phases
<1> HIDE DEF ph
<1>4. WentOn(x, ph)
  BY <1>2, <1>3 DEF WentOn
<1> QED BY <1>3, <1>4 DEF ph

LEMMA Next1Is ==
  ASSUME NEW x \in Calls
  PROVE  Next1(x) \in {"wrote", "returned"}
BY DEF Next1

\* It puts nothing: the uploader is closed.
LEMMA PutClosed ==
  ASSUME PutInv, NEW x \in Calls, phase[x] \in {"ahead", "woken"}, Put(x), closed,
         closed' = closed, acked' = acked, before' = before
  PROVE  PutInv' /\ phase' = [phase EXCEPT ![x] = Next1(x)] /\ resolvers' = resolvers
<1>1. /\ phase' = [phase EXCEPT ![x] = Next1(x)]
      /\ pending' = pending /\ drain' = drain /\ batch' = batch
      /\ failures' = failures /\ resolvers' = resolvers
      /\ entered' = entered /\ lost' = lost
  BY DEF Put, loopVars
<1>2. WentOn(x, phase')
  BY <1>1, Next1Is, GoesOn
<1>3. Placed'
  <2> SUFFICES ASSUME NEW e \in ToSet(entered)
               PROVE  phase'[<<e[1], e[2]>>] \in {"wrote", "flushing", "returned"}
    BY <1>1 DEF Placed
  <2>1. <<e[1], e[2]>> \in Calls
    BY SetIn, EventIs DEF PutInv
  <2> QED BY <1>2, <2>1 DEF PutInv, Placed, WentOn
<1>4. Began'
  BY <1>1, <1>2, BeganStep DEF PutInv, WentOn
<1>5. /\ LostHadEntered' /\ Ready' /\ NothingMisplaced' /\ FlushMeansSent'
      /\ WaitersAreServed'
  BY DEF LostHadEntered, Ready, NothingMisplaced, FlushMeansSent, WaitersAreServed
<1>6. Driven' /\ Bounded'
  BY <1>1 DEF PutInv, Driven, Bounded
<1>7. Distinct(entered')
  BY <1>1 DEF PutInv
<1> QED BY <1>1, <1>2, <1>3, <1>4, <1>5, <1>6, <1>7 DEF PutInv, WentOn

\* It waits: there is no space, so something is pending and the loop runs.
LEMMA PutWaits ==
  ASSUME PutInv, NEW x \in Calls, phase[x] \in {"ahead", "woken"}, Put(x),
         ~ closed, ~ Fits(x),
         closed' = closed, acked' = acked, before' = before
  PROVE  PutInv' /\ phase' = [phase EXCEPT ![x] = "blocked"]
         /\ resolvers' = Append(resolvers, x)
<1>1. /\ phase' = [phase EXCEPT ![x] = "blocked"]
      /\ pending' = pending /\ drain' = drain /\ batch' = batch
      /\ failures' = failures /\ resolvers' = Append(resolvers, x)
      /\ entered' = entered /\ lost' = lost
  BY DEF Put, loopVars
<1>2. WentOn(x, phase') /\ phase'[x] = "blocked"
  BY <1>1, GoesOn
<1>3. Placed'
  <2> SUFFICES ASSUME NEW e \in ToSet(entered)
               PROVE  phase'[<<e[1], e[2]>>] \in {"wrote", "flushing", "returned"}
    BY <1>1 DEF Placed
  <2>1. <<e[1], e[2]>> \in Calls
    BY SetIn, EventIs DEF PutInv
  <2> QED BY <1>2, <2>1 DEF PutInv, Placed, WentOn
<1>4. Began'
  BY <1>1, <1>2, BeganStep DEF PutInv, WentOn
<1>5. LostHadEntered' /\ NothingMisplaced' /\ Driven' /\ Bounded' /\ Ready'
  BY <1>1 DEF PutInv, LostHadEntered, NothingMisplaced, Driven, Bounded, Ready
<1>6. FlushMeansSent'
  <2>1. \A y \in Calls : phase'[y] = "returned" => phase[y] = "returned"
    BY <1>2 DEF WentOn
  <2> QED BY <1>1, <2>1 DEF PutInv, FlushMeansSent
<1>7. WaitersAreServed'
  <2>1. pending # <<>>
    <3>1. Len(pending) \in Nat /\ ~ (Len(pending) + Call(x).size <= MaxQueueSize)
      BY DEF Fits, PutInv
    <3>2. Len(<<>>) = 0
      OBVIOUS
    <3> QED BY <3>1, <3>2, CallIs
  <2>2. drain # "idle"
    BY <2>1 DEF PutInv, Driven
  <2> QED BY <1>1, <2>2 DEF WaitersAreServed, Draining
<1>8. Distinct(entered')
  BY <1>1 DEF PutInv
<1> QED BY <1>1, <1>2, <1>3, <1>4, <1>5, <1>6, <1>7, <1>8 DEF PutInv, WentOn
\* The events behind all that had entered: none has entered before.
LEMMA EnteringIs ==
  ASSUME PutInv, NEW x \in Calls, phase[x] \in {"ahead", "woken"}, ~ closed
  PROVE  LET e == entered \o Items(x)
         IN  /\ e \in Seq(Events) /\ Distinct(e)
             /\ ToSet(e) = ToSet(entered) \cup ToSet(Items(x))
             /\ lost \subseteq ToSet(e)
             /\ pending \o Items(x) \in Seq(Events)
             /\ Len(pending \o Items(x)) = Len(pending) + Call(x).size
             /\ Kept(e, lost) = acked \o batch \o (pending \o Items(x))
<1> DEFINE t == Items(x)
<1>1. /\ entered \in Seq(Events) /\ pending \in Seq(Events) /\ batch \in Seq(Events)
      /\ acked \in Seq(Events)
      /\ Distinct(entered) /\ lost \subseteq ToSet(entered)
      /\ Kept(entered, lost) = acked \o batch \o pending
  BY DEF PutInv, LostHadEntered, NothingMisplaced, Kept
<1>2. /\ t \in Seq(Events) /\ Len(t) = Call(x).size /\ Distinct(t)
      /\ \A e \in ToSet(t) : <<e[1], e[2]>> = x
  BY ItemsAre
<1> HIDE DEF t
<1>3. ToSet(entered) \cap ToSet(t) = {}
  <2> SUFFICES ASSUME NEW e \in ToSet(entered), e \in ToSet(t) PROVE FALSE
    OBVIOUS
  <2>1. phase[<<e[1], e[2]>>] \in {"wrote", "flushing", "returned"}
    BY DEF PutInv, Placed
  <2> QED BY <1>2, <2>1
<1>4. /\ entered \o t \in Seq(Events) /\ Distinct(entered \o t)
      /\ ToSet(entered \o t) = ToSet(entered) \cup ToSet(t)
  BY <1>1, <1>2, <1>3, ConcatIs, DistinctConcat, SetOfConcat
<1>5. pending \o t \in Seq(Events) /\ Len(pending \o t) = Len(pending) + Call(x).size
  <2>1. pending \o t \in Seq(Events) /\ Len(pending \o t) = Len(pending) + Len(t)
    BY <1>1, <1>2, ConcatIs
  <2> QED BY <1>2, <2>1
<1>6. Kept(entered \o t, lost) = Kept(entered, lost) \o t
  <2>1. ToSet(t) \cap lost = {}
    BY <1>1, <1>3
  <2>2. Kept(t, lost) = t
    BY <1>2, <2>1, KeptIs
  <2>3. Kept(entered \o t, lost) = Kept(entered, lost) \o Kept(t, lost)
    BY <1>1, <1>2, KeptConcat
  <2> QED BY <2>2, <2>3
<1>7. (acked \o batch \o pending) \o t = acked \o batch \o (pending \o t)
  <2> DEFINE ab == acked \o batch
  <2>1. ab \in Seq(Events)
    BY <1>1, ConcatIs
  <2> HIDE DEF ab
  <2> DEFINE p == pending
  <2>2. p \in Seq(Events) /\ t \in Seq(Events)
    BY <1>1, <1>2
  <2> HIDE DEF p
  <2>3. ab \o (p \o t) = (ab \o p) \o t
    BY <2>1, <2>2, ConcatThree
  <2> QED BY <2>3 DEF ab, p
<1>8. lost \subseteq ToSet(entered \o t)
  BY <1>1, <1>4
<1> QED BY <1>1, <1>4, <1>5, <1>6, <1>7, <1>8 DEF t

\* It puts its events; the loop begins if it does not run.
LEMMA PutEnters ==
  ASSUME PutInv, NEW x \in Calls, phase[x] \in {"ahead", "woken"}, Put(x),
         ~ closed, Fits(x),
         closed' = closed, acked' = acked, before' = before
  PROVE  LET ph == [phase EXCEPT ![x] = Next1(x)]
         IN  /\ PutInv' /\ resolvers' = resolvers
             /\ phase' = ph \/ phase' = Flushed(ph)
<1> DEFINE ph == [phase EXCEPT ![x] = Next1(x)]
           s  == pending \o Items(x)
           gone == {}
<1>1. entered' = entered \o Items(x) /\ Kick(s, ph) /\ resolvers' = resolvers
  BY DEF Put
<1>2. /\ entered' \in Seq(Events) /\ Distinct(entered')
      /\ ToSet(entered') = ToSet(entered) \cup ToSet(Items(x))
      /\ lost \subseteq ToSet(entered')
      /\ s \in Seq(Events)
      /\ Len(s) = Len(pending) + Call(x).size
      /\ Kept(entered', lost) = acked \o batch \o s
  BY <1>1, EnteringIs
<1>3. WentOn(x, ph) /\ ph[x] = Next1(x)
  BY Next1Is, GoesOn
<1>4. Next1(x) \in {"wrote", "returned"}
  BY Next1Is
<1>5. /\ Len(pending) \in Nat /\ Len(s) <= MaxQueueSize
      /\ MaxQueueSize \in Nat /\ MaxBatchSize \in Nat /\ Len(s) \in Nat
      /\ Len(s) <= MaxQueueSize + MaxBatchSize
  <2>1. Len(pending) \in Nat /\ MaxBatchSize \in Nat
    BY LimitsAssumption DEF PutInv
  <2>2. Len(s) <= MaxQueueSize
    BY <1>2 DEF Fits
  <2> HIDE DEF s
  <2> QED BY <1>2, <2>1, <2>2, CallIs
<1>6. /\ pending \in Seq(Events) /\ batch \in Seq(Events) /\ acked \in Seq(Events)
      /\ lost \subseteq Events /\ failures \in 0 .. MaxFailures
      /\ 0 \in 0 .. MaxFailures
  BY LimitsAssumption DEF PutInv
<1>7. gone \subseteq Events /\ lost \cup gone = lost
  OBVIOUS
<1> HIDE DEF ph, s, gone
<1>8. CASE Draining
  <2>1. /\ pending' = s /\ phase' = ph /\ lost' = lost
        /\ drain' = drain /\ batch' = batch /\ failures' = failures
    BY <1>1, <1>8 DEF Kick, loopVars
  <2>2. Driven' /\ LostHadEntered' /\ NothingMisplaced' /\ Bounded'
    <3>1. LostHadEntered'
      BY <1>2, <2>1 DEF LostHadEntered
    <3>2. NothingMisplaced'
      BY <1>2, <2>1 DEF NothingMisplaced, Kept
    <3>3. Driven'
      BY <1>8, <2>1 DEF PutInv, Driven, Draining
    <3>4. Bounded'
      BY <1>5, <2>1 DEF Bounded
    <3> QED BY <3>1, <3>2, <3>3, <3>4
  <2>3. Ready'
    <3> SUFFICES ASSUME drain = "sleeping"
                 PROVE  \E b, r \in Seq(Events) :
                          s = b \o r /\ b # <<>> /\ FitsIn(b) /\ Len(r) <= MaxQueueSize
      BY <2>1 DEF Ready
    <3>1. PICK b, r \in Seq(Events) :
                 pending = b \o r /\ b # <<>> /\ FitsIn(b) /\ Len(r) <= MaxQueueSize
      BY DEF PutInv, Ready
    <3>2. /\ Items(x) \in Seq(Events) /\ Len(Items(x)) = Call(x).size
          /\ Call(x).size \in Nat
      BY ItemsAre, CallIs
    <3>3. r \o Items(x) \in Seq(Events) /\ Len(r \o Items(x)) = Len(r) + Call(x).size
      BY <3>1, <3>2, ConcatIs
    <3>4. s = b \o (r \o Items(x))
      BY <3>1, <3>2, ConcatThree DEF s
    <3>5. Len(r) <= Len(pending) /\ Len(r) \in Nat
      <4>1. Len(pending) = Len(b) + Len(r) /\ Len(b) \in Nat /\ Len(r) \in Nat
        BY <3>1, ConcatIs
      <4> QED BY <4>1
    <3>6. Len(r \o Items(x)) <= MaxQueueSize
      BY <1>2, <1>5, <3>2, <3>3, <3>5
    <3> QED BY <3>1, <3>3, <3>4, <3>6
  <2>4. PutInv' /\ phase' = ph
    <3>1. Began'
      BY <1>2, <1>3, <2>1, BeganStep DEF PutInv, WentOn
    <3>2. Placed'
      <4> SUFFICES ASSUME NEW e \in ToSet(entered')
                   PROVE  phase'[<<e[1], e[2]>>] \in {"wrote", "flushing", "returned"}
        BY DEF Placed
      <4>1. CASE e \in ToSet(Items(x))
        BY <1>3, <1>4, <2>1, <4>1, ItemsAre DEF WentOn
      <4>2. CASE e \in ToSet(entered)
        <5>1. /\ phase[<<e[1], e[2]>>] \in {"wrote", "flushing", "returned"}
              /\ <<e[1], e[2]>> \in Calls
          BY <4>2, SetIn, EventIs DEF PutInv, Placed
        <5> QED BY <1>3, <2>1, <5>1 DEF WentOn
      <4> QED BY <1>2, <4>1, <4>2
    <3>3. FlushMeansSent'
      <4>1. \A y \in Calls : phase'[y] = "returned" =>
              \/ phase[y] = "returned" /\ before'[y] = before[y]
              \/ before'[y] = {}
        BY <1>3, <2>1 DEF WentOn
      <4> QED BY <2>1, <4>1 DEF PutInv, FlushMeansSent
    <3>4. WaitersAreServed'
      BY <1>8, <2>1 DEF WaitersAreServed, Draining
    <3>5. {pending', batch', entered', acked'} \subseteq Seq(Events)
      BY <1>2, <1>6, <2>1
    <3> QED BY <1>2, <1>3, <2>1, <2>2, <2>3, <3>1, <3>2, <3>3, <3>4, <3>5 DEF PutInv, WentOn
  <2> QED BY <1>1, <2>4 DEF ph
<1>9. CASE ~ Draining
  <2>1. /\ drain = "idle" /\ pending = <<>> /\ batch = <<>>
        /\ Loop(s, 0, ph, gone)
    BY <1>1, <1>9 DEF Kick, Draining, PutInv, Driven, gone
  <2>2. /\ pending' \in Seq(Events) /\ batch' \in Seq(Events)
        /\ drain' \in {"idle", "sending"} /\ failures' \in 0 .. MaxFailures
        /\ drain' = "idle" => closed \/ (pending' = <<>> /\ phase' = Flushed(ph))
        /\ phase' = ph \/ phase' = Flushed(ph)
        /\ phase' = ph \/ (pending' = <<>> /\ batch' = <<>>)
        /\ Len(pending') <= Len(s)
    BY <1>2, <1>6, <2>1, LoopStep
  <2>3. Kept(entered', lost \cup gone) = acked' \o s
    <3>1. acked \o <<>> \o s = acked \o s
      BY <1>6, EmptyConcat
    <3> QED BY <1>2, <1>7, <2>1, <3>1
  <2>4. /\ Driven' /\ Ready' /\ LostHadEntered' /\ NothingMisplaced' /\ Bounded'
        /\ lost \cup gone \subseteq lost' /\ lost' \subseteq lost \cup gone \cup Events
    <3>1. Len(pending') \in Nat
      BY <2>2
    <3>2. Len(pending') <= MaxQueueSize
      BY <1>5, <2>2, <3>1
    <3>3. Items(x) \in Seq(Events)
      BY ItemsAre
    <3>4. acked' \in Seq(Events)
      BY <1>6
    <3>5. lost \cup gone \subseteq ToSet(entered')
      BY <1>2, <1>7
    <3> QED BY <1>2, <1>5, <1>6, <1>7, <2>1, <2>3, <3>2, <3>4, <3>5, QueueAfterLoop
  <2>5. /\ phase' \in [Calls -> Phases]
        /\ \A y \in Calls : ph[y] \in {"wrote", "flushing", "returned"}
                              => phase'[y] \in {"wrote", "flushing", "returned"}
        /\ \A y \in Calls : phase'[y] \in {"ahead", "blocked", "woken", "wrote"}
                              => phase'[y] = ph[y]
    <3>1. CASE phase' = ph
      BY <1>3, <3>1 DEF WentOn
    <3>2. CASE phase' = Flushed(ph)
      <4>1. /\ Flushed(ph) \in [Calls -> Phases]
            /\ \A y \in Calls :
                 /\ ph[y] = "flushing" => Flushed(ph)[y] = "returned"
                 /\ ph[y] # "flushing" => Flushed(ph)[y] = ph[y]
        BY <1>3, FlushedIs DEF WentOn
      <4> QED BY <3>2, <4>1
    <3> QED BY <2>2, <3>1, <3>2
  <2>6. Began'
    <3>1. \A y \in Calls : phase'[y] \in {"ahead", "blocked", "woken", "wrote"}
                             => phase[y] \in {"ahead", "blocked", "woken", "wrote"}
      BY <1>3, <2>5 DEF WentOn
    <3> QED BY <1>2, <3>1, BeganStep DEF PutInv
  <2>7. Placed'
    <3> SUFFICES ASSUME NEW e \in ToSet(entered')
                 PROVE  phase'[<<e[1], e[2]>>] \in {"wrote", "flushing", "returned"}
      BY DEF Placed
    <3>1. CASE e \in ToSet(Items(x))
      <4>1. <<e[1], e[2]>> = x
        BY <3>1, ItemsAre
      <4> QED BY <1>3, <1>4, <2>5, <4>1
    <3>2. CASE e \in ToSet(entered)
      <4>1. /\ phase[<<e[1], e[2]>>] \in {"wrote", "flushing", "returned"}
            /\ <<e[1], e[2]>> \in Calls
        BY <3>2, SetIn, EventIs DEF PutInv, Placed
      <4> QED BY <1>3, <2>5, <4>1 DEF WentOn
    <3> QED BY <1>2, <3>1, <3>2
  <2>8. FlushMeansSent'
    <3>1. \A y \in Calls : phase'[y] = "returned" =>
            \/ phase[y] = "returned" /\ before'[y] = before[y]
            \/ before'[y] = {}
            \/ pending' = <<>> /\ batch' = <<>>
      BY <1>3, <2>2 DEF WentOn
    <3>2. FlushMeansSent /\ acked' \in Seq(Events)
      BY <1>6 DEF PutInv
    <3> QED BY <1>2, <2>4, <2>6, <3>1, <3>2, SentStep
  <2>9. WaitersAreServed'
    <3> SUFFICES ASSUME NEW y \in Calls, phase'[y] \in {"blocked", "flushing"}
                 PROVE  drain' # "idle"
      BY DEF WaitersAreServed, Draining
    <3>1. phase[y] \notin {"blocked", "flushing"}
      BY <2>1 DEF PutInv, WaitersAreServed, Draining
    <3>2. ph[y] # "blocked" /\ ph[y] # "flushing"
      BY <1>3, <1>4, <3>1 DEF WentOn
    <3>3. phase' = ph \/ phase' = Flushed(ph)
      BY <2>2
    <3>4. Flushed(ph)[y] # "flushing" /\ (Flushed(ph)[y] = "blocked" <=> ph[y] = "blocked")
      BY <1>3, FlushedIs DEF WentOn
    <3> QED BY <3>2, <3>3, <3>4
  <2>10. lost' \subseteq Events
    BY <1>6, <1>7, <2>4
  <2>11. PutInv'
    <3>1. {pending', batch', entered', acked'} \subseteq Seq(Events)
      BY <1>2, <1>6, <2>2
    <3>2. /\ closed' \in BOOLEAN /\ before' \in [Calls -> SUBSET Events]
          /\ drain' \in {"idle", "sending", "sleeping"}
      BY <2>2 DEF PutInv
    <3> QED BY <1>2, <2>2, <2>4, <2>5, <2>6, <2>7, <2>8, <2>9, <2>10, <3>1, <3>2 DEF PutInv
  <2> QED BY <1>1, <2>2, <2>11 DEF ph
<1> QED BY <1>8, <1>9
\* Put keeps the invariant and leaves the other calls where they wait; the
\* call itself waits at the end of the resolvers or no longer.
LEMMA PutStep ==
  ASSUME PutInv, NEW x \in Calls, phase[x] \in {"ahead", "woken"}, Put(x),
         closed' = closed, acked' = acked, before' = before
  PROVE  /\ PutInv'
         /\ \A y \in Calls : y # x => \A p \in {"blocked", "woken"} :
                                        phase'[y] = p <=> phase[y] = p
         /\ \/ phase'[x] = "blocked" /\ resolvers' = Append(resolvers, x)
            \/ phase'[x] \in {"wrote", "returned"} /\ resolvers' = resolvers
<1> DEFINE ph == [phase EXCEPT ![x] = Next1(x)]
<1>1. WentOn(x, ph) /\ ph[x] = Next1(x) /\ Next1(x) \in {"wrote", "returned"}
  BY GoesOn, Next1Is
<1>2. CASE closed
  <2>1. PutInv' /\ phase' = ph /\ resolvers' = resolvers
    BY <1>2, PutClosed
  <2> HIDE DEF ph
  <2> QED BY <1>1, <2>1 DEF WentOn
<1>3. CASE ~ closed /\ ~ Fits(x)
  <2>1. /\ PutInv' /\ phase' = [phase EXCEPT ![x] = "blocked"]
        /\ resolvers' = Append(resolvers, x)
    BY <1>3, PutWaits
  <2>2. phase \in [Calls -> Phases]
    BY DEF PutInv
  <2> QED BY <2>1, <2>2
<1>4. CASE ~ closed /\ Fits(x)
  <2>1. /\ PutInv' /\ resolvers' = resolvers
        /\ phase' = ph \/ phase' = Flushed(ph)
    BY <1>4, PutEnters
  <2> HIDE DEF ph
  <2>2. \A y \in Calls : /\ ph[y] # "flushing" => Flushed(ph)[y] = ph[y]
                         /\ \A p \in {"blocked", "woken"} : Flushed(ph)[y] = p <=> ph[y] = p
    BY <1>1, FlushedIs DEF WentOn
  <2>3. \A y \in Calls : \A p \in {"blocked", "woken"} : phase'[y] = p <=> ph[y] = p
    BY <2>1, <2>2
  <2>4. phase'[x] = ph[x]
    BY <1>1, <2>1, <2>2
  <2> QED BY <1>1, <2>1, <2>3, <2>4 DEF WentOn
<1> QED BY <1>2, <1>3, <1>4

\* Whoever calls Put: the two sequences of calls.
LEMMA CallGoesOn ==
  ASSUME UploaderInv, NEW x \in Calls, phase[x] \in {"ahead", "woken"}, Put(x),
         closed' = closed, acked' = acked, before' = before,
         jobs' \in Seq(Calls), Distinct(jobs'),
         ToSet(jobs') = {y \in Calls : phase[y] = "woken"} \ {x}
  PROVE  UploaderInv'
<1>1. /\ PutInv'
      /\ \A y \in Calls : y # x => \A p \in {"blocked", "woken"} :
                                     phase'[y] = p <=> phase[y] = p
      /\ \/ phase'[x] = "blocked" /\ resolvers' = Append(resolvers, x)
         \/ phase'[x] \in {"wrote", "returned"} /\ resolvers' = resolvers
  BY PutInvIs, PutStep
<1>2. /\ resolvers \in Seq(Calls) /\ Distinct(resolvers)
      /\ ToSet(resolvers) = {y \in Calls : phase[y] = "blocked"}
  BY TypesAre DEF UploaderInv, Once
<1>3. ToSet(jobs') = {y \in Calls : phase'[y] = "woken"}
  <2>1. phase'[x] # "woken"
    BY <1>1
  <2> QED BY <1>1, <2>1
<1>4. /\ resolvers' \in Seq(Calls) /\ Distinct(resolvers')
      /\ ToSet(resolvers') = {y \in Calls : phase'[y] = "blocked"}
  <2>1. CASE phase'[x] = "blocked" /\ resolvers' = Append(resolvers, x)
    <3>1. resolvers' \in Seq(Calls) /\ ToSet(resolvers') = ToSet(resolvers) \cup {x}
      BY <1>2, <2>1, AppendedIs, SetOfAppend
    <3>2. x \notin ToSet(resolvers)
      BY <1>2
    <3>3. Distinct(resolvers')
      BY <1>2, <2>1, <3>2, DistinctAppend
    <3> QED BY <1>1, <1>2, <2>1, <3>1, <3>3
  <2>2. CASE phase'[x] \in {"wrote", "returned"} /\ resolvers' = resolvers
    BY <1>1, <1>2, <2>2
  <2> QED BY <1>1, <2>1, <2>2
<1>5. TypeOK'
  <2>1. /\ pending' \in Seq(Events) /\ batch' \in Seq(Events)
        /\ entered' \in Seq(Events) /\ acked' \in Seq(Events)
        /\ lost' \subseteq Events /\ closed' \in BOOLEAN
        /\ drain' \in {"idle", "sending", "sleeping"}
        /\ failures' \in 0 .. MaxFailures /\ phase' \in [Calls -> Phases]
        /\ before' \in [Calls -> SUBSET Events]
    BY <1>1 DEF PutInv
  <2> QED BY <1>3, <1>4, <2>1, TypesMake
<1>6. Once'
  BY <1>1, <1>4 DEF Once, PutInv
<1> QED BY <1>1, <1>5, <1>6 DEF UploaderInv, PutInv

LEMMA EnqueueStep ==
  ASSUME UploaderInv, NEW x \in Calls, Enqueue(x)
  PROVE  UploaderInv'
<1>1. /\ phase[x] = "ahead" /\ Put(x)
      /\ closed' = closed /\ jobs' = jobs /\ acked' = acked /\ before' = before
  BY DEF Enqueue, Turn
<1>2. /\ jobs \in Seq(Calls) /\ Distinct(jobs)
      /\ ToSet(jobs) = {y \in Calls : phase[y] = "woken"}
  BY TypesAre DEF UploaderInv, Once
<1>3. ToSet(jobs') = {y \in Calls : phase[y] = "woken"} \ {x}
  BY <1>1, <1>2
<1>4. jobs' \in Seq(Calls) /\ Distinct(jobs')
  BY <1>1, <1>2
<1> QED BY <1>1, <1>3, <1>4, CallGoesOn

\* The jobs but the first.
LEMMA TailIs ==
  ASSUME NEW X, NEW s \in Seq(X), s # <<>>, Distinct(s)
  PROVE  /\ Head(s) \in X /\ Tail(s) \in Seq(X) /\ Distinct(Tail(s))
         /\ ToSet(Tail(s)) = ToSet(s) \ {Head(s)}
<1>1. /\ Head(s) \in X /\ Head(s) = s[1] /\ Tail(s) \in Seq(X)
      /\ Len(s) \in Nat /\ Len(s) # 0 /\ Len(Tail(s)) = Len(s) - 1
      /\ DOMAIN s = 1 .. Len(s) /\ DOMAIN Tail(s) = 1 .. Len(s) - 1
      /\ \A i \in 1 .. Len(s) - 1 : Tail(s)[i] = s[i + 1]
  OBVIOUS
<1> DEFINE t == Tail(s)
           h == Head(s)
           n == Len(s)
<1>2. /\ DOMAIN s = 1 .. n /\ DOMAIN t = 1 .. n - 1 /\ n \in Nat /\ n # 0
      /\ h = s[1] /\ \A i \in 1 .. n - 1 : t[i] = s[i + 1]
  BY <1>1
<1> HIDE DEF t, h, n
<1>3. Distinct(t)
  <2> SUFFICES ASSUME NEW i \in 1 .. n - 1, NEW j \in 1 .. n - 1, t[i] = t[j]
               PROVE  i = j
    BY <1>2 DEF Distinct
  <2>1. s[i + 1] = s[j + 1] /\ i + 1 \in DOMAIN s /\ j + 1 \in DOMAIN s
    BY <1>2
  <2>2. i + 1 = j + 1
    BY <2>1 DEF Distinct
  <2> QED BY <2>2
<1>4. ASSUME NEW i \in 1 .. n - 1 PROVE t[i] \in ToSet(s) /\ t[i] # h
  <2>1. i + 1 \in DOMAIN s /\ 1 \in DOMAIN s /\ i + 1 # 1 /\ t[i] = s[i + 1]
    BY <1>2
  <2> QED BY <1>2, <2>1 DEF Distinct, ToSet
<1>5. ASSUME NEW i \in 1 .. n, s[i] # h PROVE s[i] \in ToSet(t)
  <2>1. i - 1 \in DOMAIN t /\ t[i - 1] = s[i]
    BY <1>2, <1>5
  <2> QED BY <2>1 DEF ToSet
<1>6. ToSet(t) = ToSet(s) \ {h}
  <2>1. ToSet(t) \subseteq ToSet(s) \ {h}
    BY <1>2, <1>4 DEF ToSet
  <2>2. ToSet(s) \ {h} \subseteq ToSet(t)
    BY <1>2, <1>5 DEF ToSet
  <2> QED BY <2>1, <2>2
<1> QED BY <1>1, <1>3, <1>6 DEF t, h

LEMMA ResumeStep ==
  ASSUME UploaderInv, Resume
  PROVE  UploaderInv'
<1>1. /\ jobs # <<>> /\ phase[Head(jobs)] = "woken"
      /\ jobs' = Tail(jobs) /\ Put(Head(jobs))
      /\ closed' = closed /\ acked' = acked /\ before' = before
  BY DEF Resume
<1>2. /\ jobs \in Seq(Calls) /\ Distinct(jobs)
      /\ ToSet(jobs) = {y \in Calls : phase[y] = "woken"}
  BY TypesAre DEF UploaderInv, Once
<1>3. /\ Head(jobs) \in Calls /\ jobs' \in Seq(Calls) /\ Distinct(jobs')
      /\ ToSet(jobs') = {y \in Calls : phase[y] = "woken"} \ {Head(jobs)}
  BY <1>1, <1>2, TailIs
<1> QED BY <1>1, <1>3, CallGoesOn

-----------------------------------------------------------------------------
(* The theorems.                                                           *)

LEMMA InitInv ==
  ASSUME Init
  PROVE  UploaderInv
<1>1. /\ pending = <<>> /\ closed = FALSE /\ drain = "idle" /\ batch = <<>>
      /\ failures = 0 /\ phase = [x \in Calls |-> "ahead"]
      /\ resolvers = <<>> /\ jobs = <<>> /\ entered = <<>> /\ acked = <<>>
      /\ lost = {} /\ before = [x \in Calls |-> {}]
  BY DEF Init
<1>2. ToSet(<<>>) = {} /\ Distinct(<<>>) /\ FitsIn(<<>>)
  BY SetOfEmpty, EmptyFits DEF Distinct
<1>3. TypeOK
  <2>1. <<>> \in Seq(Events) /\ <<>> \in Seq(Calls) /\ 0 \in 0 .. MaxFailures
    BY LimitsAssumption
  <2>2. ToSet(resolvers) = {} /\ ToSet(jobs) = {}
    BY <1>1, <1>2
  <2>3. phase \in [Calls -> Phases] /\ before \in [Calls -> SUBSET Events]
    BY <1>1 DEF Phases
  <2>4. {x \in Calls : phase[x] = "blocked"} = {} /\ {x \in Calls : phase[x] = "woken"} = {}
    BY <1>1
  <2> QED BY <1>1, <2>1, <2>2, <2>3, <2>4 DEF TypeOK
<1>4. Once /\ Placed /\ LostHadEntered /\ Driven /\ Ready /\ Began
  BY <1>1, <1>2 DEF Once, Placed, LostHadEntered, Driven, Ready, Began
<1>5. NothingMisplaced
  <2>1. <<>> \in Seq(Events)
    OBVIOUS
  <2>2. Only(<<>>, Events \ lost) = <<>> /\ <<>> \o <<>> \o <<>> = <<>>
    BY <2>1, OnlyOfEmpty, EmptyConcat
  <2> QED BY <1>1, <2>2 DEF NothingMisplaced
<1>6. Bounded
  <2>1. Len(<<>>) = 0 /\ MaxQueueSize \in Nat /\ MaxBatchSize \in Nat
    BY LimitsAssumption
  <2> QED BY <1>1, <2>1 DEF Bounded
<1>7. FlushMeansSent /\ WaitersAreServed
  BY <1>1 DEF FlushMeansSent, WaitersAreServed
<1> QED BY <1>3, <1>4, <1>5, <1>6, <1>7 DEF UploaderInv

LEMMA StepInv ==
  ASSUME UploaderInv, [Next]_vars
  PROVE  UploaderInv'
<1>1. ASSUME NEW x \in Calls, Enqueue(x) PROVE UploaderInv'
  BY <1>1, EnqueueStep
<1>2. ASSUME NEW x \in Calls, Flush(x) PROVE UploaderInv'
  BY <1>2, FlushStep
<1>3. CASE Resume
  BY <1>3, ResumeStep
<1>4. CASE SendOk
  BY <1>4, SendOkStep
<1>5. CASE SendRetry
  BY <1>5, SendRetryStep
<1>6. CASE SendDrop
  BY <1>6, SendDropStep
<1>7. CASE SleepEnd
  BY <1>7, SleepEndStep
<1>8. CASE Close
  BY <1>8, CloseStep
<1>9. CASE UNCHANGED vars
  BY <1>9 DEF vars, loopVars, UploaderInv, TypeOK, Once, Placed, LostHadEntered, Driven,
              Ready, Began, NothingMisplaced, Bounded, FlushMeansSent, WaitersAreServed,
              Draining
<1> QED BY <1>1, <1>2, <1>3, <1>4, <1>5, <1>6, <1>7, <1>8, <1>9 DEF Next

THEOREM Invariant == Spec => []UploaderInv
<1>1. Init => UploaderInv
  BY InitInv
<1>2. UploaderInv /\ [Next]_vars => UploaderInv'
  BY StepInv
<1> QED BY <1>1, <1>2, PTL DEF Spec

\* The queue of the uploader is sound (QueueSound): whatever fails, is put back
\* or is dropped, the events that are not lost are acknowledged, under way or
\* pending in the order in which they entered, and the queue is within its
\* limit but for one batch that was put back.
THEOREM QueueIsSound == Spec => []QueueSound
<1>1. UploaderInv => QueueSound
  BY DEF UploaderInv, QueueSound
<1> QED BY <1>1, Invariant, PTL

\* No wake-up is lost and no flush lies (WaitersSound): while a call waits the
\* loop runs, and a flush returns when all that had entered has been sent or
\* given up.
THEOREM WaitersAreSound == Spec => []WaitersSound
<1>1. UploaderInv => WaitersSound
  BY DEF UploaderInv, WaitersSound
<1> QED BY <1>1, Invariant, PTL

\* close() stops the sends (ClosedSendsNothing): a closed uploader begins none,
\* although the one under way goes on and may put its batch back.
THEOREM ClosedIsQuiet == Spec => ClosedSendsNothing
<1>1. ASSUME UploaderInv, [Next]_vars, closed PROVE batch' \in {batch, <<>>}
  <2>1. ASSUME NEW s \in Seq(Events), NEW f, NEW ph, NEW gone, Loop(s, f, ph, gone)
        PROVE  batch' = <<>>
    BY <1>1, <2>1 DEF Loop, Stops, End
  <2>2. ASSUME NEW s, NEW ph, Kick(s, ph) PROVE batch' = batch
    BY <1>1, <2>2 DEF Kick, loopVars
  <2>3. ASSUME NEW x, Put(x) PROVE batch' = batch
    BY <1>1, <2>3 DEF Put, loopVars
  <2>4. ASSUME NEW x \in Calls, Enqueue(x) \/ Flush(x) PROVE batch' = batch
    BY <2>2, <2>3, <2>4 DEF Enqueue, Flush, loopVars
  <2>5. CASE Resume
    BY <2>3, <2>5 DEF Resume
  <2>6. CASE SendOk \/ SendDrop \/ SleepEnd
    <3>1. pending \in Seq(Events)
      BY <1>1, TypesAre DEF UploaderInv
    <3> QED BY <2>1, <2>6, <3>1 DEF SendOk, SendDrop, SleepEnd
  <2>7. CASE SendRetry
    BY <2>7 DEF SendRetry
  <2>8. CASE Close
    BY <2>8 DEF Close, loopVars
  <2>9. CASE UNCHANGED vars
    BY <2>9 DEF vars, loopVars
  <2> QED BY <1>1, <2>4, <2>5, <2>6, <2>7, <2>8, <2>9 DEF Next
<1>2. UploaderInv /\ [Next]_vars => [closed => batch' \in {batch, <<>>}]_vars
  BY <1>1
<1> QED BY <1>2, Invariant, PTL DEF Spec, ClosedSendsNothing
-----------------------------------------------------------------------------
(***************************************************************************)
(* The uploader of the worker's state, for all keys, values and reports.   *)
(*                                                                         *)
(* PatchesLeadToLatest is inductive together with TypeOK.  It rests on two *)
(* facts of the merge: a coalesced patch does what its parts do one after  *)
(* the other, and a patch that is applied twice does no more than once.    *)
(* With it each step of the uploader is a step of WorkerState or leaves    *)
(* its variables alone.                                                    *)
(***************************************************************************)
LEMMA ApplyType ==
  ASSUME NEW s \in States, NEW p \in Patches
  PROVE  Abstract!Apply(s, p) \in States
  BY DEF Abstract!Apply, States, Patches

LEMMA CoalesceType ==
  ASSUME NEW p \in Patches, NEW q \in Patches
  PROVE  Coalesce(p, q) \in Patches
  BY DEF Coalesce, Patches

(* Two patches, one after the other, and their coalescence.                *)
LEMMA ApplyCoalesce ==
  ASSUME NEW s \in States, NEW p \in Patches, NEW q \in Patches
  PROVE  Abstract!Apply(Abstract!Apply(s, p), q)
           = Abstract!Apply(s, Coalesce(p, q))
  <1>1. \A k \in Keys :
          Abstract!Apply(Abstract!Apply(s, p), q)[k]
            = Abstract!Apply(s, Coalesce(p, q))[k]
    BY KeysAssumption DEF Abstract!Apply, Coalesce, Patches,
           States
  <1> QED
    BY <1>1 DEF Abstract!Apply

(* A body that the server has merged already.                              *)
LEMMA ApplyTwice ==
  ASSUME NEW s \in States, NEW p \in Patches
  PROVE  Abstract!Apply(Abstract!Apply(s, p), p)
           = Abstract!Apply(s, p)
  BY DEF Abstract!Apply, Patches, States

LEMMA MergeType ==
  ASSUME NEW p \in Patches \cup {NoPatch}, NEW q \in Patches
  PROVE  Merge(p, q) \in Patches
  BY CoalesceType DEF Merge

(* The reports only grow.                                                  *)
LEMMA StateReported ==
  ASSUME StateTypeOK, NEW s \in States, reported' = Append(reported, s)
  PROVE  /\ reported' \in Seq(States)
         /\ Len(reported') = Len(reported) + 1
         /\ \A n \in 1 .. Len(reported) : reported'[n] = reported[n]
         /\ reported'[Len(reported) + 1] = s
  BY DEF StateTypeOK

-----------------------------------------------------------------------------
LEMMA StateInitial == StateInit => StateTypeOK /\ PatchesLeadToLatest
  <1> SUFFICES ASSUME StateInit PROVE StateTypeOK /\ PatchesLeadToLatest
    OBVIOUS
  <1>1. /\ reported = <<server>> /\ server \in States
        /\ Len(reported) = 1 /\ reported[1] = server
        /\ reported \in Seq(States)
    BY DEF StateInit
  <1>2. StateTypeOK
    <2>1. published \in 1 .. Len(reported) /\ carried \in published .. Len(reported)
      <3>1. published = 1 /\ carried = 1
        BY DEF StateInit
      <3> QED
        BY <1>1, <3>1
    <2>2. /\ pendingPatch = NoPatch /\ current = NoPatch
          /\ at = "idle" /\ stateClosed = FALSE
      BY DEF StateInit
    <2> QED
      BY <1>1, <2>1, <2>2 DEF StateTypeOK
  <1>3. PatchesLeadToLatest
    BY <1>1 DEF StateInit, PatchesLeadToLatest
  <1> QED
    BY <1>2, <1>3

LEMMA StateEnqueue ==
  ASSUME StateTypeOK, PatchesLeadToLatest,
         NEW patch \in Reports, EnqueuePatch(patch)
  PROVE  StateTypeOK' /\ PatchesLeadToLatest'
  <1> DEFINE new == Abstract!Apply(Abstract!Latest, patch)
  <1>1. patch \in Patches
    BY KeysAssumption
  <1>2. /\ reported # <<>> /\ Len(reported) \in Nat \ {0}
        /\ Abstract!Latest \in States
    BY DEF StateTypeOK, Abstract!Latest
  <1>3. new \in States
    BY <1>1, <1>2, ApplyType
  <1>4. /\ reported' \in Seq(States)
        /\ Len(reported') = Len(reported) + 1
        /\ \A n \in 1 .. Len(reported) : reported'[n] = reported[n]
        /\ reported'[Len(reported) + 1] = new
    BY <1>3, StateReported DEF EnqueuePatch
  <1>5. Merge(pendingPatch, patch) \in Patches
    BY <1>1, MergeType DEF StateTypeOK
  <1>6. ~ stateClosed /\ UNCHANGED <<stateClosed, server, published>>
    BY DEF EnqueuePatch
  <1>7. CASE at = "idle"
    <2>1. /\ pendingPatch = NoPatch /\ carried = Len(reported) /\ published = carried
          /\ server = Abstract!Latest
      BY <1>6, <1>7 DEF PatchesLeadToLatest, Abstract!Latest
    <2>2. /\ current' = patch /\ carried' = Len(reported) + 1
          /\ pendingPatch' = NoPatch /\ at' = "sending"
      BY <1>7, <2>1 DEF EnqueuePatch, Drain, Merge
    <2>3. StateTypeOK'
      BY <1>1, <1>2, <1>4, <1>6, <2>1, <2>2 DEF StateTypeOK
    <2>4. Abstract!Apply(server', current') = reported'[carried']
      BY <1>4, <1>6, <2>1, <2>2
    <2>5. server' = reported'[published']
      BY <1>2, <1>4, <1>6, <2>1 DEF Abstract!Latest
    <2> QED
      BY <1>4, <2>2, <2>3, <2>4, <2>5
         DEF PatchesLeadToLatest, Abstract!Apply
  <1>8. CASE at # "idle"
    <2>1. pendingPatch'
       = Merge(pendingPatch, patch) /\ UNCHANGED <<current, at, carried>>
      BY <1>8 DEF EnqueuePatch
    <2>2. StateTypeOK'
      BY <1>2, <1>4, <1>5, <1>6, <2>1 DEF StateTypeOK
    <2>3. /\ carried \in 1 .. Len(reported) /\ published \in 1 .. Len(reported)
          /\ reported[carried] \in States
      BY DEF StateTypeOK
    <2>4. Abstract!Apply(reported[carried], pendingPatch') = new
      <3>1. CASE pendingPatch = NoPatch
        BY <1>6, <2>1, <3>1
           DEF PatchesLeadToLatest, Merge, Abstract!Latest
      <3>2. CASE pendingPatch # NoPatch
        <4>1. pendingPatch \in Patches /\ pendingPatch'
           = Coalesce(pendingPatch, patch)
          BY <2>1, <3>2 DEF StateTypeOK, Merge
        <4>2. Abstract!Apply(reported[carried], pendingPatch)
           = Abstract!Latest
          BY <1>6, <3>2 DEF PatchesLeadToLatest
        <4> QED
          BY <1>1, <2>3, <4>1, <4>2, ApplyCoalesce
      <3> QED
        BY <3>1, <3>2
    <2>5. pendingPatch' # NoPatch
      BY <1>5, <2>1, KeysAssumption
    <2>6. reported'[carried'] = reported[carried]
      BY <1>4, <2>1, <2>3
    <2>7. reported'[published'] = reported[published]
      BY <1>4, <1>6, <2>3
    <2>8. Abstract!Latest' = new
      BY <1>4 DEF Abstract!Latest
    <2>9. at' \in {"sending", "sleeping"} =>
            Abstract!Apply(server, current)' = reported'[carried']
      BY <1>6, <2>1, <2>6 DEF PatchesLeadToLatest, Abstract!Apply
    <2>10. Abstract!Apply(reported[carried], pendingPatch)'
       = Abstract!Latest'
      BY <2>4, <2>6, <2>8 DEF Abstract!Apply
    <2> QED
      BY <1>6, <1>8, <2>1, <2>2, <2>5, <2>7, <2>9, <2>10
         DEF PatchesLeadToLatest
  <1> QED
    BY <1>7, <1>8

(* What Arrive makes of the server's copy while a patch is on its way.     *)
LEMMA StateArrive ==
  ASSUME StateTypeOK, PatchesLeadToLatest, at = "sending", Arrive,
         UNCHANGED <<current, reported, carried>>
  PROVE  /\ published' = carried
         /\ server' = reported[carried]
         /\ server' \in States
         /\ published' \in 1 .. Len(reported)
         /\ Abstract!Apply(server', current) = reported[carried]
  <1>1. /\ current \in Patches /\ server \in States
        /\ published \in 1 .. Len(reported) /\ carried \in published .. Len(reported)
        /\ Len(reported) \in Nat
    BY DEF StateTypeOK
  <1>2. /\ server' = Abstract!Apply(server, current)
        /\ server' = reported[carried]
    BY DEF Arrive, PatchesLeadToLatest
  <1>3. published' = carried
    BY <1>1 DEF Arrive
  <1>4. Abstract!Apply(server', current) = server'
    BY <1>1, <1>2, ApplyTwice
  <1>5. server' \in States
    BY <1>1, <1>2, ApplyType
  <1>6. published' \in 1 .. Len(reported)
    BY <1>1, <1>3
  <1> QED
    BY <1>2, <1>3, <1>4, <1>5, <1>6

LEMMA StateSendOk ==
  ASSUME StateTypeOK, PatchesLeadToLatest, PutOk
  PROVE  StateTypeOK' /\ PatchesLeadToLatest'
  <1>1. /\ at = "sending" /\ at' = "sent"
        /\ UNCHANGED <<pendingPatch, current, stateClosed, reported, carried>>
    BY DEF PutOk
  <1>2. /\ published' = carried /\ server' = reported[carried]
        /\ server' \in States
    BY <1>1, StateArrive DEF PutOk
  <1>3. StateTypeOK'
    BY <1>1, <1>2 DEF StateTypeOK
  <1>4. Abstract!Latest' = Abstract!Latest
    BY <1>1 DEF Abstract!Latest
  <1>5. ~ stateClosed /\ pendingPatch # NoPatch =>
          Abstract!Apply(reported[carried], pendingPatch)'
             = Abstract!Latest'
    BY <1>1, <1>4 DEF PatchesLeadToLatest, Abstract!Apply
  <1> QED
    BY <1>1, <1>2, <1>3, <1>5 DEF PatchesLeadToLatest

LEMMA StateSendFails ==
  ASSUME StateTypeOK, PatchesLeadToLatest, PutFails
  PROVE  StateTypeOK' /\ PatchesLeadToLatest'
  <1>1. /\ at = "sending" /\ at' = "sleeping"
        /\ UNCHANGED <<pendingPatch, current, stateClosed, reported, carried>>
    BY DEF PutFails
  <1>2. /\ server' \in States
        /\ published' \in 1 .. Len(reported) /\ carried \in published' .. Len(reported)
        /\ server' = reported[published']
        /\ Abstract!Apply(server', current) = reported[carried]
    <2>1. CASE Arrive
      BY <1>1, <2>1, StateArrive DEF StateTypeOK
    <2>2. CASE UNCHANGED <<server, published>>
      BY <1>1, <2>2 DEF StateTypeOK, PatchesLeadToLatest
    <2> QED
      BY <2>1, <2>2 DEF PutFails
  <1>3. StateTypeOK'
    BY <1>1, <1>2 DEF StateTypeOK
  <1>4. Abstract!Latest' = Abstract!Latest
    BY <1>1 DEF Abstract!Latest
  <1>5. ~ stateClosed /\ pendingPatch # NoPatch =>
          Abstract!Apply(reported[carried], pendingPatch)'
             = Abstract!Latest'
    BY <1>1, <1>4 DEF PatchesLeadToLatest, Abstract!Apply
  <1>6. Abstract!Apply(server, current)' = reported'[carried']
    BY <1>1, <1>2 DEF Abstract!Apply
  <1> QED
    BY <1>1, <1>2, <1>3, <1>5, <1>6 DEF PatchesLeadToLatest

(* The two ways to send what is pending: absorbed by what was being sent   *)
(* and has not arrived for certain, or alone after it has.                 *)
LEMMA StateDrain ==
  ASSUME StateTypeOK, NEW p \in Patches, Drain(p, Len(reported)),
         UNCHANGED <<stateClosed, server, reported, published>>,
         server = reported[published],
         Abstract!Apply(server, p) = Abstract!Latest
  PROVE  StateTypeOK' /\ PatchesLeadToLatest'
  <1>1. /\ current' = p /\ carried' = Len(reported)
        /\ pendingPatch' = NoPatch /\ at' = "sending"
    BY DEF Drain
  <1>2. StateTypeOK'
    BY <1>1 DEF StateTypeOK
  <1>3. Abstract!Apply(server, current)' = reported'[carried']
    BY <1>1 DEF Abstract!Apply, Abstract!Latest
  <1> QED
    BY <1>1, <1>2, <1>3 DEF PatchesLeadToLatest

LEMMA StateRetry ==
  ASSUME StateTypeOK, PatchesLeadToLatest, Retry
  PROVE  StateTypeOK' /\ PatchesLeadToLatest'
  <1>1. at = "sleeping" /\ UNCHANGED <<stateClosed, server, reported, published>>
    BY DEF Retry
  <1>2. CASE stateClosed \/ pendingPatch = NoPatch
    <2>1. /\ UNCHANGED <<pendingPatch, current, carried>>
          /\ at' = IF stateClosed THEN "sent" ELSE "sending"
      BY <1>2 DEF Retry
    <2>2. StateTypeOK'
      BY <1>1, <2>1 DEF StateTypeOK
    <2>3. Abstract!Apply(server, current)' = reported'[carried']
      BY <1>1, <2>1 DEF PatchesLeadToLatest, Abstract!Apply
    <2> QED
      BY <1>1, <1>2, <2>1, <2>2, <2>3 DEF PatchesLeadToLatest
  <1>3. CASE ~ stateClosed /\ pendingPatch # NoPatch
    <2>1. current \in Patches /\ pendingPatch \in Patches /\ server \in States
      BY <1>1, <1>3 DEF StateTypeOK
    <2>2. Drain(Coalesce(current, pendingPatch), Len(reported))
      BY <1>1, <1>3 DEF Retry, Absorbed
    <2>3. /\ Abstract!Apply(server, current) = reported[carried]
          /\ Abstract!Apply(reported[carried], pendingPatch)
             = Abstract!Latest
          /\ server = reported[published]
      BY <1>1, <1>3 DEF PatchesLeadToLatest
    <2>4. Abstract!Apply(server, Coalesce(current, pendingPatch)) = Abstract!Latest
      BY <2>1, <2>3, ApplyCoalesce
    <2> QED
      BY <1>1, <2>1, <2>2, <2>3, <2>4, CoalesceType, StateDrain
  <1> QED
    BY <1>2, <1>3 DEF StateTypeOK

LEMMA StateSettle ==
  ASSUME StateTypeOK, PatchesLeadToLatest, Settle
  PROVE  StateTypeOK' /\ PatchesLeadToLatest'
  <1>1. at = "sent" /\ UNCHANGED <<stateClosed, server, reported, published>>
    BY DEF Settle
  <1>2. CASE More
    <2>1. /\ pendingPatch \in Patches /\ Drain(pendingPatch, Len(reported))
          /\ server = reported[published] /\ published = carried
          /\ Abstract!Apply(reported[carried], pendingPatch)
             = Abstract!Latest
      BY <1>1, <1>2
         DEF Settle, More, StateTypeOK, PatchesLeadToLatest
    <2> QED
      BY <1>1, <2>1, StateDrain
  <1>3. CASE ~ More
    <2>1. at' = "idle" /\ current' = NoPatch /\ UNCHANGED <<pendingPatch, carried>>
      BY <1>3 DEF Settle
    <2>2. StateTypeOK'
      BY <1>1, <2>1 DEF StateTypeOK
    <2> QED
      BY <1>1, <1>3, <2>1, <2>2
         DEF More, StateTypeOK, PatchesLeadToLatest
  <1> QED
    BY <1>2, <1>3

LEMMA StateClose ==
  ASSUME StateTypeOK, PatchesLeadToLatest, CloseState
  PROVE  StateTypeOK' /\ PatchesLeadToLatest'
  <1>1. /\ stateClosed' = TRUE /\ pendingPatch' = NoPatch
        /\ UNCHANGED <<current, at, server, reported, published, carried>>
    BY DEF CloseState
  <1>2. StateTypeOK'
    BY <1>1 DEF StateTypeOK
  <1>3. at \in {"sending", "sleeping"} =>
          Abstract!Apply(server, current)' = reported'[carried']
    BY <1>1 DEF PatchesLeadToLatest, Abstract!Apply
  <1> QED
    BY <1>1, <1>2, <1>3 DEF PatchesLeadToLatest

LEMMA StateStutter ==
  ASSUME StateTypeOK, PatchesLeadToLatest, UNCHANGED stateVars
  PROVE  StateTypeOK' /\ PatchesLeadToLatest'
  <1>1. UNCHANGED <<pendingPatch, current, at, stateClosed, server, reported, published, carried>>
    BY DEF stateVars, uploaderVars
  <1>2. StateTypeOK'
    BY <1>1 DEF StateTypeOK
  <1>3. Abstract!Latest' = Abstract!Latest
    BY <1>1 DEF Abstract!Latest
  <1>4. /\ Abstract!Apply(server, current)'
     = Abstract!Apply(server, current)
        /\ Abstract!Apply(reported[carried], pendingPatch)'
             = Abstract!Apply(reported[carried], pendingPatch)
    BY <1>1 DEF Abstract!Apply
  <1> QED
    BY <1>1, <1>2, <1>3, <1>4 DEF PatchesLeadToLatest
-----------------------------------------------------------------------------
(* The variables keep their types, and whatever is coalesced, retried or   *)
(* merged by the server although its answer was lost, the patch that is    *)
(* sent leads from the server's copy to the state it stands for and the    *)
(* pending one from there to the latest report                             *)
(* (WorkerStateUploader.ts, drain and sendWithRetry).                      *)
THEOREM PatchesAreInductive ==
  StateSpec => [](StateTypeOK /\ PatchesLeadToLatest)
  <1>1. StateInit => StateTypeOK /\ PatchesLeadToLatest
    BY StateInitial
  <1>2. StateTypeOK /\ PatchesLeadToLatest /\ [StateNext]_stateVars
          => StateTypeOK' /\ PatchesLeadToLatest'
    BY StateEnqueue, StateSendOk, StateSendFails, StateRetry, StateSettle, StateClose,
       StateStutter DEF StateNext
  <1> QED
    BY <1>1, <1>2, PTL DEF StateSpec

(* The uploader implements WorkerState: a call of enqueue is a report, an  *)
(* arrival of a body at the server is a publication, close() is Close, and *)
(* the rest of the uploader is not seen.                                   *)
THEOREM StateIsKept == StateSpec => KeepsPromise
  <1>1. StateInit => Abstract!Init
    BY DEF StateInit, Abstract!Init, States, Abstract!States
  <1>2. ASSUME StateTypeOK, PatchesLeadToLatest, [StateNext]_stateVars
        PROVE  [Abstract!Next]_(Abstract!vars)
    <2>1. ASSUME NEW patch \in Reports, EnqueuePatch(patch)
          PROVE  Abstract!Next
      <3>1. patch \in Abstract!Patches
        BY KeysAssumption DEF Patches, Abstract!Patches
      <3>2. Abstract!Report(patch)
        BY <2>1 DEF EnqueuePatch, Abstract!Report
      <3> QED
        BY <3>1, <3>2 DEF Abstract!Next
    <2>2. ASSUME at = "sending",
                     Arrive, UNCHANGED <<current, reported, carried, stateClosed>>
          PROVE  Abstract!Next
      <3>1. published' = carried /\ server' = reported[carried]
        BY <1>2, <2>2, StateArrive
      <3>2. carried \in published .. Len(reported)
        BY <1>2 DEF StateTypeOK
      <3> QED
        BY <2>2, <3>1, <3>2 DEF Abstract!Next, Abstract!Publish
    <2>3. CASE PutOk
      BY <2>2, <2>3 DEF PutOk
    <2>4. CASE PutFails
      BY <2>2, <2>4 DEF PutFails, Abstract!vars
    <2>5. CASE Retry
      BY <2>5 DEF Retry, Abstract!vars
    <2>6. CASE Settle
      BY <2>6 DEF Settle, Abstract!vars
    <2>7. CASE CloseState
      BY <2>7 DEF CloseState, Abstract!Next, Abstract!Close
    <2>8. CASE UNCHANGED stateVars
      BY <2>8 DEF stateVars, uploaderVars, Abstract!vars
    <2> QED
      BY <1>2, <2>1, <2>3, <2>4, <2>5, <2>6, <2>7, <2>8 DEF StateNext
  <1> QED
    BY <1>1, <1>2, PatchesAreInductive, PTL
       DEF StateSpec, KeepsPromise, Abstract!Spec
=============================================================================
