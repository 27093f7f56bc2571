----------------------------- MODULE Text_proofs ----------------------------
(***************************************************************************)
(* Proofs about what is done to texts: the lines of config.toml            *)
(* (NotifyConfig), prompts and results (MessageText) and the output of a   *)
(* process (BoundedReader).  A recursive function is proved about by       *)
(* Induct, and is the one its definition says by a lemma of its own.       *)
(***************************************************************************)
EXTENDS NotifyConfig, MessageText, BoundedReader, FiniteSetTheorems, FunctionTheorems, SequenceTheorems,
        WellFoundedInduction, TLAPS

-----------------------------------------------------------------------------
(* Induction and choices.                                                   *)

\* Induction over numbers, for the set of those with a property.
LEMMA Induct ==
  ASSUME NEW T, 0 \in T, \A n \in Nat : n \in T => n + 1 \in T
  PROVE  Nat \subseteq T
<1> DEFINE R == {p \in Nat \X Nat : p[1] < p[2]}
           U == Nat \ T
<1>1. IsWellFoundedOn(R, Nat)
  BY NatLessThanWellFounded DEF OpToRel
<1>2. SUFFICES ASSUME U # {} PROVE FALSE
  OBVIOUS
<1>3. U \subseteq Nat /\ \A a : a \in U <=> a \in Nat /\ a \notin T
  OBVIOUS
<1>4. \A a, b \in Nat : a < b => <<a, b>> \in R
  OBVIOUS
<1> HIDE DEF R, U
<1>5. PICK x \in U : \A y \in U : <<y, x>> \notin R
  BY <1>1, <1>2, <1>3, WFMin
<1>6. x \in Nat /\ x # 0 /\ x - 1 \in Nat /\ x \notin T
  BY <1>3
<1>7. <<x - 1, x>> \in R
  <2>1. x - 1 < x
    BY <1>6
  <2> QED
    BY <1>4, <1>6, <2>1
<1>8. x - 1 \in T
  BY <1>3, <1>5, <1>6, <1>7
<1> QED
  BY <1>6, <1>8

\* The least and the greatest of some positions.
LEMMA LeastGreatest ==
  ASSUME NEW n \in Nat, NEW S \in SUBSET (1..n), S # {}
  PROVE  /\ Min(S) \in S /\ \A i \in S : Min(S) <= i
         /\ Max(S) \in S /\ \A i \in S : Max(S) >= i
<1>1. \E x \in S : \A i \in S : x <= i
  <2> DEFINE T == {k \in Nat : (\E x \in S : x <= k) => \E x \in S : \A i \in S : x <= i}
  <2>1. 0 \in T
    OBVIOUS
  <2>2. ASSUME NEW k \in Nat, k \in T PROVE k + 1 \in T
    <3>1. CASE \E x \in S : x <= k
      BY <2>2, <3>1
    <3>2. CASE ~\E x \in S : x <= k
      <4>1. SUFFICES ASSUME NEW x \in S, x <= k + 1 PROVE \E y \in S : \A i \in S : y <= i
        OBVIOUS
      <4>2. \A i \in S : x <= i
        BY <3>2, <4>1
      <4> QED
        BY <4>2
    <3> QED
      BY <3>1, <3>2
  <2>3. n \in T
    <3> HIDE DEF T
    <3> QED
      BY <2>1, <2>2, Induct
  <2>4. PICK x \in S : TRUE
    OBVIOUS
  <2>5. x <= n
    OBVIOUS
  <2> QED
    BY <2>3, <2>5
<1>2. \E x \in S : \A i \in S : x >= i
  <2> DEFINE T == {k \in Nat : (\E x \in S : x >= n - k) => \E x \in S : \A i \in S : x >= i}
  <2>1. 0 \in T
    OBVIOUS
  <2>2. ASSUME NEW k \in Nat, k \in T PROVE k + 1 \in T
    <3>1. CASE \E x \in S : x >= n - k
      BY <2>2, <3>1
    <3>2. CASE ~\E x \in S : x >= n - k
      <4>1. SUFFICES ASSUME NEW x \in S, x >= n - (k + 1)
                     PROVE  \E y \in S : \A i \in S : y >= i
        OBVIOUS
      <4>2. \A i \in S : x >= i
        BY <3>2, <4>1
      <4> QED
        BY <4>2
    <3> QED
      BY <3>1, <3>2
  <2>3. n \in T
    <3> HIDE DEF T
    <3> QED
      BY <2>1, <2>2, Induct
  <2>4. PICK x \in S : TRUE
    OBVIOUS
  <2>5. x >= n - n
    OBVIOUS
  <2> QED
    BY <2>3, <2>5
<1> QED
  BY <1>1, <1>2 DEF Min, Max

\* The parts of a concatenation.
LEMMA Concatenated ==
  ASSUME NEW S, NEW s \in Seq(S), NEW t \in Seq(S)
  PROVE  /\ s \o t \in Seq(S) /\ Len(s \o t) = Len(s) + Len(t)
         /\ \A k \in 1..(Len(s) + Len(t)) :
               (s \o t)[k] = IF k <= Len(s) THEN s[k] ELSE t[k - Len(s)]
         /\ \A k \in 1..Len(s) : (s \o t)[k] = s[k]
         /\ \A k \in 1..Len(t) : (s \o t)[Len(s) + k] = t[k]
<1>1. /\ s \o t \in Seq(S) /\ Len(s \o t) = Len(s) + Len(t)
      /\ \A k \in 1..(Len(s) + Len(t)) :
            (s \o t)[k] = IF k <= Len(s) THEN s[k] ELSE t[k - Len(s)]
  OBVIOUS
<1>2. \A k \in 1..Len(s) : (s \o t)[k] = s[k]
  OBVIOUS
<1>3. ASSUME NEW k \in 1..Len(t) PROVE (s \o t)[Len(s) + k] = t[k]
  <2>1. /\ Len(s) + k \in 1..(Len(s) + Len(t)) /\ ~(Len(s) + k <= Len(s))
        /\ (Len(s) + k) - Len(s) = k
    OBVIOUS
  <2> QED
    BY <1>1, <2>1
<1> QED
  BY <1>1, <1>2, <1>3

\* Sequences of one length with the same members are equal.
LEMMA SameSequence ==
  ASSUME NEW S, NEW s \in Seq(S), NEW t \in Seq(S), Len(s) = Len(t),
         \A k \in 1..Len(s) : s[k] = t[k]
  PROVE  s = t
OBVIOUS

-----------------------------------------------------------------------------
(* What TOML makes of a file.                                               *)

Knowledge == [mode : {"keys", "array", "string"}, top : BOOLEAN, has : BOOLEAN,
              notify : {"none"} \cup NotifyLines, bad : BOOLEAN]

\* Reading is the function its definition says.
LEMMA ReadingIs ==
  ASSUME NEW f \in Seq(LineKinds)
  PROVE  Reading(f) = [n \in 0..Len(f) |->
                          IF n = 0 THEN TopOfFile ELSE Parse(Reading(f)[n - 1], f[n])]
<1> DEFINE Is(p, m) == p = [n \in 0..m |-> IF n = 0 THEN TopOfFile ELSE Parse(p[n - 1], f[n])]
           T == {m \in Nat : \E p : Is(p, m)}
<1>1. 0 \in T
  <2>1. Is([n \in 0..0 |-> TopOfFile], 0)
    OBVIOUS
  <2> QED
    BY <2>1
<1>2. ASSUME NEW m \in Nat, m \in T PROVE m + 1 \in T
  <2>1. PICK p : Is(p, m)
    BY <1>2
  <2> DEFINE q == [n \in 0..(m + 1) |-> IF n = m + 1 THEN Parse(p[m], f[m + 1]) ELSE p[n]]
  <2>2. ASSUME NEW n \in 0..(m + 1)
        PROVE  q[n] = IF n = 0 THEN TopOfFile ELSE Parse(q[n - 1], f[n])
    <3>1. CASE n = m + 1
      <4>1. q[n] = Parse(p[m], f[m + 1]) /\ n # 0 /\ n - 1 = m /\ q[m] = p[m]
        BY <3>1
      <4> QED
        BY <4>1, <3>1
    <3>2. CASE n # m + 1
      <4>1. n \in 0..m /\ q[n] = p[n]
        BY <3>2
      <4>2. n # 0 => n - 1 \in 0..m /\ q[n - 1] = p[n - 1]
        BY <4>1
      <4> QED
        BY <4>1, <4>2, <2>1
    <3> QED
      BY <3>1, <3>2
  <2>3. Is(q, m + 1)
    BY <2>2
  <2>4. \E g : Is(g, m + 1)
    <3> HIDE DEF q
    <3> QED
      BY <2>3
  <2> HIDE DEF Is
  <2> QED
    BY <2>4
<1>3. Nat \subseteq T
  <2> HIDE DEF T
  <2> QED
    BY <1>1, <1>2, Induct
<1>4. \E p : Is(p, Len(f))
  BY <1>3
<1>5. Reading(f) = CHOOSE p : Is(p, Len(f))
  BY DEF Reading
<1> QED
  BY <1>4, <1>5

\* A line is read after the one before it, and what is known has a type.
LEMMA ReadingSteps ==
  ASSUME NEW f \in Seq(LineKinds)
  PROVE  /\ Reading(f)[0] = TopOfFile
         /\ \A n \in 1..Len(f) : Reading(f)[n] = Parse(Reading(f)[n - 1], f[n])
         /\ \A n \in 0..Len(f) : Reading(f)[n] \in Knowledge
<1>1. Reading(f)[0] = TopOfFile
  BY ReadingIs
<1>2. ASSUME NEW n \in 1..Len(f)
      PROVE  Reading(f)[n] = Parse(Reading(f)[n - 1], f[n])
  <2>1. n \in 0..Len(f) /\ n # 0
    OBVIOUS
  <2> QED
    BY <2>1, ReadingIs
<1>3. ASSUME NEW p \in Knowledge, NEW l \in LineKinds PROVE Parse(p, l) \in Knowledge
  BY DEF Knowledge, Parse, SetNotify, LineKinds, NotifyLines
<1> DEFINE T == {n \in Nat : n <= Len(f) => Reading(f)[n] \in Knowledge}
<1>4. 0 \in T
  <2>1. TopOfFile \in Knowledge
    BY DEF TopOfFile, Knowledge
  <2> QED
    BY <1>1, <2>1
<1>5. ASSUME NEW n \in Nat, n \in T PROVE n + 1 \in T
  <2> SUFFICES ASSUME n + 1 <= Len(f) PROVE Reading(f)[n + 1] \in Knowledge
    OBVIOUS
  <2>1. Reading(f)[n] \in Knowledge /\ n + 1 \in 1..Len(f) /\ (n + 1) - 1 = n
    BY <1>5
  <2>2. f[n + 1] \in LineKinds
    BY <2>1
  <2> QED
    BY <1>2, <1>3, <2>1, <2>2
<1>6. Nat \subseteq T
  <2> HIDE DEF T
  <2> QED
    BY <1>4, <1>5, Induct
<1>7. \A n \in 0..Len(f) : Reading(f)[n] \in Knowledge
  BY <1>6
<1> QED
  BY <1>1, <1>2, <1>7

\* No part of a valid file from its start is bad.
LEMMA ValidPrefix ==
  ASSUME NEW f \in Seq(LineKinds), Valid(f)
  PROVE  \A n \in 0..Len(f) : ~Reading(f)[n].bad
<1> DEFINE T == {k \in Nat : k <= Len(f) => ~Reading(f)[Len(f) - k].bad}
<1>1. 0 \in T
  BY DEF Valid, Parsed
<1>2. ASSUME NEW k \in Nat, k \in T PROVE k + 1 \in T
  <2> SUFFICES ASSUME k + 1 <= Len(f) PROVE ~Reading(f)[Len(f) - (k + 1)].bad
    OBVIOUS
  <2> DEFINE n == Len(f) - k
  <2>1. n \in 1..Len(f) /\ n - 1 \in 0..Len(f) /\ n - 1 = Len(f) - (k + 1) /\ ~Reading(f)[n].bad
    BY <1>2
  <2> HIDE DEF n
  <2>2. /\ Reading(f)[n] = Parse(Reading(f)[n - 1], f[n])
        /\ Reading(f)[n - 1] \in Knowledge /\ f[n] \in LineKinds
    <3>1. f[n] \in LineKinds
      BY <2>1
    <3> QED
      BY <2>1, <3>1, ReadingSteps
  <2>3. ASSUME NEW p \in Knowledge, NEW l \in LineKinds, p.bad PROVE Parse(p, l).bad
    BY <2>3 DEF Knowledge, Parse, SetNotify, LineKinds
  <2>4. Reading(f)[n - 1].bad => Reading(f)[n].bad
    BY <2>2, <2>3
  <2> QED
    BY <2>1, <2>4
<1>3. Nat \subseteq T
  <2> HIDE DEF T
  <2> QED
    BY <1>1, <1>2, Induct
<1> SUFFICES ASSUME NEW n \in 0..Len(f) PROVE ~Reading(f)[n].bad
  OBVIOUS
<1>4. Len(f) - n \in Nat /\ Len(f) - n \in T
  BY <1>3
<1>5. Len(f) - (Len(f) - n) = n
  OBVIOUS
<1> QED
  BY <1>4, <1>5

PlainKinds == LineKinds \ {"text", "textend"}

\* What a line without strings does to what is known.
LEMMA PlainLine ==
  ASSUME NEW p \in Knowledge, NEW l \in PlainKinds, p.mode \in {"keys", "array"},
         ~Parse(p, l).bad
  PROVE  LET q == Parse(p, l)
         IN  /\ q.mode \in {"keys", "array"}
             /\ q.top <=> p.top /\ l # "table"
             /\ l \in NotifyLines => /\ p.mode = "keys" /\ ~p.has /\ q.has
                                     /\ q.notify = IF p.top THEN l ELSE p.notify
             /\ l \notin NotifyLines => q.notify = p.notify /\ (l # "table" => q.has = p.has)
             /\ l = "item" => p.mode = "array"
             /\ l = "new" => q.mode = "keys"
BY DEF Parse, SetNotify, Knowledge, PlainKinds, LineKinds, NotifyLines

\* What is known after n lines of a valid file without strings.
KnownOf(f, n) ==
    LET p == Reading(f)[n]
    IN  /\ p.mode \in {"keys", "array"}
        /\ p.top <=> \A i \in 1..n : f[i] # "table"
        /\ p.top => (p.has <=> \E i \in 1..n : f[i] \in NotifyLines)
        /\ \A i \in 1..n : f[i] \in NotifyLines /\ Reading(f)[i].top => p.notify = f[i]

\* What is known of a file without strings, after each of its lines.
LEMMA PlainFile ==
  ASSUME NEW f \in Seq(PlainKinds), Valid(f)
  PROVE  \A n \in 0..Len(f) : KnownOf(f, n)
<1>0. f \in Seq(LineKinds)
  BY DEF PlainKinds
<1> DEFINE T == {n \in Nat : n <= Len(f) => KnownOf(f, n)}
<1>1. 0 \in T
  BY <1>0, ReadingSteps DEF KnownOf, TopOfFile
<1>2. ASSUME NEW n \in Nat, n \in T PROVE n + 1 \in T
  <2> SUFFICES ASSUME n + 1 <= Len(f) PROVE KnownOf(f, n + 1)
    OBVIOUS
  <2> DEFINE p == Reading(f)[n]
             q == Reading(f)[n + 1]
             l == f[n + 1]
  <2>1. n \in 0..Len(f) /\ n + 1 \in 1..Len(f) /\ n + 1 \in 0..Len(f) /\ (n + 1) - 1 = n
    OBVIOUS
  <2>2. l \in PlainKinds
    BY <2>1
  <2>3. q = Parse(p, l) /\ p \in Knowledge /\ ~q.bad
    <3>1. \A k \in 1..Len(f) : Reading(f)[k] = Parse(Reading(f)[k - 1], f[k])
      BY <1>0, ReadingSteps
    <3>2. p \in Knowledge
      BY <1>0, <2>1, ReadingSteps
    <3>3. ~q.bad
      BY <1>0, <2>1, ValidPrefix
    <3> QED
      BY <2>1, <3>1, <3>2, <3>3
  <2>4. KnownOf(f, n)
    BY <1>2, <2>1
  <2>5. /\ p.mode \in {"keys", "array"}
        /\ p.top <=> \A i \in 1..n : f[i] # "table"
        /\ p.top => (p.has <=> \E i \in 1..n : f[i] \in NotifyLines)
        /\ \A i \in 1..n : f[i] \in NotifyLines /\ Reading(f)[i].top => p.notify = f[i]
    BY <2>4 DEF KnownOf
  <2> HIDE DEF p, q, l
  <2>6. /\ q.mode \in {"keys", "array"}
        /\ q.top <=> p.top /\ l # "table"
        /\ l \in NotifyLines => /\ p.mode = "keys" /\ ~p.has /\ q.has
                                /\ q.notify = IF p.top THEN l ELSE p.notify
        /\ l \notin NotifyLines => q.notify = p.notify /\ (l # "table" => q.has = p.has)
    BY <2>2, <2>3, <2>5, PlainLine
  <2>7. \A i \in 1..(n + 1) : i \in 1..n \/ i = n + 1
    OBVIOUS
  <2>8. q.top <=> \A i \in 1..(n + 1) : f[i] # "table"
    BY <2>5, <2>6, <2>7 DEF l
  <2>9. q.top => (q.has <=> \E i \in 1..(n + 1) : f[i] \in NotifyLines)
    BY <2>5, <2>6, <2>7 DEF l
  <2>10. ASSUME NEW i \in 1..(n + 1), f[i] \in NotifyLines, Reading(f)[i].top
         PROVE  q.notify = f[i]
    <3>1. CASE i = n + 1
      BY <2>6, <2>10, <3>1 DEF l, q
    <3>2. CASE i \in 1..n
      <4>1. p.notify = f[i]
        BY <2>5, <2>10, <3>2
      <4>2. p.top => p.has
        BY <2>5, <2>10, <3>2
      <4> QED
        BY <2>6, <4>1, <4>2
    <3> QED
      BY <2>7, <3>1, <3>2
  <2> QED
    BY <2>6, <2>8, <2>9, <2>10 DEF KnownOf, q
<1>3. Nat \subseteq T
  <2> HIDE DEF T
  <2> QED
    BY <1>1, <1>2, Induct
<1> QED
  BY <1>3

\* The settings of such a file are the lines that look like one before the first table;
\* there is at most one, and it is what Codex does.
LEMMA OneSetting ==
  ASSUME NEW f \in Seq(PlainKinds), Valid(f)
  PROVE  /\ Settings(f) = {i \in DOMAIN f : /\ f[i] \in NotifyLines
                                            /\ \A k \in 1..i : f[k] # "table"}
         /\ \A i, k \in Settings(f) : i = k
         /\ \A i \in Settings(f) : Parsed(f).notify = f[i]
         /\ \A i \in DOMAIN f : f[i] = "item" => Reading(f)[i - 1].mode = "array"
         /\ \A i \in DOMAIN f : f[i] = "new" => Reading(f)[i].mode = "keys"
<1>0. f \in Seq(LineKinds) /\ DOMAIN f = 1..Len(f) /\ Len(f) \in Nat
  BY DEF PlainKinds
<1>1. ASSUME NEW i \in 1..Len(f)
      PROVE  /\ KnownOf(f, i) /\ KnownOf(f, i - 1) /\ i - 1 \in 0..Len(f)
             /\ Reading(f)[i - 1] \in Knowledge /\ f[i] \in PlainKinds
             /\ Reading(f)[i] = Parse(Reading(f)[i - 1], f[i]) /\ ~Reading(f)[i].bad
  <2>1. i \in 0..Len(f) /\ i - 1 \in 0..Len(f) /\ f[i] \in PlainKinds
    BY <1>0
  <2>2. KnownOf(f, i) /\ KnownOf(f, i - 1)
    BY <2>1, PlainFile
  <2>3. ~Reading(f)[i].bad
    BY <1>0, <2>1, ValidPrefix
  <2>4. Reading(f)[i - 1] \in Knowledge /\ Reading(f)[i] = Parse(Reading(f)[i - 1], f[i])
    BY <1>0, <2>1, ReadingSteps
  <2> QED
    BY <2>1, <2>2, <2>3, <2>4
<1>2. ASSUME NEW i \in 1..Len(f)
      PROVE  /\ f[i] \in NotifyLines => Reading(f)[i - 1].mode = "keys" /\ ~Reading(f)[i - 1].has
             /\ f[i] = "item" => Reading(f)[i - 1].mode = "array"
             /\ f[i] = "new" => Reading(f)[i].mode = "keys"
             /\ Reading(f)[i].top => Reading(f)[i - 1].top
             /\ Reading(f)[i].top <=> \A k \in 1..i : f[k] # "table"
  <2>1. Reading(f)[i - 1].mode \in {"keys", "array"}
    BY <1>1 DEF KnownOf
  <2>2. Reading(f)[i].top <=> \A k \in 1..i : f[k] # "table"
    BY <1>1 DEF KnownOf
  <2> QED
    BY <1>1, <2>1, <2>2, PlainLine
<1>3. Settings(f) = {i \in DOMAIN f : /\ f[i] \in NotifyLines
                                      /\ \A k \in 1..i : f[k] # "table"}
  BY <1>0, <1>2 DEF Settings
<1>4. ASSUME NEW i \in Settings(f), NEW k \in Settings(f), i < k PROVE FALSE
  <2>1. i \in 1..Len(f) /\ k \in 1..Len(f) /\ f[i] \in NotifyLines /\ f[k] \in NotifyLines
        /\ Reading(f)[k].top
    BY <1>0 DEF Settings
  <2>2. Reading(f)[k - 1].top /\ ~Reading(f)[k - 1].has
    BY <1>2, <2>1
  <2>3. i \in 1..(k - 1)
    BY <1>4, <2>1
  <2>4. KnownOf(f, k - 1)
    BY <1>1, <2>1
  <2> QED
    BY <2>1, <2>2, <2>3, <2>4 DEF KnownOf
<1>5. \A i, k \in Settings(f) : i = k
  <2> SUFFICES ASSUME NEW i \in Settings(f), NEW k \in Settings(f) PROVE i = k
    OBVIOUS
  <2>1. i \in Nat /\ k \in Nat
    BY <1>0 DEF Settings
  <2>2. ~(i < k) /\ ~(k < i)
    BY <1>4
  <2> QED
    BY <2>1, <2>2
<1>6. \A i \in Settings(f) : Parsed(f).notify = f[i]
  <2>1. KnownOf(f, Len(f))
    BY <1>0, PlainFile
  <2> QED
    BY <1>0, <2>1 DEF KnownOf, Parsed, Settings
<1> QED
  BY <1>0, <1>2, <1>3, <1>5, <1>6

-----------------------------------------------------------------------------
(* What the script makes of a file.                                         *)

\* The first bracket is a table or an item, and no line before it is; a file without one has it
\* after its end.
LEMMA BracketIs ==
  ASSUME NEW f \in Seq(LineKinds)
  PROVE  /\ Bracket(f) \in 1..(Len(f) + 1)
         /\ \A k \in 1..Len(f) : k < Bracket(f) => f[k] \notin {"table", "item"}
         /\ Bracket(f) <= Len(f) => f[Bracket(f)] \in {"table", "item"}
<1> DEFINE b == {i \in DOMAIN f : f[i] \in {"table", "item"}}
<1>1. b \in SUBSET (1..Len(f)) /\ Len(f) \in Nat
  OBVIOUS
<1>2. \A i \in 1..Len(f) : i \in b <=> f[i] \in {"table", "item"}
  OBVIOUS
<1>3. Bracket(f) = IF b = {} THEN Len(f) + 1 ELSE Min(b)
  BY DEF Bracket
<1> HIDE DEF b
<1>4. CASE b = {}
  BY <1>1, <1>2, <1>3, <1>4
<1>5. CASE b # {}
  <2>1. Min(b) \in b /\ \A i \in b : Min(b) <= i
    BY <1>1, <1>5, LeastGreatest
  <2> DEFINE B == Bracket(f)
  <2>2. B \in b /\ \A i \in b : B <= i
    BY <1>3, <1>5, <2>1
  <2> HIDE DEF B
  <2>3. B \in 1..Len(f) /\ f[B] \in {"table", "item"}
    BY <1>1, <1>2, <2>2
  <2>4. \A k \in 1..Len(f) : k < B => k \notin b
    BY <1>1, <2>2, <2>3
  <2> QED
    BY <1>2, <2>3, <2>4 DEF B
<1> QED
  BY <1>4, <1>5

\* The lines the script takes for the setting are settings, since they are above the
\* first table.
LEMMA TopLevelIsSetting ==
  ASSUME NEW f \in Seq(PlainKinds), Valid(f), NEW i \in TopLevel(f)
  PROVE  i \in Settings(f) /\ Parsed(f).notify = f[i]
<1>1. f \in Seq(LineKinds) /\ DOMAIN f = 1..Len(f)
  BY DEF PlainKinds
<1>2. i \in 1..Len(f) /\ f[i] \in NotifyLines /\ i < Bracket(f)
  BY <1>1 DEF TopLevel
<1>3. \A k \in 1..i : f[k] # "table"
  BY <1>1, <1>2, BracketIs
<1>4. i \in Settings(f)
  BY <1>1, <1>2, <1>3, OneSetting
<1> QED
  BY <1>4, OneSetting

Passes(g, f) == Parsed(g).notify = "new" /\ OtherLines(g) = OtherLines(f)

\* A line of this checkout is left as it is.
LEMMA Unchanged ==
  ASSUME NEW f \in Seq(PlainKinds), Valid(f), NEW i \in TopLevel(f), f[i] = "new"
  PROVE  Passes(f, f)
BY TopLevelIsSetting DEF Passes

\* Another line is replaced.
LEMMA Replaced ==
  ASSUME NEW f \in Seq(PlainKinds), Valid(f), NEW i \in TopLevel(f), f[i] = "old",
         NEW g, g = [f EXCEPT ![i] = "new"], Valid(g)
  PROVE  Passes(g, f)
<1>1. i \in 1..Len(f) /\ DOMAIN f = 1..Len(f) /\ DOMAIN g = 1..Len(f)
  BY DEF TopLevel
<1>2. g \in Seq(PlainKinds) /\ g[i] = "new" /\ \A k \in 1..Len(f) : k # i => g[k] = f[k]
  BY <1>1 DEF PlainKinds, LineKinds
<1>3. \A k \in 1..Len(f) : /\ f[k] \in NotifyLines <=> g[k] \in NotifyLines
                           /\ f[k] = "table" <=> g[k] = "table"
  BY <1>2 DEF NotifyLines
<1>4. /\ Settings(f) = {k \in 1..Len(f) : /\ f[k] \in NotifyLines
                                          /\ \A m \in 1..k : f[m] # "table"}
      /\ Settings(g) = {k \in 1..Len(f) : /\ g[k] \in NotifyLines
                                          /\ \A m \in 1..k : g[m] # "table"}
  BY <1>1, <1>2, OneSetting
<1>5. ASSUME NEW k \in 1..Len(f)
      PROVE  (\A m \in 1..k : f[m] # "table") <=> (\A m \in 1..k : g[m] # "table")
  BY <1>3
<1>6. Settings(f) = Settings(g)
  BY <1>3, <1>4, <1>5
<1>7. i \in Settings(f)
  BY TopLevelIsSetting
<1>8. Parsed(g).notify = "new"
  <2>1. \A k \in Settings(g) : Parsed(g).notify = g[k]
    BY <1>2, OneSetting
  <2> QED
    BY <1>2, <1>6, <1>7, <2>1
<1>9. OtherLines(g) = OtherLines(f)
  <2>1. \A k \in DOMAIN f \ Settings(f) : k \in 1..Len(f) /\ k # i /\ g[k] = f[k]
    BY <1>1, <1>2, <1>7
  <2> QED
    BY <1>1, <1>6, <2>1 DEF OtherLines
<1> QED
  BY <1>8, <1>9 DEF Passes

\* A line is inserted above the first table.
LEMMA Inserted ==
  ASSUME NEW f \in Seq(PlainKinds), Valid(f), TopLevel(f) = {},
         NEW g, g = InsertAt(f, Bracket(f), "new"), Valid(g)
  PROVE  Passes(g, f)
<1> DEFINE b == Bracket(f)
<1>1. /\ f \in Seq(LineKinds) /\ DOMAIN f = 1..Len(f) /\ Len(f) \in Nat
      /\ b \in 1..(Len(f) + 1)
      /\ \A k \in 1..Len(f) : k < b => f[k] \notin {"table", "item"}
      /\ b <= Len(f) => f[b] \in {"table", "item"}
  <2>1. f \in Seq(LineKinds)
    BY DEF PlainKinds
  <2> QED
    BY <2>1, BracketIs
<1>2. TopLevel(f) = {k \in DOMAIN f : f[k] \in NotifyLines /\ k < b}
  BY DEF TopLevel
<1> HIDE DEF b
<1>3. /\ g \in Seq(PlainKinds) /\ Len(g) = Len(f) + 1
      /\ \A k \in 1..(Len(f) + 1) : g[k] = IF k < b THEN f[k] ELSE IF k = b THEN "new" ELSE f[k - 1]
  <2> DEFINE s == SubSeq(f, 1, b - 1)
             t == SubSeq(f, b, Len(f))
  <2>1. /\ s \in Seq(PlainKinds) /\ Len(s) = b - 1 /\ \A k \in 1..(b - 1) : s[k] = f[k]
        /\ t \in Seq(PlainKinds) /\ Len(t) = Len(f) + 1 - b
        /\ \A k \in 1..(Len(f) + 1 - b) : t[k] = f[b + k - 1]
    BY <1>1
  <2>2. "new" \in PlainKinds
    BY DEF PlainKinds, LineKinds
  <2>3. g = s \o <<"new">> \o t
    BY DEF b, InsertAt
  <2> HIDE DEF s, t
  <2> DEFINE u == s \o <<"new">>
  <2>4. u \in Seq(PlainKinds) /\ Len(u) = b /\ \A k \in 1..b : u[k] = IF k < b THEN f[k] ELSE "new"
    BY <1>1, <2>1, <2>2
  <2>5. g = u \o t
    BY <2>3
  <2> HIDE DEF u
  <2>6. /\ g \in Seq(PlainKinds) /\ Len(g) = Len(u) + Len(t)
        /\ \A k \in 1..(Len(u) + Len(t)) : g[k] = IF k <= Len(u) THEN u[k] ELSE t[k - Len(u)]
    <3>1. u \in Seq(PlainKinds) /\ t \in Seq(PlainKinds)
      BY <2>1, <2>4
    <3>2. /\ u \o t \in Seq(PlainKinds) /\ Len(u \o t) = Len(u) + Len(t)
          /\ \A k \in 1..(Len(u) + Len(t)) :
                (u \o t)[k] = IF k <= Len(u) THEN u[k] ELSE t[k - Len(u)]
      BY <3>1, Concatenated
    <3> QED
      BY <2>5, <3>2, Zenon
  <2>8. /\ Len(u) + Len(t) = Len(f) + 1
        /\ \A k \in 1..(Len(f) + 1) : g[k] = IF k <= b THEN u[k] ELSE t[k - b]
    BY <1>1, <2>1, <2>4, <2>6
  <2>7. ASSUME NEW k \in 1..(Len(f) + 1)
        PROVE  g[k] = IF k < b THEN f[k] ELSE IF k = b THEN "new" ELSE f[k - 1]
    <3>1. k <= b => g[k] = u[k]
      BY <1>1, <2>8
    <3>2. k > b => g[k] = t[k - b] /\ k - b \in 1..(Len(f) + 1 - b) /\ b + (k - b) - 1 = k - 1
      BY <1>1, <2>8
    <3> QED
      BY <1>1, <2>1, <2>4, <3>1, <3>2
  <2> QED
    BY <2>6, <2>7, <2>8
<1>4. DOMAIN g = 1..(Len(f) + 1) /\ b \in DOMAIN g /\ g[b] = "new"
  BY <1>1, <1>3
<1>5. b \in Settings(g)
  <2>1. \A k \in 1..b : g[k] # "table"
    BY <1>1, <1>3
  <2> QED
    BY <1>3, <1>4, <2>1, OneSetting DEF NotifyLines
<1>6. Settings(g) = {b} /\ Parsed(g).notify = "new"
  BY <1>3, <1>4, <1>5, OneSetting
<1>7. b <= Len(f) => f[b] = "table"
  <2> SUFFICES ASSUME b <= Len(f), f[b] = "item" PROVE FALSE
    BY <1>1
  <2>1. b + 1 \in DOMAIN g /\ g[b + 1] = "item" /\ (b + 1) - 1 = b
    BY <1>1, <1>3, <1>4
  <2>2. Reading(g)[b].mode = "array"
    BY <1>3, <2>1, OneSetting
  <2>3. Reading(g)[b].mode = "keys"
    BY <1>3, <1>4, OneSetting
  <2> QED
    BY <2>2, <2>3
<1>8. Settings(f) = {}
  <2> SUFFICES ASSUME NEW k \in Settings(f) PROVE FALSE
    OBVIOUS
  <2>1. k \in 1..Len(f) /\ f[k] \in NotifyLines /\ \A m \in 1..k : f[m] # "table"
    BY <1>1, OneSetting
  <2>2. ~(k < b)
    BY <1>1, <1>2, <2>1
  <2>3. b \in 1..k /\ b <= Len(f)
    BY <1>1, <2>1, <2>2
  <2> QED
    BY <1>7, <2>1, <2>3
<1>9. \A k \in 1..Len(f) : Cardinality((1..k) \ Settings(f)) = k
  BY <1>1, <1>8, FS_Interval
<1>10. ASSUME NEW k \in 1..(Len(f) + 1), k # b
       PROVE  Cardinality((1..k) \ Settings(g)) = IF k < b THEN k ELSE k - 1
  <2>1. IsFiniteSet(1..k) /\ Cardinality(1..k) = k
    BY FS_Interval
  <2>2. CASE k < b
    <3>1. (1..k) \ Settings(g) = 1..k
      BY <1>1, <1>6, <2>2
    <3> QED
      BY <2>1, <2>2, <3>1
  <2>3. CASE k > b
    <3>1. (1..k) \ Settings(g) = (1..k) \ {b} /\ b \in 1..k
      BY <1>1, <1>6, <2>3
    <3>2. Cardinality((1..k) \ {b}) = k - 1
      BY <2>1, <3>1, FS_RemoveElement
    <3>3. ~(k < b)
      BY <1>1, <2>3
    <3> QED
      BY <3>1, <3>2, <3>3
  <2> QED
    BY <1>1, <1>10, <2>2, <2>3
<1>11. OtherLines(f) = {<<k, f[k]>> : k \in 1..Len(f)}
  BY <1>1, <1>8, <1>9 DEF OtherLines
<1>12. OtherLines(g) = {<<IF k < b THEN k ELSE k - 1, g[k]>> : k \in 1..(Len(f) + 1) \ {b}}
  <2>1. DOMAIN g \ Settings(g) = 1..(Len(f) + 1) \ {b}
    BY <1>4, <1>6
  <2> QED
    BY <1>10, <2>1 DEF OtherLines
<1>13. ASSUME NEW k \in 1..(Len(f) + 1) \ {b}
       PROVE  \E m \in 1..Len(f) : <<IF k < b THEN k ELSE k - 1, g[k]>> = <<m, f[m]>>
  <2> DEFINE m == IF k < b THEN k ELSE k - 1
  <2>1. m \in 1..Len(f) /\ g[k] = f[m]
    BY <1>1, <1>3
  <2> QED
    BY <2>1
<1>14. ASSUME NEW m \in 1..Len(f)
       PROVE  \E k \in 1..(Len(f) + 1) \ {b} : <<IF k < b THEN k ELSE k - 1, g[k]>> = <<m, f[m]>>
  <2> DEFINE k == IF m < b THEN m ELSE m + 1
  <2>1. k \in 1..(Len(f) + 1) \ {b} /\ g[k] = f[m] /\ (IF k < b THEN k ELSE k - 1) = m
    BY <1>1, <1>3
  <2> QED
    BY <2>1
<1>15. OtherLines(g) = OtherLines(f)
  <2> DEFINE F(m) == <<m, f[m]>>
             G(k) == <<IF k < b THEN k ELSE k - 1, g[k]>>
  <2>1. \A k \in 1..(Len(f) + 1) \ {b} : \E m \in 1..Len(f) : G(k) = F(m)
    BY <1>13
  <2>2. \A m \in 1..Len(f) : \E k \in 1..(Len(f) + 1) \ {b} : G(k) = F(m)
    BY <1>14
  <2>3. OtherLines(f) = {F(m) : m \in 1..Len(f)}
    BY <1>11
  <2>4. OtherLines(g) = {G(k) : k \in 1..(Len(f) + 1) \ {b}}
    BY <1>12
  <2> HIDE DEF F, G
  <2> QED
    BY <2>1, <2>2, <2>3, <2>4
<1> QED
  BY <1>6, <1>15 DEF Passes

-----------------------------------------------------------------------------
(* The script and the others who write the file.                            *)

\* Types, with the kinds of lines that occur.
ConfigTypes(K) ==
    /\ Valid(toml)
    /\ toml \in Seq(K) /\ temp \in Seq(K) /\ before \in Seq(K)
    /\ stage \in {"begin", "scanned", "copied", "pass", "refused", "crashed"}
    /\ line \in Nat /\ touched \in BOOLEAN /\ changes \in 0..MaxChanges

\* A file with one more line is a file.
LEMMA InsertedType ==
  ASSUME NEW K, NEW f \in Seq(K), NEW l \in K, NEW b \in 1..(Len(f) + 1)
  PROVE  InsertAt(f, b, l) \in Seq(K)
BY DEF InsertAt

\* A file with one line less is a file.
LEMMA RemovedType ==
  ASSUME NEW K, NEW f \in Seq(K), NEW i \in 1..Len(f)
  PROVE  RemoveAt(f, i) \in Seq(K)
BY DEF RemoveAt

\* What the script makes of a file is a file, of the same lines and the line of notify.
LEMMA ConfiguredType ==
  ASSUME NEW K \in SUBSET LineKinds, "new" \in K, NEW f \in Seq(K), line \in Nat
  PROVE  Configured(f) \in Seq(K)
<1>1. Bracket(f) \in 1..(Len(f) + 1)
  BY BracketIs
<1>2. CASE line = 0
  BY <1>1, <1>2, InsertedType DEF Configured
<1>3. CASE line # 0 /\ line \in DOMAIN f
  BY <1>3 DEF Configured
<1>4. CASE line # 0 /\ line \notin DOMAIN f
  BY <1>4 DEF Configured
<1> QED
  BY <1>2, <1>3, <1>4

\* Every step keeps the types, whatever the set of lines.
LEMMA ConfigTypesKept ==
  ASSUME NEW K \in SUBSET LineKinds, "new" \in K, Lines \subseteq K
  PROVE  /\ ConfigInit => ConfigTypes(K)
         /\ ConfigTypes(K) /\ [ConfigNext]_configVars => ConfigTypes(K)'
<1>0. <<>> \in Seq(K)
  OBVIOUS
<1>1. ConfigInit => ConfigTypes(K)
  <2> SUFFICES ASSUME ConfigInit PROVE ConfigTypes(K)
    OBVIOUS
  <2>1. toml \in BoundedSeq(Lines, MaxLines) /\ Valid(toml)
    BY DEF ConfigInit, Files
  <2>2. toml \in Seq(K)
    <3>1. PICK m \in 0..MaxLines : toml \in [1..m -> Lines]
      BY <2>1 DEF BoundedSeq, SeqOf
    <3>2. m \in Nat /\ toml \in [1..m -> K]
      BY <3>1, ConfigAssumption
    <3> QED
      BY <3>2
  <2>3. changes \in 0..MaxChanges
    BY ConfigAssumption DEF ConfigInit
  <2> QED
    BY <1>0, <2>1, <2>2, <2>3 DEF ConfigInit, ConfigTypes
<1>2. ASSUME ConfigTypes(K), [ConfigNext]_configVars PROVE ConfigTypes(K)'
  <2>1. CASE Scan
    <3> DEFINE n == TopLevel(toml)
    <3>1. \/ stage' \in {"scanned", "refused"} /\ line' = 0
          \/ stage' \in {"pass", "scanned", "refused"} /\ line' \in n
      BY <2>1 DEF Scan
    <3>2. n \subseteq Nat
      BY <1>2 DEF ConfigTypes, TopLevel
    <3>3. stage' \in {"begin", "scanned", "copied", "pass", "refused", "crashed"} /\ line' \in Nat
      BY <3>1, <3>2
    <3>4. /\ before' = toml /\ touched' = FALSE /\ temp' = <<>>
          /\ toml' = toml /\ changes' = changes
      BY <2>1 DEF Scan
    <3>5. Valid(toml)' <=> Valid(toml)
      BY <3>4 DEF Valid, Parsed
    <3> QED
      BY <1>0, <1>2, <3>3, <3>4, <3>5 DEF ConfigTypes
  <2>2. CASE Copy
    BY <1>2, <2>2, ConfiguredType DEF Copy, ConfigTypes
  <2>3. CASE Move
    BY <1>2, <2>3 DEF Move, ConfigTypes
  <2>4. CASE ScriptEnds \/ Again
    BY <1>2, <2>4 DEF ScriptEnds, Again, ConfigTypes
  <2>5. CASE OthersWrite
    <3>1. /\ changes' \in 0..MaxChanges /\ touched' \in BOOLEAN /\ Valid(toml')
          /\ UNCHANGED <<stage, line, temp, before>>
      BY <1>2, <2>5, ConfigAssumption DEF OthersWrite, ConfigTypes
    <3>2. \/ \E l \in Lines : toml' = <<l>> \o toml \/ toml' = Append(toml, l)
          \/ \E i \in DOMAIN toml : toml' = RemoveAt(toml, i)
      BY <2>5 DEF OthersWrite
    <3>3. toml \in Seq(K)
      BY <1>2 DEF ConfigTypes
    <3>4. toml' \in Seq(K)
      <4>1. ASSUME NEW l \in Lines, toml' = <<l>> \o toml \/ toml' = Append(toml, l)
            PROVE  toml' \in Seq(K)
        <5>1. l \in K /\ <<l>> \in Seq(K)
          OBVIOUS
        <5>2. <<l>> \o toml \in Seq(K) /\ Append(toml, l) \in Seq(K)
          BY <3>3, <5>1
        <5> QED
          BY <4>1, <5>2
      <4>2. ASSUME NEW i \in DOMAIN toml, toml' = RemoveAt(toml, i)
            PROVE  toml' \in Seq(K)
        BY <3>3, <4>2, RemovedType
      <4> QED
        BY <3>2, <4>1, <4>2
    <3> QED
      BY <1>2, <3>1, <3>4 DEF ConfigTypes
  <2>6. CASE UNCHANGED configVars
    BY <1>2, <2>6 DEF configVars, ConfigTypes
  <2> QED
    BY <1>2, <2>1, <2>2, <2>3, <2>4, <2>5, <2>6 DEF ConfigNext
<1> QED
  BY <1>1, <1>2

\* Whatever is in a file (strings too), and whoever writes to it, Codex can read it at any
\* time: the script replaces it only by a file that tomllib has read.
THEOREM ConfigIsReadable == ConfigSpec => []ConfigTypeOK
<1>1. "new" \in LineKinds /\ Lines \subseteq LineKinds
  BY ConfigAssumption DEF LineKinds
<1>2. ConfigTypes(LineKinds) <=> ConfigTypeOK
  BY DEF ConfigTypes, ConfigTypeOK
<1>3. ConfigInit => ConfigTypes(LineKinds)
  BY <1>1, ConfigTypesKept
<1>4. ConfigTypes(LineKinds) /\ [ConfigNext]_configVars => ConfigTypes(LineKinds)'
  BY <1>1, ConfigTypesKept
<1> QED
  BY <1>2, <1>3, <1>4, PTL DEF ConfigSpec

\* What a run of the script knows of a file that nobody else has touched since it was read.
ScanInv ==
    ~touched =>
        /\ stage \in {"scanned", "copied"} =>
              /\ toml = before
              /\ \/ line = 0 /\ TopLevel(toml) = {}
                 \/ line \in TopLevel(toml) /\ toml[line] = "old"
        /\ stage = "copied" => temp = Configured(toml)
        /\ stage = "pass" => Passes(toml, before)

\* The file of the script passes if nobody has changed the old one since the scan and the
\* reader accepts it.
LEMMA ConfiguredPasses ==
  ASSUME ConfigTypes(PlainKinds), ScanInv, ~touched, stage = "copied", Valid(temp)
  PROVE  Passes(temp, before)
<1>1. toml \in Seq(PlainKinds) /\ Valid(toml) /\ before = toml /\ temp = Configured(toml)
  BY DEF ConfigTypes, ScanInv
<1>2. CASE line = 0 /\ TopLevel(toml) = {}
  <2>1. temp = InsertAt(toml, Bracket(toml), "new")
    BY <1>1, <1>2 DEF Configured
  <2> QED
    BY <1>1, <1>2, <2>1, Inserted
<1>3. CASE line \in TopLevel(toml) /\ toml[line] = "old"
  <2>1. line \in DOMAIN toml /\ line # 0
    BY <1>1, <1>3 DEF TopLevel
  <2>2. temp = [toml EXCEPT ![line] = "new"]
    BY <1>1, <2>1 DEF Configured
  <2> QED
    BY <1>1, <1>3, <2>2, Replaced
<1> QED
  BY <1>2, <1>3 DEF ScanInv

\* Every step of the script and of the user keeps what a run knows of its scan.
LEMMA ScanInvKept ==
  ASSUME ConfigTypes(PlainKinds), ScanInv, [ConfigNext]_configVars
  PROVE  ScanInv'
<1>1. CASE Scan
  <2> DEFINE n == TopLevel(toml)
  <2>1. /\ toml' = toml /\ before' = toml
        /\ \/ n = {} /\ stage' = "scanned" /\ line' = 0
           \/ stage' = "refused"
           \/ \E i \in n : line' = i /\ toml[i] = "new" /\ stage' = "pass"
           \/ \E i \in n : line' = i /\ toml[i] \notin {"new", "open"} /\ stage' = "scanned"
    BY <1>1 DEF Scan
  <2>2. \A i \in n : toml[i] \in NotifyLines
    BY DEF TopLevel
  <2>3. toml \in Seq(PlainKinds) /\ Valid(toml)
    BY DEF ConfigTypes
  <2>4. stage' = "pass" => Passes(toml, toml)
    BY <2>1, <2>3, Unchanged
  <2>5. stage' = "pass" => Passes(toml', before')
    BY <2>1, <2>4
  <2>6. TopLevel(toml)' = TopLevel(toml)
    BY <2>1 DEF TopLevel, Bracket
  <2>7. Passes(toml, before)' <=> Passes(toml', before')
    BY DEF Passes, Parsed, OtherLines, Settings
  <2> QED
    BY <2>1, <2>2, <2>5, <2>6, <2>7 DEF ScanInv, NotifyLines
<1>2. CASE Copy
  <2>1. /\ stage = "scanned" /\ stage' = "copied" /\ temp' = Configured(toml)
        /\ UNCHANGED <<toml, line, before, touched>>
    BY <1>2 DEF Copy
  <2>2. TopLevel(toml)' = TopLevel(toml) /\ Configured(toml)' = Configured(toml)
    BY <2>1 DEF TopLevel, Bracket, Configured
  <2> QED
    BY <2>1, <2>2 DEF ScanInv
<1>3. CASE Move
  <2>1. /\ stage = "copied" /\ UNCHANGED <<before, touched>>
        /\ \/ Valid(temp) /\ stage' = "pass" /\ toml' = temp
           \/ stage' = "refused"
    BY <1>3 DEF Move
  <2>2. stage' = "pass" /\ ~touched => Passes(temp, before)
    BY <2>1, ConfiguredPasses
  <2>3. Passes(toml, before)' <=> Passes(toml', before')
    BY DEF Passes, Parsed, OtherLines, Settings
  <2> QED
    BY <2>1, <2>2, <2>3 DEF ScanInv
<1>4. CASE ScriptEnds \/ Again
  BY <1>4 DEF ScriptEnds, Again, ScanInv
<1>5. CASE OthersWrite
  BY <1>5 DEF OthersWrite, ScanInv
<1>6. CASE UNCHANGED configVars
  <2>1. TopLevel(toml)' = TopLevel(toml) /\ Configured(toml)' = Configured(toml)
        /\ (Passes(toml, before)' <=> Passes(toml, before))
    BY <1>6 DEF configVars, TopLevel, Bracket, Configured, Passes, Parsed, OtherLines, Settings
  <2> QED
    BY <1>6, <2>1 DEF configVars, ScanInv
<1> QED
  BY <1>1, <1>2, <1>3, <1>4, <1>5, <1>6 DEF ConfigNext

\* In a file without multi-line strings, PASS of configure-codex-notify.sh means that Codex
\* notifies this service and that every other line is where it was, unless others have
\* written to the file since the script read it.
THEOREM PassIsTrue ==
  ASSUME Lines \cap {"text", "textend"} = {}
  PROVE  ConfigSpec => []PassConfigures
<1>1. "new" \in PlainKinds /\ Lines \subseteq PlainKinds /\ PlainKinds \in SUBSET LineKinds
  BY ConfigAssumption DEF LineKinds, PlainKinds
<1>2. ConfigInit => ConfigTypes(PlainKinds) /\ ScanInv
  <2>1. ConfigInit => ScanInv
    BY DEF ConfigInit, ScanInv
  <2> QED
    BY <1>1, <2>1, ConfigTypesKept
<1>3. ConfigTypes(PlainKinds) /\ [ConfigNext]_configVars => ConfigTypes(PlainKinds)'
  BY <1>1, ConfigTypesKept
<1>4. ConfigTypes(PlainKinds) /\ ScanInv /\ [ConfigNext]_configVars => ScanInv'
  BY ScanInvKept
<1>5. ScanInv => PassConfigures
  BY DEF ScanInv, PassConfigures, Passes
<1> QED
  BY <1>2, <1>3, <1>4, <1>5, PTL DEF ConfigSpec

-----------------------------------------------------------------------------
(* Texts: what is concatenated, and what is stripped.                       *)

\* FlattenSeq puts its parts together one after the other.
LEMMA FlattenIs ==
  ASSUME NEW S, NEW parts \in Seq(Seq(S))
  PROVE  \E fl \in [0..Len(parts) -> Seq(S)] :
            /\ fl[0] = <<>>
            /\ \A n \in 1..Len(parts) : fl[n] = fl[n - 1] \o parts[n]
            /\ FlattenSeq(parts) = fl[Len(parts)]
<1> DEFINE N == Len(parts)
           Is(p, m) == p = [i \in 1..m |-> IF i = 1 THEN parts[i] ELSE p[i - 1] \o parts[i]]
           Q(m) == \E p \in [1..m -> Seq(S)] : Is(p, m)
           T == {m \in Nat : m <= N => Q(m)}
<1>0. N \in Nat /\ \A n \in 1..N : parts[n] \in Seq(S)
  OBVIOUS
<1>1. 0 \in T
  <2> DEFINE p == [i \in 1..0 |-> <<>>]
  <2>1. p \in [1..0 -> Seq(S)] /\ Is(p, 0)
    OBVIOUS
  <2>2. Q(0)
    <3> HIDE DEF p, Is
    <3> QED
      BY <2>1
  <2> HIDE DEF Q
  <2> QED
    BY <2>2
<1>2. ASSUME NEW m \in Nat, m \in T PROVE m + 1 \in T
  <2> SUFFICES ASSUME m + 1 <= N PROVE Q(m + 1)
    <3> HIDE DEF Q
    <3> QED
      OBVIOUS
  <2>0. Q(m)
    <3> HIDE DEF Q
    <3> QED
      BY <1>0, <1>2
  <2>1. PICK p \in [1..m -> Seq(S)] : Is(p, m)
    <3> HIDE DEF Is
    <3> QED
      BY <2>0
  <2> DEFINE q == [i \in 1..(m + 1) |->
                      IF i = m + 1 THEN IF i = 1 THEN parts[i] ELSE p[m] \o parts[i] ELSE p[i]]
  <2>2. ASSUME NEW i \in 1..(m + 1)
        PROVE  q[i] \in Seq(S) /\ q[i] = IF i = 1 THEN parts[i] ELSE q[i - 1] \o parts[i]
    <3>1. CASE i = m + 1
      <4>1. parts[i] \in Seq(S)
        BY <1>0
      <4>2. i # 1 => m \in 1..m /\ p[m] \in Seq(S) /\ i - 1 = m /\ q[m] = p[m]
        BY <3>1
      <4>3. q[i] = IF i = 1 THEN parts[i] ELSE p[m] \o parts[i]
        BY <3>1
      <4> HIDE DEF q
      <4>4. CASE i = 1
        BY <4>1, <4>3, <4>4
      <4>5. CASE i # 1
        <5>1. p[m] \o parts[i] \in Seq(S)
          BY <4>1, <4>2, <4>5, Concatenated
        <5> QED
          BY <4>2, <4>3, <4>5, <5>1
      <4> QED
        BY <4>4, <4>5
    <3>2. CASE i # m + 1
      <4>1. i \in 1..m /\ q[i] = p[i] /\ (i # 1 => i - 1 \in 1..m /\ q[i - 1] = p[i - 1])
        BY <3>2
      <4>2. p[i] = IF i = 1 THEN parts[i] ELSE p[i - 1] \o parts[i]
        BY <2>1, <4>1
      <4>3. p[i] \in Seq(S)
        BY <4>1
      <4> QED
        BY <4>1, <4>2, <4>3
    <3> QED
      BY <3>1, <3>2
  <2>3. q \in [1..(m + 1) -> Seq(S)] /\ Is(q, m + 1)
    BY <2>2
  <2> HIDE DEF q, Is
  <2> QED
    BY <2>3
<1>3. Nat \subseteq T
  <2> HIDE DEF T
  <2> QED
    BY <1>1, <1>2, Induct
<1>4. Q(N)
  <2> HIDE DEF Q
  <2> QED
    BY <1>0, <1>3
<1> DEFINE P == CHOOSE p : Is(p, N)
<1>5. P \in [1..N -> Seq(S)] /\ Is(P, N)
  <2> HIDE DEF N
  <2>1. PICK p \in [1..N -> Seq(S)] : Is(p, N)
    <3> HIDE DEF Is
    <3> QED
      BY <1>4
  <2>2. Is(P, N)
    <3> HIDE DEF Is
    <3> QED
      BY <2>1
  <2>3. P \in [1..N -> Seq(S)]
    <3> DEFINE U == {i \in Nat : i \in 1..N => P[i] \in Seq(S)}
    <3>1. 0 \in U
      OBVIOUS
    <3>2. ASSUME NEW i \in Nat, i \in U PROVE i + 1 \in U
      <4> SUFFICES ASSUME i + 1 \in 1..N PROVE P[i + 1] \in Seq(S)
        OBVIOUS
      <4>1. P[i + 1] = IF i + 1 = 1 THEN parts[i + 1] ELSE P[i] \o parts[i + 1]
        <5> HIDE DEF P
        <5>1. (i + 1) - 1 = i
          OBVIOUS
        <5> QED
          BY <2>2, <5>1
      <4>2. parts[i + 1] \in Seq(S)
        BY <1>0
      <4>3. i # 0 => P[i] \in Seq(S)
        BY <1>0, <3>2
      <4> HIDE DEF P
      <4>4. i # 0 => P[i] \o parts[i + 1] \in Seq(S)
        BY <4>2, <4>3, Concatenated
      <4> QED
        BY <4>1, <4>2, <4>4
    <3>3. Nat \subseteq U
      <4> HIDE DEF U
      <4> QED
        BY <3>1, <3>2, Induct
    <3> HIDE DEF P
    <3>4. \A i \in 1..N : P[i] \in Seq(S)
      <4> SUFFICES ASSUME NEW i \in 1..N PROVE P[i] \in Seq(S)
        OBVIOUS
      <4>1. i \in Nat /\ i \in U
        BY <1>0, <3>3
      <4> QED
        BY <4>1
    <3> QED
      BY <2>2, <3>4
  <2> QED
    BY <2>2, <2>3
<1>6. FlattenSeq(parts) = IF N = 0 THEN parts ELSE P[N]
  BY DEF FlattenSeq
<1> DEFINE fl == [n \in 0..N |-> IF n = 0 THEN <<>> ELSE P[n]]
<1> HIDE DEF P
<1>7. fl \in [0..N -> Seq(S)] /\ fl[0] = <<>>
  <2>1. <<>> \in Seq(S)
    OBVIOUS
  <2>2. \A n \in 1..N : P[n] \in Seq(S)
    BY <1>5
  <2>3. \A n \in 0..N : (IF n = 0 THEN <<>> ELSE P[n]) \in Seq(S)
    BY <1>0, <2>1, <2>2
  <2> QED
    BY <1>0, <2>3
<1>8. ASSUME NEW n \in 1..N PROVE fl[n] = fl[n - 1] \o parts[n]
  <2>1. P[n] = IF n = 1 THEN parts[n] ELSE P[n - 1] \o parts[n]
    BY <1>5
  <2>2. parts[n] \in Seq(S) /\ <<>> \o parts[n] = parts[n]
    BY <1>0
  <2>3. fl[n] = P[n] /\ fl[n - 1] = IF n = 1 THEN <<>> ELSE P[n - 1]
    BY <1>0
  <2> HIDE DEF fl
  <2> QED
    BY <2>1, <2>2, <2>3
<1>9. FlattenSeq(parts) = fl[N]
  <2>1. N = 0 => parts = <<>>
    OBVIOUS
  <2> QED
    BY <1>0, <1>6, <2>1
<1> HIDE DEF fl
<1> QED
  BY <1>7, <1>8, <1>9

Stripped(s) == s # <<>> => s[1] \notin White /\ s[Len(s)] \notin White

\* A stripped text is a part of the text from its first to its last word.
LEMMA RightStripIs ==
  ASSUME NEW S, NEW s \in Seq(S)
  PROVE  \E n \in 0..Len(s) : /\ RightStrip(s) = SubSeq(s, 1, n)
                              /\ n # 0 => s[n] \notin White
                              /\ Inside(RightStrip(s)) = Inside(s)
                              /\ n = 0 <=> Inside(s) = {}
<1>1. Inside(s) \in SUBSET (1..Len(s)) /\ Len(s) \in Nat
  BY DEF Inside
<1>2. CASE Inside(s) = {}
  <2>1. RightStrip(s) = <<>> /\ SubSeq(s, 1, 0) = <<>> /\ Inside(<<>>) = {}
    BY <1>2 DEF RightStrip, Inside
  <2> QED
    BY <1>1, <1>2, <2>1
<1>3. CASE Inside(s) # {}
  <2> DEFINE n == Max(Inside(s))
  <2>1. n \in Inside(s) /\ \A i \in Inside(s) : n >= i
    BY <1>1, <1>3, LeastGreatest
  <2>2. RightStrip(s) = SubSeq(s, 1, n)
    BY <1>3 DEF RightStrip
  <2> HIDE DEF n
  <2>3. n \in 1..Len(s) /\ s[n] \notin White
    BY <1>1, <2>1 DEF Inside
  <2>4. DOMAIN RightStrip(s) = 1..n /\ \A i \in 1..n : RightStrip(s)[i] = s[i]
    BY <2>2, <2>3
  <2>5. Inside(RightStrip(s)) = Inside(s)
    <3>1. \A i \in Inside(s) : i \in 1..n /\ s[i] \notin White
      BY <1>1, <2>1, <2>3 DEF Inside
    <3>2. \A i \in 1..n : i \in DOMAIN s
      BY <2>3
    <3> QED
      BY <2>4, <3>1, <3>2 DEF Inside
  <2> QED
    BY <1>3, <2>2, <2>3, <2>5
<1> QED
  BY <1>2, <1>3

\* lstrip: what is left begins at the first character that is not white, or is empty.
LEMMA LeftStripIs ==
  ASSUME NEW S, NEW s \in Seq(S)
  PROVE  \E n \in 1..(Len(s) + 1) : /\ LeftStrip(s) = SubSeq(s, n, Len(s))
                                    /\ n <= Len(s) => s[n] \notin White
                                    /\ n = Len(s) + 1 <=> Inside(s) = {}
<1>1. Inside(s) \in SUBSET (1..Len(s)) /\ Len(s) \in Nat
  BY DEF Inside
<1>2. CASE Inside(s) = {}
  <2>1. LeftStrip(s) = <<>> /\ SubSeq(s, Len(s) + 1, Len(s)) = <<>>
    BY <1>2 DEF LeftStrip
  <2> QED
    BY <1>1, <1>2, <2>1
<1>3. CASE Inside(s) # {}
  <2> DEFINE n == Min(Inside(s))
  <2>1. n \in Inside(s)
    BY <1>1, <1>3, LeastGreatest
  <2>2. LeftStrip(s) = SubSeq(s, n, Len(s))
    BY <1>3 DEF LeftStrip
  <2> HIDE DEF n
  <2>3. n \in 1..Len(s) /\ s[n] \notin White
    BY <1>1, <2>1 DEF Inside
  <2> QED
    BY <1>3, <2>2, <2>3
<1> QED
  BY <1>2, <1>3

\* strip: what is left has no white end, is a part of the text, and is not stripped further.
LEMMA StripIs ==
  ASSUME NEW S, NEW s \in Seq(S)
  PROVE  /\ Strip(s) \in Seq(S) /\ Stripped(Strip(s)) /\ Len(Strip(s)) <= Len(s)
         /\ Stripped(s) => Strip(s) = s
         /\ \A i \in DOMAIN Strip(s) : \E k \in DOMAIN s : Strip(s)[i] = s[k]
<1>0. Len(s) \in Nat
  OBVIOUS
<1>1. PICK n \in 0..Len(s) : /\ RightStrip(s) = SubSeq(s, 1, n)
                             /\ n # 0 => s[n] \notin White
                             /\ Inside(RightStrip(s)) = Inside(s)
                             /\ n = 0 <=> Inside(s) = {}
  BY RightStripIs
<1> DEFINE r == RightStrip(s)
<1>2. r \in Seq(S) /\ Len(r) = n /\ \A i \in 1..n : r[i] = s[i]
  BY <1>1
<1>3. PICK m \in 1..(n + 1) : /\ LeftStrip(r) = SubSeq(r, m, n)
                              /\ m <= n => r[m] \notin White
                              /\ m = n + 1 <=> Inside(r) = {}
  <2> HIDE DEF r
  <2> QED
    BY <1>2, LeftStripIs
<1>4. Strip(s) = LeftStrip(r)
  BY DEF Strip
<1> DEFINE t == Strip(s)
<1>5. t \in Seq(S) /\ Len(t) = n + 1 - m /\ \A i \in 1..(n + 1 - m) : t[i] = s[m + i - 1]
  <2> HIDE DEF r, t
  <2>1. t = SubSeq(r, m, n)
    BY <1>3, <1>4 DEF t
  <2>2. t \in Seq(S) /\ Len(t) = n + 1 - m /\ \A i \in 1..(n + 1 - m) : t[i] = r[m + i - 1]
    BY <1>0, <1>2, <2>1
  <2> QED
    BY <1>0, <1>2, <2>2
<1>6. Stripped(t)
  <2> HIDE DEF r, t
  <2>1. CASE m = n + 1
    <3>1. t = <<>>
      BY <1>0, <1>5, <2>1
    <3> QED
      BY <3>1 DEF Stripped
  <2>2. CASE m # n + 1
    <3>1. m <= n /\ n # 0 /\ Len(t) \in 1..n /\ 1 \in 1..Len(t) /\ m + 1 - 1 = m
          /\ m + Len(t) - 1 = n
      BY <1>0, <1>5, <2>2
    <3>2. t[1] = s[m] /\ t[Len(t)] = s[n]
      BY <1>5, <3>1
    <3>3. s[m] \notin White /\ s[n] \notin White
      BY <1>0, <1>1, <1>2, <1>3, <3>1
    <3> QED
      BY <3>2, <3>3 DEF Stripped
  <2> QED
    BY <2>1, <2>2
<1>7. Len(t) <= Len(s)
  BY <1>0, <1>5
<1>8. ASSUME Stripped(s) PROVE t = s
  <2> HIDE DEF t
  <2>1. CASE s = <<>>
    BY <1>0, <1>5, <2>1
  <2>2. CASE s # <<>>
    <3>1. s[1] \notin White /\ s[Len(s)] \notin White /\ Len(s) # 0
      BY <1>8, <2>2 DEF Stripped
    <3>2. 1 \in Inside(s) /\ Len(s) \in Inside(s)
      BY <1>0, <3>1 DEF Inside
    <3>3. Inside(r) = Inside(s) /\ n # 0 /\ m # n + 1
      BY <1>1, <1>3, <3>2
    <3>4. Len(s) \in DOMAIN r /\ DOMAIN r = 1..n
      <4>1. Len(s) \in DOMAIN r
        BY <3>2, <3>3 DEF Inside
      <4> HIDE DEF r
      <4> QED
        BY <1>2, <4>1
    <3>5. n = Len(s)
      BY <1>0, <3>4
    <3>6. r = s
      BY <1>0, <1>1, <3>5
    <3>7. Strip(s) = LeftStrip(s)
      BY <1>4, <3>6
    <3>8. LeftStrip(s) = SubSeq(s, Min(Inside(s)), Len(s))
      BY <3>2 DEF LeftStrip
    <3>9. Min(Inside(s)) \in Inside(s) /\ \A i \in Inside(s) : Min(Inside(s)) <= i
      <4>1. Inside(s) \in SUBSET (1..Len(s)) /\ Inside(s) # {}
        BY <3>2 DEF Inside
      <4> QED
        BY <1>0, <4>1, LeastGreatest
    <3>10. Min(Inside(s)) = 1
      <4>1. Min(Inside(s)) \in 1..Len(s) /\ Min(Inside(s)) <= 1
        BY <3>2, <3>9 DEF Inside
      <4> QED
        BY <1>0, <4>1
    <3> QED
      BY <3>7, <3>8, <3>10 DEF t
  <2> QED
    BY <2>1, <2>2
<1>9. ASSUME NEW i \in DOMAIN t PROVE \E k \in DOMAIN s : t[i] = s[k]
  <2> HIDE DEF t
  <2>1. i \in 1..(n + 1 - m)
    BY <1>0, <1>5
  <2>2. m + i - 1 \in DOMAIN s
    BY <1>0, <2>1
  <2>3. t[i] = s[m + i - 1]
    BY <1>5, <2>1
  <2> QED
    BY <2>2, <2>3
<1> QED
  BY <1>5, <1>6, <1>7, <1>8, <1>9

\* A text whose parts are its characters, one by one, is that text.
LEMMA FlattenSame ==
  ASSUME NEW S, NEW s \in Seq(S), NEW parts \in Seq(Seq(S)), Len(parts) = Len(s),
         \A i \in 1..Len(s) : parts[i] = <<s[i]>>
  PROVE  FlattenSeq(parts) = s
<1>0. Len(s) \in Nat /\ Len(parts) = Len(s)
  OBVIOUS
<1>1. PICK fl \in [0..Len(parts) -> Seq(S)] :
            /\ fl[0] = <<>>
            /\ \A n \in 1..Len(parts) : fl[n] = fl[n - 1] \o parts[n]
            /\ FlattenSeq(parts) = fl[Len(parts)]
  BY FlattenIs
<1> DEFINE T == {n \in Nat : n <= Len(s) => fl[n] = SubSeq(s, 1, n)}
<1>2. 0 \in T
  BY <1>0, <1>1
<1>3. ASSUME NEW n \in Nat, n \in T PROVE n + 1 \in T
  <2> SUFFICES ASSUME n + 1 <= Len(s) PROVE fl[n + 1] = SubSeq(s, 1, n + 1)
    OBVIOUS
  <2>1. n + 1 \in 1..Len(parts) /\ n + 1 \in 1..Len(s) /\ n \in 0..Len(parts) /\ (n + 1) - 1 = n
    BY <1>0
  <2>2. fl[n + 1] = fl[(n + 1) - 1] \o parts[n + 1]
    BY <1>1, <2>1
  <2>3. fl[n] = SubSeq(s, 1, n) /\ parts[n + 1] = <<s[n + 1]>>
    BY <1>0, <1>3, <2>1
  <2>4. fl[n + 1] = SubSeq(s, 1, n) \o <<s[n + 1]>>
    BY <2>1, <2>2, <2>3
  <2>5. SubSeq(s, 1, n) \in Seq(S) /\ Len(SubSeq(s, 1, n)) = n
        /\ \A i \in 1..n : SubSeq(s, 1, n)[i] = s[i]
    BY <2>1, <1>0
  <2>6. SubSeq(s, 1, n) \o <<s[n + 1]>> = SubSeq(s, 1, n + 1)
    BY <2>1, <2>5, <1>0
  <2> QED
    BY <2>4, <2>6
<1>4. Nat \subseteq T
  <2> HIDE DEF T
  <2> QED
    BY <1>2, <1>3, Induct
<1>5. fl[Len(s)] = SubSeq(s, 1, Len(s))
  <2>1. Len(s) \in T
    <3> HIDE DEF T
    <3> QED
      BY <1>0, <1>4
  <2> QED
    BY <1>0, <2>1
<1>6. SubSeq(s, 1, Len(s)) = s
  BY <1>0
<1> QED
  BY <1>0, <1>1, <1>5, <1>6

\* The first and the last character stay where the parts of them are not empty.
LEMMA FlattenEnds ==
  ASSUME NEW S, NEW parts \in Seq(Seq(S)), Len(parts) # 0, NEW a \in S, NEW b \in S,
         parts[1] = <<a>>, parts[Len(parts)] = <<b>>
  PROVE  LET F == FlattenSeq(parts) IN F # <<>> /\ F[1] = a /\ F[Len(F)] = b
<1>0. Len(parts) \in Nat /\ Len(parts) >= 1 /\ \A i \in 1..Len(parts) : parts[i] \in Seq(S)
  OBVIOUS
<1>1. PICK fl \in [0..Len(parts) -> Seq(S)] :
            /\ fl[0] = <<>>
            /\ \A n \in 1..Len(parts) : fl[n] = fl[n - 1] \o parts[n]
            /\ FlattenSeq(parts) = fl[Len(parts)]
  BY FlattenIs
<1> DEFINE First(n) == fl[n + 1] # <<>> /\ fl[n + 1][1] = a
           T == {n \in Nat : n + 1 <= Len(parts) => First(n)}
<1>2. 0 \in T
  <2>0. 1 \in 1..Len(parts)
    BY <1>0
  <2>1. fl[1] = fl[1 - 1] \o parts[1]
    BY <1>1, <2>0
  <2>2. fl[1] = <<>> \o <<a>>
    <3>1. 1 - 1 = 0
      OBVIOUS
    <3>2. fl[1 - 1] = fl[0]
      BY <3>1
    <3> QED
      BY <1>1, <2>1, <3>2
  <2>3. fl[0 + 1] = <<a>>
    BY <2>2
  <2> QED
    BY <2>3
<1>3. ASSUME NEW n \in Nat, n \in T PROVE n + 1 \in T
  <2> SUFFICES ASSUME (n + 1) + 1 <= Len(parts) PROVE First(n + 1)
    <3> HIDE DEF First
    <3> QED
      OBVIOUS
  <2>1. (n + 1) + 1 \in 1..Len(parts) /\ n + 1 \in 0..Len(parts) /\ ((n + 1) + 1) - 1 = n + 1
    BY <1>0
  <2>2. fl[(n + 1) + 1] = fl[n + 1] \o parts[(n + 1) + 1]
    BY <1>1, <2>1
  <2>3. fl[n + 1] # <<>> /\ fl[n + 1][1] = a
    BY <1>0, <1>3, <2>1
  <2>4. fl[n + 1] \in Seq(S) /\ parts[(n + 1) + 1] \in Seq(S)
    BY <1>0, <2>1
  <2> DEFINE u == fl[n + 1]
             t == parts[(n + 1) + 1]
  <2>5. u \o t # <<>> /\ (u \o t)[1] = a
    <3> HIDE DEF u, t
    <3>1. u \in Seq(S) /\ t \in Seq(S) /\ u # <<>> /\ u[1] = a
      BY <2>3, <2>4 DEF u, t
    <3> QED
      BY <3>1
  <2> QED
    BY <2>2, <2>5
<1>4. Nat \subseteq T
  <2> HIDE DEF T
  <2> QED
    BY <1>2, <1>3, Induct
<1>5. fl[Len(parts)] # <<>> /\ fl[Len(parts)][1] = a
  <2>1. Len(parts) - 1 \in Nat /\ (Len(parts) - 1) + 1 = Len(parts)
    BY <1>0
  <2>2. Len(parts) - 1 \in T
    BY <1>4, <2>1
  <2> QED
    BY <2>1, <2>2
<1>6. fl[Len(parts)][Len(fl[Len(parts)])] = b
  <2>1. Len(parts) \in 1..Len(parts) /\ Len(parts) - 1 \in 0..Len(parts)
    BY <1>0
  <2>2. fl[Len(parts)] = fl[Len(parts) - 1] \o <<b>> /\ fl[Len(parts) - 1] \in Seq(S)
    BY <1>1, <2>1
  <2> DEFINE u == fl[Len(parts) - 1]
  <2>3. (u \o <<b>>)[Len(u \o <<b>>)] = b
    <3> HIDE DEF u
    <3>1. u \in Seq(S)
      BY <2>2 DEF u
    <3> QED
      BY <3>1
  <2> QED
    BY <2>2, <2>3
<1> QED
  BY <1>1, <1>5, <1>6

\* Where x is in a sequence
Occurrences(s, x) == {i \in DOMAIN s : s[i] = x}

\* Of parts of at most one character, as many are c as parts are of c alone.
LEMMA FlattenCounts ==
  ASSUME NEW S, NEW parts \in Seq(Seq(S)), NEW c \in S,
         \A i \in 1..Len(parts) : parts[i] = <<>> \/ \E x \in S : parts[i] = <<x>>
  PROVE  Cardinality(Occurrences(FlattenSeq(parts), c)) = Cardinality(Occurrences(parts, <<c>>))
<1>0. Len(parts) \in Nat /\ \A i \in 1..Len(parts) : parts[i] \in Seq(S)
  OBVIOUS
<1>1. PICK fl \in [0..Len(parts) -> Seq(S)] :
            /\ fl[0] = <<>>
            /\ \A n \in 1..Len(parts) : fl[n] = fl[n - 1] \o parts[n]
            /\ FlattenSeq(parts) = fl[Len(parts)]
  BY FlattenIs
<1> DEFINE At(t) == Occurrences(t, c)
           Of(n) == {i \in 1..n : parts[i] = <<c>>}
           Same(n) == Cardinality(At(fl[n])) = Cardinality(Of(n))
           T == {n \in Nat : n <= Len(parts) => Same(n)}
<1>2. 0 \in T
  <2>1. At(fl[0]) = {} /\ Of(0) = {}
    BY <1>1 DEF Occurrences
  <2>2. Same(0)
    BY <2>1
  <2> HIDE DEF Same
  <2> QED
    BY <2>2
<1>3. ASSUME NEW n \in Nat, n \in T PROVE n + 1 \in T
  <2> SUFFICES ASSUME n + 1 <= Len(parts) PROVE Same(n + 1)
    <3> HIDE DEF Same
    <3> QED
      OBVIOUS
  <2>1. n + 1 \in 1..Len(parts) /\ n \in 0..Len(parts) /\ (n + 1) - 1 = n
    BY <1>0
  <2>2. fl[n + 1] = fl[n] \o parts[n + 1]
    BY <1>1, <2>1
  <2>3. Same(n)
    <3> HIDE DEF Same
    <3> QED
      BY <1>0, <1>3, <2>1
  <2>4. Of(n + 1) = IF parts[n + 1] = <<c>> THEN Of(n) \cup {n + 1} ELSE Of(n)
    BY <2>1
  <2>5. IsFiniteSet(Of(n)) /\ n + 1 \notin Of(n)
    <3>1. IsFiniteSet(1..n)
      BY FS_Interval
    <3> QED
      BY <3>1, FS_Subset
  <2> DEFINE u == fl[n]
  <2>6. u \in Seq(S) /\ Len(u) \in Nat
    <3>1. u \in Seq(S)
      BY <2>1
    <3> HIDE DEF u
    <3> QED
      BY <3>1
  <2>7. IsFiniteSet(At(u)) /\ Len(u) + 1 \notin At(u)
    <3> HIDE DEF u
    <3>1. IsFiniteSet(1..Len(u))
      BY <2>6, FS_Interval
    <3>2. At(u) \subseteq 1..Len(u)
      BY <2>6 DEF Occurrences
    <3> QED
      BY <2>6, <3>1, <3>2, FS_Subset
  <2>8. CASE parts[n + 1] = <<>>
    <3>1. u \o <<>> = u
      BY <2>6
    <3>2. fl[n + 1] = fl[n]
      BY <2>2, <2>8, <3>1
    <3>3. <<>> # <<c>>
      OBVIOUS
    <3>4. Of(n + 1) = Of(n)
      BY <2>4, <2>8, <3>3
    <3> QED
      BY <2>3, <3>2, <3>4
  <2>9. ASSUME NEW x \in S, parts[n + 1] = <<x>> PROVE Same(n + 1)
    <3> DEFINE w == u \o <<x>>
    <3>1. fl[n + 1] = w
      BY <2>2, <2>9
    <3>2. At(w) = IF x = c THEN At(u) \cup {Len(u) + 1} ELSE At(u)
      <4> HIDE DEF u
      <4>1. DOMAIN w = 1..(Len(u) + 1) /\ w[Len(u) + 1] = x
            /\ DOMAIN u = 1..Len(u) /\ \A i \in 1..Len(u) : w[i] = u[i]
        BY <2>6
      <4> HIDE DEF w
      <4> QED
        BY <2>6, <4>1 DEF Occurrences
    <3>3. parts[n + 1] = <<c>> <=> x = c
      BY <2>9
    <3> HIDE DEF w, u
    <3>4. CASE x = c
      <4>1. Cardinality(At(w)) = Cardinality(At(u)) + 1
        BY <2>7, <3>2, <3>4, FS_AddElement
      <4>2. Cardinality(Of(n + 1)) = Cardinality(Of(n)) + 1
        BY <2>4, <2>5, <3>3, <3>4, FS_AddElement
      <4> QED
        BY <2>3, <3>1, <4>1, <4>2 DEF u
    <3>5. CASE x # c
      <4>1. At(w) = At(u) /\ Of(n + 1) = Of(n)
        BY <2>4, <3>2, <3>3, <3>5
      <4> QED
        BY <2>3, <3>1, <4>1 DEF u
    <3> QED
      BY <3>4, <3>5
  <2> HIDE DEF Same
  <2> QED
    BY <2>1, <2>8, <2>9
<1>4. Nat \subseteq T
  <2> HIDE DEF T
  <2> QED
    BY <1>2, <1>3, Induct
<1>5. Same(Len(parts))
  <2> HIDE DEF Same
  <2> QED
    BY <1>0, <1>4
<1>6. Of(Len(parts)) = Occurrences(parts, <<c>>)
  BY DEF Occurrences
<1> QED
  BY <1>1, <1>5, <1>6

-----------------------------------------------------------------------------
(* Texts: line ends, and the normalisation of a prompt.                     *)

\* What becomes of a character.
LEMMA LineEndIs ==
  ASSUME NEW s \in Seq(Characters), NEW i \in DOMAIN s
  PROVE  /\ LineEnd(s, i) \in Seq(Characters \ {"CR"})
         /\ LineEnd(s, i) = <<>> \/ \E x \in Characters \ {"CR"} : LineEnd(s, i) = <<x>>
         /\ s[i] # "CR" => LineEnd(s, i) = <<s[i]>>
         /\ LineEnd(s, i) = <<"LF">> <=> \/ s[i] = "LF"
                                         \/ s[i] = "CR" /\ ~(i < Len(s) /\ s[i + 1] = "LF")
<1>0. s[i] \in Characters /\ "LF" \in Characters \ {"CR"}
  <2>1. s[i] \in Characters
    OBVIOUS
  <2>2. "LF" \in Characters \ {"CR"}
    BY DEF Characters, White
  <2> QED
    BY <2>1, <2>2
<1>1. CASE s[i] # "CR"
  <2>1. LineEnd(s, i) = <<s[i]>> /\ s[i] \in Characters \ {"CR"}
    BY <1>0, <1>1 DEF LineEnd
  <2> QED
    BY <1>0, <1>1, <2>1
<1>2. CASE s[i] = "CR" /\ i < Len(s) /\ s[i + 1] = "LF"
  <2>1. LineEnd(s, i) = <<>>
    BY <1>2 DEF LineEnd
  <2>2. <<>> # <<"LF">> /\ "CR" # "LF"
    OBVIOUS
  <2> QED
    BY <1>0, <1>2, <2>1, <2>2
<1>3. CASE s[i] = "CR" /\ ~(i < Len(s) /\ s[i + 1] = "LF")
  <2>1. LineEnd(s, i) = <<"LF">>
    BY <1>3 DEF LineEnd
  <2> QED
    BY <1>0, <1>3, <2>1
<1> QED
  BY <1>1, <1>2, <1>3

\* LineEnds: the parts it is put together of.
LEMMA LineEndsIs ==
  ASSUME NEW s \in Seq(Characters)
  PROVE  LET parts == [i \in DOMAIN s |-> LineEnd(s, i)]
         IN  /\ parts \in Seq(Seq(Characters \ {"CR"})) /\ Len(parts) = Len(s)
             /\ \A i \in 1..Len(s) : i \in DOMAIN s /\ parts[i] = LineEnd(s, i)
             /\ LineEnds(s) = FlattenSeq(parts)
<1> DEFINE parts == [i \in DOMAIN s |-> LineEnd(s, i)]
<1>1. DOMAIN s = 1..Len(s) /\ Len(s) \in Nat
  OBVIOUS
<1>2. \A i \in DOMAIN s : LineEnd(s, i) \in Seq(Characters \ {"CR"})
  BY LineEndIs
<1>3. parts \in [1..Len(s) -> Seq(Characters \ {"CR"})]
  BY <1>1, <1>2
<1>4. parts \in Seq(Seq(Characters \ {"CR"})) /\ Len(parts) = Len(s)
  <2> HIDE DEF parts
  <2> QED
    BY <1>1, <1>3
<1> QED
  BY <1>1, <1>4 DEF LineEnds

\* After it no "\r" is left, and a text without one stays as it is.
LEMMA LineEndsType ==
  ASSUME NEW s \in Seq(Characters)
  PROVE  /\ LineEnds(s) \in Seq(Characters) /\ "CR" \notin Range(LineEnds(s))
         /\ "CR" \notin Range(s) => LineEnds(s) = s
<1> DEFINE parts == [i \in DOMAIN s |-> LineEnd(s, i)]
           C == Characters \ {"CR"}
<1>1. /\ parts \in Seq(Seq(C)) /\ Len(parts) = Len(s)
      /\ \A i \in 1..Len(s) : i \in DOMAIN s /\ parts[i] = LineEnd(s, i)
      /\ LineEnds(s) = FlattenSeq(parts)
  BY LineEndsIs
<1> HIDE DEF parts
<1>2. LineEnds(s) \in Seq(C)
  <2>1. PICK fl \in [0..Len(parts) -> Seq(C)] : FlattenSeq(parts) = fl[Len(parts)]
    <3> HIDE DEF C
    <3> QED
      BY <1>1, FlattenIs
  <2>2. Len(parts) \in 0..Len(parts)
    BY <1>1
  <2> QED
    BY <1>1, <2>1, <2>2
<1>3. LineEnds(s) \in Seq(Characters) /\ "CR" \notin Range(LineEnds(s))
  <2> DEFINE e == LineEnds(s)
  <2>1. e \in Seq(C)
    BY <1>2
  <2> HIDE DEF e
  <2>2. e \in Seq(Characters) /\ \A i \in DOMAIN e : e[i] # "CR"
    BY <2>1
  <2>3. "CR" \notin Range(e)
    BY <2>2 DEF Range
  <2> QED
    BY <2>2, <2>3 DEF e
<1>4. ASSUME "CR" \notin Range(s) PROVE LineEnds(s) = s
  <2>1. \A i \in 1..Len(s) : i \in DOMAIN s /\ s[i] # "CR"
    BY <1>4 DEF Range
  <2>2. \A i \in DOMAIN s : s[i] # "CR" => LineEnd(s, i) = <<s[i]>>
    BY LineEndIs
  <2>3. \A i \in 1..Len(s) : parts[i] = <<s[i]>>
    BY <1>1, <2>1, <2>2
  <2>4. s \in Seq(C)
    <3>1. \A i \in DOMAIN s : s[i] \in C
      BY <2>1
    <3> QED
      BY <3>1
  <2> HIDE DEF C
  <2>5. FlattenSeq(parts) = s
    BY <1>1, <2>3, <2>4, FlattenSame
  <2> QED
    BY <1>1, <2>5
<1> QED
  BY <1>3, <1>4

\* A text between its first and its last word stays one.
LEMMA LineEndsStripped ==
  ASSUME NEW s \in Seq(Characters), s # <<>>, Stripped(s)
  PROVE  LineEnds(s) # <<>> /\ Stripped(LineEnds(s))
<1> DEFINE parts == [i \in DOMAIN s |-> LineEnd(s, i)]
           C == Characters \ {"CR"}
<1>1. /\ parts \in Seq(Seq(C)) /\ Len(parts) = Len(s)
      /\ \A i \in 1..Len(s) : i \in DOMAIN s /\ parts[i] = LineEnd(s, i)
      /\ LineEnds(s) = FlattenSeq(parts)
  BY LineEndsIs
<1> HIDE DEF parts
<1>2. Len(s) \in Nat /\ Len(s) # 0 /\ 1 \in 1..Len(s) /\ Len(s) \in 1..Len(s)
  OBVIOUS
<1>3. s[1] \notin White /\ s[Len(s)] \notin White
  BY DEF Stripped
<1>4. s[1] \in C /\ s[Len(s)] \in C
  <2>1. s[1] \in Characters /\ s[Len(s)] \in Characters
    BY <1>2
  <2>2. "CR" \in White
    BY DEF White
  <2> QED
    BY <1>3, <2>1, <2>2
<1>5. \A i \in DOMAIN s : s[i] # "CR" => LineEnd(s, i) = <<s[i]>>
  BY LineEndIs
<1>6. parts[1] = <<s[1]>> /\ parts[Len(parts)] = <<s[Len(s)]>>
  BY <1>1, <1>2, <1>4, <1>5
<1>7. LET F == FlattenSeq(parts) IN F # <<>> /\ F[1] = s[1] /\ F[Len(F)] = s[Len(s)]
  <2> HIDE DEF C
  <2> QED
    BY <1>1, <1>2, <1>4, <1>6, FlattenEnds
<1> QED
  BY <1>1, <1>3, <1>7 DEF Stripped

\* No line is lost and none is added.
LEMMA LinesCounted ==
  ASSUME NEW s \in Seq(Characters)
  PROVE  Cardinality(Breaks(LineEnds(s))) = Cardinality(Breaks(s))
<1> DEFINE parts == [i \in DOMAIN s |-> LineEnd(s, i)]
           C == Characters \ {"CR"}
           N == Len(s)
           Feeds == {i \in 1..N : parts[i] = <<"LF">>}
<1>0. N \in Nat /\ DOMAIN s = 1..N /\ \A i \in 1..N : s[i] \in Characters
  OBVIOUS
<1>1. /\ parts \in Seq(Seq(C)) /\ Len(parts) = Len(s)
      /\ \A i \in 1..Len(s) : i \in DOMAIN s /\ parts[i] = LineEnd(s, i)
      /\ LineEnds(s) = FlattenSeq(parts)
  BY LineEndsIs
<1>2. \A i \in DOMAIN s :
         /\ LineEnd(s, i) = <<>> \/ \E x \in C : LineEnd(s, i) = <<x>>
         /\ LineEnd(s, i) = <<"LF">> <=> \/ s[i] = "LF"
                                         \/ s[i] = "CR" /\ ~(i < Len(s) /\ s[i + 1] = "LF")
  BY LineEndIs
<1> HIDE DEF parts
<1>3. Cardinality(Occurrences(LineEnds(s), "LF")) = Cardinality(Feeds)
  <2>1. "LF" \in C
    BY DEF Characters, White
  <2>2. \A i \in 1..Len(parts) : parts[i] = <<>> \/ \E x \in C : parts[i] = <<x>>
    <3> HIDE DEF C
    <3> QED
      BY <1>1, <1>2
  <2> HIDE DEF C
  <2>3. Cardinality(Occurrences(FlattenSeq(parts), "LF")) = Cardinality(Occurrences(parts, <<"LF">>))
    BY <1>1, <2>1, <2>2, FlattenCounts
  <2>4. Occurrences(parts, <<"LF">>) = Feeds
    BY <1>1 DEF Occurrences
  <2> QED
    BY <1>1, <2>3, <2>4
<1>4. Breaks(LineEnds(s)) = Occurrences(LineEnds(s), "LF")
  <2> DEFINE e == LineEnds(s)
  <2>1. e \in Seq(Characters) /\ "CR" \notin Range(e)
    BY LineEndsType
  <2> HIDE DEF e
  <2>2. \A i \in DOMAIN e : e[i] # "CR"
    BY <2>1 DEF Range
  <2>3. \A i \in DOMAIN e : i = 1 \/ i - 1 \in DOMAIN e
    BY <2>1
  <2>4. Breaks(e) = Occurrences(e, "LF")
    BY <2>2, <2>3 DEF Breaks, Occurrences
  <2> QED
    BY <2>4 DEF e
<1>5. Cardinality(Breaks(s)) = Cardinality(Feeds)
  <2> DEFINE CRLF(i) == s[i] = "CR" /\ i < N /\ s[i + 1] = "LF"
             f == [i \in Breaks(s) |-> IF CRLF(i) THEN i + 1 ELSE i]
  <2>1. \A i \in Breaks(s) :
           /\ i \in 1..N
           /\ \/ s[i] = "CR"
              \/ s[i] = "LF" /\ (i = 1 \/ s[i - 1] # "CR")
    BY <1>0 DEF Breaks
  <2>2. \A i \in 1..N : i \in Feeds <=> s[i] = "LF" \/ (s[i] = "CR" /\ ~CRLF(i))
    BY <1>0, <1>1, <1>2
  <2>3. IsFiniteSet(Breaks(s))
    <3>1. IsFiniteSet(1..N)
      BY <1>0, FS_Interval
    <3>2. Breaks(s) \subseteq 1..N
      BY <2>1
    <3> QED
      BY <3>1, <3>2, FS_Subset
  <2> HIDE DEF Feeds, N
  <2>4. ASSUME NEW i \in Breaks(s) PROVE f[i] \in Feeds
    <3>1. CASE CRLF(i)
      <4>1. i + 1 \in 1..N /\ s[i + 1] = "LF"
        BY <1>0, <2>1, <3>1
      <4> QED
        BY <2>2, <3>1, <4>1
    <3>2. CASE ~CRLF(i)
      BY <2>1, <2>2, <3>2
    <3> QED
      BY <3>1, <3>2
  <2>5. ASSUME NEW i \in Breaks(s), NEW j \in Breaks(s), f[i] = f[j] PROVE i = j
    <3>0. i \in 1..N /\ j \in 1..N
      BY <2>1
    <3>1. ASSUME NEW a \in Breaks(s), NEW b \in Breaks(s), CRLF(a), b = a + 1 PROVE FALSE
      <4>1. a \in 1..N /\ b \in 1..N
        BY <2>1
      <4>2. b # 1 /\ b - 1 = a
        BY <1>0, <3>1, <4>1
      <4>3. s[b] = "LF" /\ s[b - 1] = "CR" /\ s[b] # "CR"
        BY <3>1, <4>2
      <4> QED
        BY <2>1, <4>2, <4>3
    <3>2. CASE CRLF(i) /\ CRLF(j)
      <4>1. i + 1 = j + 1
        BY <2>5, <3>2
      <4> QED
        BY <1>0, <3>0, <4>1
    <3>3. CASE CRLF(i) /\ ~CRLF(j)
      <4>1. j = i + 1
        BY <2>5, <3>3
      <4> QED
        BY <3>1, <3>3, <4>1
    <3>4. CASE ~CRLF(i) /\ CRLF(j)
      <4>1. i = j + 1
        BY <2>5, <3>4
      <4> QED
        BY <3>1, <3>4, <4>1
    <3>5. CASE ~CRLF(i) /\ ~CRLF(j)
      BY <2>5, <3>5
    <3> QED
      BY <3>2, <3>3, <3>4, <3>5
  <2>6. ASSUME NEW k \in Feeds PROVE \E i \in Breaks(s) : f[i] = k
    <3>0. k \in 1..N /\ k \in DOMAIN s /\ (s[k] = "LF" \/ (s[k] = "CR" /\ ~CRLF(k)))
      <4>1. k \in 1..N
        BY DEF Feeds
      <4> QED
        BY <1>0, <2>2, <4>1
    <3>1. CASE s[k] = "CR" /\ ~CRLF(k)
      <4>1. k \in Breaks(s)
        BY <3>0, <3>1 DEF Breaks
      <4>2. f[k] = k
        BY <3>1, <4>1
      <4> QED
        BY <4>1, <4>2
    <3>2. CASE s[k] = "LF" /\ (k = 1 \/ s[k - 1] # "CR")
      <4>1. k \in Breaks(s)
        BY <3>0, <3>2 DEF Breaks
      <4>2. ~CRLF(k)
        BY <3>2
      <4>3. f[k] = k
        BY <4>1, <4>2
      <4> QED
        BY <4>1, <4>3
    <3>3. CASE s[k] = "LF" /\ k # 1 /\ s[k - 1] = "CR"
      <4> DEFINE i == k - 1
      <4>1. i \in 1..N /\ i < N /\ i + 1 = k
        BY <1>0, <3>0, <3>3
      <4>2. CRLF(i)
        BY <3>3, <4>1
      <4>3. i \in Breaks(s)
        BY <1>0, <3>3, <4>1 DEF Breaks
      <4>4. f[i] = k
        BY <4>1, <4>2, <4>3
      <4> QED
        BY <4>3, <4>4
    <3> QED
      BY <3>0, <3>1, <3>2, <3>3
  <2>7. f \in Bijection(Breaks(s), Feeds)
    <3> DEFINE B == Breaks(s)
    <3>1. f \in [B -> Feeds]
      BY <2>4
    <3> HIDE DEF f, B
    <3>2. f \in Injection(B, Feeds)
      BY <2>5, <3>1, Fun_IsInj DEF B
    <3>3. f \in Surjection(B, Feeds)
      BY <2>6, <3>1, Fun_IsSurj DEF B
    <3> QED
      BY <3>2, <3>3, Fun_IsBij DEF B
  <2> QED
    BY <2>3, <2>7, FS_Bijection DEF ExistsBijection
<1> QED
  BY <1>3, <1>4, <1>5

\* The prompt of a message: without "\r", with the lines of the message, and as it is when
\* it is normalised again.
LEMMA NormalizedIs ==
  ASSUME NEW m \in Seq(Characters), Strip(m) # <<>>
  PROVE  LET e == Normalized(Strip(m))
         IN  /\ e \in Seq(Characters) /\ e # <<>> /\ Normalized(e) = e
             /\ "CR" \notin Range(e) /\ Cardinality(Breaks(e)) = Cardinality(Breaks(Strip(m)))
<1> DEFINE t == Strip(m)
           e == LineEnds(t)
<1>1. t \in Seq(Characters) /\ Stripped(t) /\ t # <<>>
  BY StripIs
<1> HIDE DEF t
<1>2. e \in Seq(Characters) /\ "CR" \notin Range(e)
  BY <1>1, LineEndsType
<1>3. e # <<>> /\ Stripped(e)
  BY <1>1, LineEndsStripped
<1>4. Cardinality(Breaks(e)) = Cardinality(Breaks(t))
  BY <1>1, LinesCounted
<1> HIDE DEF e
<1>5. Strip(e) = e
  BY <1>2, <1>3, StripIs
<1>6. Normalized(t) = e
  BY <1>5 DEF Normalized, e
<1>7. Normalized(e) = e
  BY <1>2, <1>5, LineEndsType DEF Normalized
<1> QED
  BY <1>2, <1>3, <1>4, <1>6, <1>7 DEF t

\* The result as it is shown is never empty, and between its first and its last word.
LEMMA ShownIs ==
  ASSUME NEW r \in Seq(Characters)
  PROVE  LET S == Characters \cup {"nothing"}
         IN  Shown(r) \in Seq(S) /\ Shown(r) # <<>> /\ Stripped(Shown(r))
<1> DEFINE S == Characters \cup {"nothing"}
           parts == [i \in DOMAIN r |-> IF r[i] = "NUL" THEN <<>> ELSE <<r[i]>>]
           f == FlattenSeq(parts)
<1>1. parts \in Seq(Seq(S)) /\ Len(parts) \in 0..Len(parts)
  <2>1. DOMAIN r = 1..Len(r) /\ Len(r) \in Nat
    OBVIOUS
  <2>2. \A i \in 1..Len(r) : r[i] \in S
    <3> HIDE DEF S
    <3>1. r \in Seq(S)
      BY DEF S
    <3> QED
      BY <3>1
  <2> HIDE DEF S
  <2>3. \A i \in 1..Len(r) : (IF r[i] = "NUL" THEN <<>> ELSE <<r[i]>>) \in Seq(S)
    BY <2>2
  <2>4. parts \in [1..Len(r) -> Seq(S)]
    BY <2>1, <2>3
  <2> HIDE DEF parts
  <2> QED
    BY <2>1, <2>4
<1>2. f \in Seq(S)
  <2> HIDE DEF S, parts
  <2>1. PICK fl \in [0..Len(parts) -> Seq(S)] : FlattenSeq(parts) = fl[Len(parts)]
    BY <1>1, FlattenIs
  <2> QED
    BY <1>1, <2>1
<1> DEFINE t == Strip(f)
<1>3. t \in Seq(S) /\ Stripped(t)
  <2> HIDE DEF f, S
  <2> QED
    BY <1>2, StripIs
<1>4. Shown(r) = IF t = <<>> THEN <<"nothing">> ELSE t
  BY DEF Shown
<1>5. <<"nothing">> \in Seq(S) /\ <<"nothing">> # <<>> /\ Stripped(<<"nothing">>)
  <2>1. "nothing" \in S /\ "nothing" \notin White
    BY DEF White
  <2> HIDE DEF S
  <2>2. <<"nothing">>[1] = "nothing" /\ Len(<<"nothing">>) = 1 /\ <<"nothing">> \in Seq(S)
        /\ <<"nothing">> # <<>>
    BY <2>1
  <2> QED
    BY <2>1, <2>2 DEF Stripped
<1> HIDE DEF t
<1>6. Shown(r) \in Seq(S) /\ Shown(r) # <<>> /\ Stripped(Shown(r))
  <2> HIDE DEF S
  <2>1. CASE t = <<>>
    BY <1>4, <1>5, <2>1
  <2>2. CASE t # <<>>
    BY <1>3, <1>4, <2>2
  <2> QED
    BY <2>1, <2>2
<1> QED
  BY <1>6

\* A message that fits begins with the header and shows the whole or its beginning.
LEMMA FormattedIs ==
  ASSUME NEW S, NEW w \in Seq(S), w # <<>>, Stripped(w), NEW h \in Headers
  PROVE  LET F == Formatted(h, w)
             shown == SubSeq(F, h + 1, Len(F))
         IN  /\ F # <<>> /\ Len(F) <= MessageLimit /\ Strip(F) = F
             /\ \/ shown = w
                \/ /\ h + Len(w) > MessageLimit
                   /\ \E n \in 0..Len(w) :
                         shown = SubSeq(w, 1, n) \o [i \in 1..Suffix |-> "cut"]
<1> DEFINE F == Formatted(h, w)
           head == [i \in 1..h |-> "h"]
           cut == [i \in 1..Suffix |-> "cut"]
           C == S \cup {"h", "cut"}
<1>0. /\ h \in Nat \ {0} /\ Suffix \in Nat \ {0} /\ MessageLimit \in Nat
      /\ h + Suffix < MessageLimit /\ Len(w) \in Nat \ {0}
      /\ w \in Seq(C)
  BY MessageTextAssumption
<1>1. /\ head \in Seq(C) /\ Len(head) = h /\ \A i \in 1..h : head[i] = "h"
      /\ cut \in Seq(C) /\ Len(cut) = Suffix /\ \A i \in 1..Suffix : cut[i] = "cut"
  BY <1>0
<1>2. "h" \notin White /\ "cut" \notin White
  BY DEF White
<1>3. w[Len(w)] \notin White
  BY DEF Stripped
<1> HIDE DEF head, cut, C, F
<1>4. CASE h + Len(w) <= MessageLimit
  <2>1. F = head \o w
    BY <1>4 DEF F, Formatted, head
  <2>2. /\ head \o w \in Seq(C) /\ Len(head \o w) = h + Len(w)
        /\ \A i \in 1..h : (head \o w)[i] = "h"
        /\ \A i \in 1..Len(w) : (head \o w)[h + i] = w[i]
    BY <1>0, <1>1
  <2>3. /\ F \in Seq(C) /\ Len(F) = h + Len(w)
        /\ \A i \in 1..h : F[i] = "h"
        /\ \A i \in 1..Len(w) : F[h + i] = w[i]
    BY <2>1, <2>2, Zenon
  <2>4. F[1] \notin White /\ F[Len(F)] \notin White /\ F # <<>>
    <3>1. 1 \in 1..h /\ Len(w) \in 1..Len(w) /\ h + Len(w) # 0
      BY <1>0
    <3> QED
      BY <1>2, <1>3, <2>3, <3>1
  <2>5. Strip(F) = F
    BY <2>3, <2>4, StripIs DEF Stripped
  <2>6. SubSeq(F, h + 1, Len(F)) = w
    <3>1. SubSeq(F, h + 1, Len(F)) \in Seq(C) /\ Len(SubSeq(F, h + 1, Len(F))) = Len(w)
      BY <1>0, <2>3
    <3>2. ASSUME NEW i \in 1..Len(w) PROVE SubSeq(F, h + 1, Len(F))[i] = w[i]
      <4>1. SubSeq(F, h + 1, Len(F))[i] = F[h + 1 + i - 1] /\ h + 1 + i - 1 = h + i
        BY <1>0, <2>3
      <4> QED
        BY <2>3, <4>1
    <3> QED
      BY <1>0, <3>1, <3>2, SameSequence
  <2> QED
    BY <1>4, <2>3, <2>4, <2>5, <2>6 DEF F
<1>5. CASE h + Len(w) > MessageLimit
  <2> DEFINE room == MessageLimit - h - Suffix
             v == SubSeq(w, 1, room)
  <2>1. room \in 1..Len(w) /\ h + room + Suffix = MessageLimit
    BY <1>0, <1>5
  <2> HIDE DEF room
  <2>2. v \in Seq(C) /\ Len(v) = room
    BY <1>0, <2>1
  <2>3. PICK n \in 0..Len(v) : RightStrip(v) = SubSeq(v, 1, n)
    <3> HIDE DEF v
    <3> QED
      BY <2>2, RightStripIs
  <2>4. n \in 0..Len(w) /\ n \in Nat /\ n <= room
    BY <1>0, <2>1, <2>2
  <2> DEFINE u == SubSeq(w, 1, n)
  <2>5. RightStrip(v) = u
    BY <1>0, <2>1, <2>2, <2>3, <2>4
  <2>6. u \in Seq(C) /\ Len(u) = n
    BY <1>0, <2>4
  <2>7. F = head \o u \o cut
    <3>1. ~(h + Len(w) <= MessageLimit)
      BY <1>0, <1>5
    <3>2. F = head \o RightStrip(SubSeq(w, 1, MessageLimit - h - Suffix)) \o cut
      BY <3>1 DEF F, Formatted, head, cut
    <3>3. RightStrip(SubSeq(w, 1, MessageLimit - h - Suffix)) = u
      BY <2>5 DEF room
    <3> QED
      BY <3>2, <3>3
  <2> HIDE DEF u, v
  <2> DEFINE g == head \o u
  <2>8. /\ g \in Seq(C) /\ Len(g) = h + n
        /\ \A i \in 1..h : g[i] = "h"
        /\ \A i \in 1..n : g[h + i] = u[i]
    <3>0. /\ head \o u \in Seq(C) /\ Len(head \o u) = Len(head) + Len(u)
          /\ \A k \in 1..Len(head) : (head \o u)[k] = head[k]
          /\ \A k \in 1..Len(u) : (head \o u)[Len(head) + k] = u[k]
      <4>1. head \in Seq(C) /\ u \in Seq(C)
        BY <1>1, <2>6
      <4> QED
        BY ONLY <4>1, Concatenated
    <3> QED
      BY <1>1, <2>6, <3>0
  <2> HIDE DEF g
  <2>9. /\ g \o cut \in Seq(C) /\ Len(g \o cut) = h + n + Suffix
        /\ \A i \in 1..(h + n) : (g \o cut)[i] = g[i]
        /\ \A i \in 1..Suffix : (g \o cut)[h + n + i] = "cut"
    <3>0. /\ g \o cut \in Seq(C) /\ Len(g \o cut) = Len(g) + Len(cut)
          /\ \A k \in 1..Len(g) : (g \o cut)[k] = g[k]
          /\ \A k \in 1..Len(cut) : (g \o cut)[Len(g) + k] = cut[k]
      <4>1. g \in Seq(C) /\ cut \in Seq(C)
        BY <1>1, <2>8
      <4> QED
        BY ONLY <4>1, Concatenated
    <3>1. Len(g) = h + n /\ Len(cut) = Suffix
      BY <1>1, <2>8
    <3>2. \A i \in 1..Suffix : (g \o cut)[h + n + i] = cut[i] /\ cut[i] = "cut"
      <4>1. \A i \in 1..Suffix : (g \o cut)[(h + n) + i] = cut[i]
        BY ONLY <3>0, <3>1
      <4> QED
        BY <1>1, <4>1
    <3> QED
      BY ONLY <3>0, <3>1, <3>2
  <2>10. /\ F \in Seq(C) /\ Len(F) = h + n + Suffix
         /\ \A i \in 1..(h + n) : F[i] = g[i]
         /\ \A i \in 1..Suffix : F[h + n + i] = "cut"
    BY <2>7, <2>9, Zenon DEF g
  <2>11. F[1] \notin White /\ F[Len(F)] \notin White /\ F # <<>>
    <3>1. 1 \in 1..h /\ 1 \in 1..(h + n) /\ Suffix \in 1..Suffix /\ h + n + Suffix # 0
      BY <1>0, <2>4
    <3> QED
      BY <1>2, <2>8, <2>10, <3>1
  <2>12. Strip(F) = F
    BY <2>10, <2>11, StripIs DEF Stripped
  <2>13. Len(F) <= MessageLimit
    BY <1>0, <2>1, <2>4, <2>10
  <2>14. SubSeq(F, h + 1, Len(F)) = u \o cut
    <3> DEFINE x == SubSeq(F, h + 1, Len(F))
               y == u \o cut
    <3>1. x \in Seq(C) /\ Len(x) = n + Suffix
          /\ \A i \in 1..(n + Suffix) : x[i] = F[h + i]
      <4>1. x \in Seq(C) /\ Len(x) = n + Suffix
        BY <1>0, <2>4, <2>10
      <4>2. ASSUME NEW i \in 1..(n + Suffix) PROVE x[i] = F[h + i]
        <5>1. x[i] = F[h + 1 + i - 1] /\ h + 1 + i - 1 = h + i
          BY <1>0, <2>4, <2>10
        <5> QED
          BY <5>1
      <4> QED
        BY <4>1, <4>2
    <3>2. y \in Seq(C) /\ Len(y) = n + Suffix
          /\ (\A i \in 1..n : y[i] = u[i]) /\ \A i \in 1..Suffix : y[n + i] = "cut"
      <4>0. /\ u \o cut \in Seq(C) /\ Len(u \o cut) = Len(u) + Len(cut)
            /\ \A k \in 1..Len(u) : (u \o cut)[k] = u[k]
            /\ \A k \in 1..Len(cut) : (u \o cut)[Len(u) + k] = cut[k]
        <5>1. u \in Seq(C) /\ cut \in Seq(C)
          BY <1>1, <2>6
        <5> QED
          BY ONLY <5>1, Concatenated
      <4> QED
        BY <1>1, <2>6, <4>0
    <3> HIDE DEF x, y
    <3>3. ASSUME NEW i \in 1..(n + Suffix) PROVE x[i] = y[i]
      <4>1. CASE i <= n
        <5>1. i \in 1..n /\ h + i \in 1..(h + n)
          BY <1>0, <2>4, <4>1
        <5> QED
          BY <2>8, <2>10, <3>1, <3>2, <5>1
      <4>2. CASE i > n
        <5>1. i - n \in 1..Suffix /\ h + i = h + n + (i - n) /\ i = n + (i - n)
          BY <1>0, <2>4, <4>2
        <5>2. F[h + n + (i - n)] = "cut" /\ y[n + (i - n)] = "cut"
          BY <2>10, <3>2, <5>1
        <5> QED
          BY <3>1, <5>1, <5>2
      <4> QED
        BY <2>4, <4>1, <4>2
    <3>4. x = y
      BY <3>1, <3>2, <3>3, SameSequence
    <3> QED
      BY <3>4 DEF x, y
  <2> QED
    BY <1>5, <2>4, <2>11, <2>12, <2>13, <2>14 DEF F, u, cut
<1>6. h + Len(w) <= MessageLimit \/ h + Len(w) > MessageLimit
  BY <1>0
<1> QED
  BY <1>4, <1>5, <1>6

-----------------------------------------------------------------------------
(* Texts: what reaches Codex and Discord.                                   *)

\* The prompt of the row is that of its message, and Codex is given it.
JobText ==
    \/ status = "none" /\ message = <<>>
    \/ /\ status \in {"QUEUED", "DISPATCHED", "given"}
       /\ message \in Prompts /\ Strip(message) # <<>>
       /\ prompt = Normalized(Strip(message))
       /\ status = "given" => input = prompt

\* What was sent to Discord is the result of the turn as it is shown.
TurnText ==
    /\ turn \in Results \cup {<<>>}
    /\ \/ content = <<>>
       \/ /\ turn \in Results /\ header \in Headers
          /\ content = Formatted(header, Shown(turn))

TextInv == limit \in PromptLimits /\ lowered \in BOOLEAN /\ JobText /\ TurnText

\* The lemmas about texts, of those that are there.
LEMMA PromptIs ==
  ASSUME NEW m \in Prompts, Strip(m) # <<>>
  PROVE  LET e == Normalized(Strip(m))
         IN  /\ e # <<>> /\ Normalized(e) = e
             /\ "CR" \notin Range(e) /\ Cardinality(Breaks(e)) = Cardinality(Breaks(Strip(m)))
<1>1. m \in Seq(Characters)
  BY MessageTextAssumption
<1> QED
  BY <1>1, NormalizedIs

\* What is sent for a result fits a message, has no white end, and shows the result or its
\* beginning with the mark of a cut.
LEMMA SentIs ==
  ASSUME NEW r \in Results, NEW h \in Headers
  PROVE  LET F == Formatted(h, Shown(r))
             shown == SubSeq(F, h + 1, Len(F))
         IN  /\ F # <<>> /\ Len(F) <= MessageLimit /\ Strip(F) = F
             /\ \/ shown = Shown(r)
                \/ /\ h + Len(Shown(r)) > MessageLimit
                   /\ \E n \in 0..Len(Shown(r)) :
                         shown = SubSeq(Shown(r), 1, n) \o [i \in 1..Suffix |-> "cut"]
<1> DEFINE S == Characters \cup {"nothing"}
           w == Shown(r)
<1>1. r \in Seq(Characters)
  BY MessageTextAssumption
<1>2. w \in Seq(S) /\ w # <<>> /\ Stripped(w)
  BY <1>1, ShownIs
<1> HIDE DEF S, w
<1>3. LET F == Formatted(h, w)
          shown == SubSeq(F, h + 1, Len(F))
      IN  /\ F # <<>> /\ Len(F) <= MessageLimit /\ Strip(F) = F
          /\ \/ shown = w
             \/ /\ h + Len(w) > MessageLimit
                /\ \E n \in 0..Len(w) :
                      shown = SubSeq(w, 1, n) \o [i \in 1..Suffix |-> "cut"]
  BY <1>2, FormattedIs
<1> QED
  BY <1>3 DEF w

\* A step of the texts keeps it; a prompt that the row has is not refused for anything but
\* its length.
LEMMA TextInductive == TextInv /\ [TextNext]_textVars => TextInv'
<1> SUFFICES ASSUME TextInv, [TextNext]_textVars PROVE TextInv'
  OBVIOUS
<1> USE DEF TextInv
<1>1. CASE Restart
  BY <1>1 DEF Restart, JobText, TurnText, jobText, turnText
<1>2. CASE Run
  <2>1. status = "QUEUED" /\ status' \in {"DISPATCHED", "given"}
        /\ UNCHANGED <<limit, lowered, message, prompt, turnText>>
    BY <1>2 DEF Run
  <2>2. Normalized(prompt) = prompt
    BY <2>1, PromptIs DEF JobText
  <2>3. status' = "given" => input' = prompt'
    BY <1>2, <2>1, <2>2 DEF Run
  <2>4. message \in Prompts /\ Strip(message) # <<>> /\ prompt = Normalized(Strip(message))
    BY <2>1 DEF JobText
  <2>5. JobText'
    BY <2>1, <2>3, <2>4 DEF JobText
  <2> QED
    BY <2>1, <2>5 DEF TurnText, turnText
<1>3. CASE Completed
  BY <1>3 DEF Completed, JobText, TurnText, turnText
<1>4. CASE Delivered
  BY <1>4 DEF Delivered, JobText, TurnText, jobText
<1>5. ASSUME NEW m \in Prompts, Submit(m) PROVE TextInv'
  <2>1. status' = "QUEUED" /\ message' = m /\ prompt' = Normalized(Strip(m)) /\ Strip(m) # <<>>
        /\ UNCHANGED <<limit, lowered, turnText>>
    BY <1>5 DEF Submit
  <2>2. JobText'
    BY <2>1 DEF JobText
  <2> QED
    BY <2>1, <2>2 DEF TurnText, turnText
<1>6. ASSUME NEW r \in Results, NEW h \in Headers, TurnEnds(r, h) PROVE TextInv'
  BY <1>6 DEF TurnEnds, JobText, TurnText, jobText
<1>7. CASE UNCHANGED textVars
  BY <1>7 DEF textVars, JobText, TurnText, jobText, turnText
<1> QED
  BY <1>1, <1>2, <1>3, <1>4, <1>5, <1>6, <1>7 DEF TextNext

\* The texts begin in the invariant.
LEMMA TextInitially == TextInit => TextInv
BY DEF TextInit, TextInv, JobText, TurnText

\* The invariant of the texts holds always.
LEMMA TextAlways == TextSpec => []TextInv
BY TextInitially, TextInductive, PTL DEF TextSpec

\* A prompt that was stored is never empty, and what is sent to Discord never too long.
LEMMA TextTypeFollows == TextInv => TextTypeOK
<1> SUFFICES ASSUME TextInv PROVE TextTypeOK
  OBVIOUS
<1>1. status # "none" => prompt # <<>>
  BY PromptIs DEF TextInv, JobText
<1>2. Len(content) <= MessageLimit
  <2>1. CASE content = <<>>
    BY <2>1, MessageTextAssumption
  <2>2. CASE content # <<>>
    <3>1. turn \in Results /\ header \in Headers /\ content = Formatted(header, Shown(turn))
      BY <2>2 DEF TextInv, TurnText
    <3> QED
      BY <3>1, SentIs
  <2> QED
    BY <2>1, <2>2
<1> QED
  BY <1>1, <1>2 DEF TextInv, JobText, TurnText, TextTypeOK

\* Every text has its type: stored prompts are not empty, and nothing longer than Discord
\* takes is sent (normalize_prompt, send_text).
THEOREM TextTypeIsInvariant == TextSpec => []TextTypeOK
BY TextAlways, TextTypeFollows, PTL

\* The second normalisation of a prompt, in the runner, changes nothing: Codex is given what
\* the row of the job says.
THEOREM CodexIsGivenTheRow == TextSpec => []StoredIsGiven
<1>1. TextInv => StoredIsGiven
  BY DEF TextInv, JobText, StoredIsGiven
<1> QED
  BY <1>1, TextAlways, PTL

\* The lines are kept: what Codex is given is the normalised message.
LEMMA LinesKeptFollows == TextInv => LinesKept
BY PromptIs DEF TextInv, JobText, LinesKept

\* Every line end of a message, whatever system it was written on, is one "\n" of what Codex
\* is given, and no other is (normalize_prompt).
THEOREM CodexSeesTheLines == TextSpec => []LinesKept
BY LinesKeptFollows, TextAlways, PTL

\* The completion fits: it is the formatted text of the last result.
LEMMA CompletionFollows == TextInv => CompletionFits
<1> SUFFICES ASSUME TextInv, content # <<>> PROVE CompletionFits
  BY DEF CompletionFits
<1>1. turn \in Results /\ header \in Headers /\ content = Formatted(header, Shown(turn))
  BY DEF TextInv, TurnText
<1> QED
  BY <1>1, SentIs DEF CompletionFits

\* A completion always fits a Discord message, survives send_text as it is, and is the
\* result, or its beginning with the mark of a cut.
THEOREM CompletionsFit == TextSpec => []CompletionFits
BY CompletionFollows, TextAlways, PTL

-----------------------------------------------------------------------------
(* Texts: when a prompt that was taken is refused.                          *)

\* A queued prompt is one the runner takes too, while the limit is not lowered.
TakenInv ==
    /\ TakenIsTaken
    /\ status = "QUEUED" /\ ~lowered => Accepted(Strip(message))

\* Every step keeps it.
LEMMA TakenInductive == TextInv /\ TakenInv /\ [TextNext]_textVars => TakenInv'
<1> SUFFICES ASSUME TextInv, TakenInv, [TextNext]_textVars
             PROVE  TakenInv'
  OBVIOUS
<1> USE DEF TakenInv, TakenIsTaken
<1>0. limit \in PromptLimits /\ PromptLimits \subseteq Nat
  BY MessageTextAssumption DEF TextInv
<1>1. CASE Restart
  <2>1. /\ status' = status /\ message' = message /\ limit' \in PromptLimits
        /\ ~lowered' => ~lowered /\ ~(status = "QUEUED" /\ limit' < limit)
    BY <1>1 DEF Restart, jobText
  <2>2. ASSUME status = "QUEUED", ~lowered' PROVE Accepted(Strip(message))'
    <3>1. Normalized(Strip(message)) # <<>> /\ "NUL" \notin Range(Normalized(Strip(message)))
          /\ Len(Normalized(Strip(message))) <= limit
      BY <2>1, <2>2 DEF Accepted
    <3>2. Len(Normalized(Strip(message))) \in Int
      <4>1. message \in Seq(Characters) /\ Strip(message) # <<>>
        BY <2>2, MessageTextAssumption DEF TextInv, JobText
      <4>2. Normalized(Strip(message)) \in Seq(Characters)
        BY <4>1, NormalizedIs
      <4> QED
        BY <4>2
    <3>3. Len(Normalized(Strip(message))) <= limit'
      BY <1>0, <2>1, <2>2, <3>1, <3>2
    <3> QED
      BY <2>1, <3>1, <3>3 DEF Accepted
  <2> QED
    BY <1>1, <2>1, <2>2
<1>2. CASE Run
  <2>1. status = "QUEUED" /\ UNCHANGED <<lowered, message>>
        /\ status' = (IF Accepted(prompt) THEN "given" ELSE "DISPATCHED")
    BY <1>2 DEF Run
  <2>2. prompt = Normalized(Strip(message)) /\ Normalized(prompt) = prompt
    BY <2>1, PromptIs DEF TextInv, JobText
  <2>3. ~lowered => Accepted(prompt)
    BY <2>1, <2>2 DEF Accepted
  <2> QED
    BY <2>1, <2>3
<1>3. CASE Completed
  BY <1>3 DEF Completed
<1>4. CASE Delivered
  BY <1>4 DEF Delivered, jobText, Accepted
<1>5. ASSUME NEW m \in Prompts, Submit(m) PROVE TakenInv'
  BY <1>5 DEF Submit, Accepted
<1>6. ASSUME NEW r \in Results, NEW h \in Headers, TurnEnds(r, h) PROVE TakenInv'
  BY <1>6 DEF TurnEnds, Nothing, jobText, Accepted
<1>7. CASE UNCHANGED textVars
  BY <1>7 DEF textVars, jobText, Accepted
<1> QED
  BY <1>1, <1>2, <1>3, <1>4, <1>5, <1>6, <1>7 DEF TextNext

\* A prompt that was taken is refused by the runner only when a start of the service brought
\* a lower limit while it was queued (normalize_prompt in JobManager.handle_message and in
\* the runners).
THEOREM TakenUnlessLowered == TextSpec => []TakenIsTaken
<1>1. TextInit => TakenInv
  BY DEF TextInit, TakenInv, TakenIsTaken
<1>2. TakenInv => TakenIsTaken
  BY DEF TakenInv
<1> QED
  BY <1>1, <1>2, TextAlways, TakenInductive, PTL DEF TextSpec

-----------------------------------------------------------------------------
(* The reader of a process's output (_read_bounded).                        *)

\* What is kept is the beginning of what was written, byte by byte.
KeptInv == /\ ReaderTypeOK
           /\ Len(captured) = IF OutputMax <= Len(stream) THEN OutputMax ELSE Len(stream)
           /\ \A i \in 1..Len(captured) : captured[i] = stream[i]
           /\ truncated <=> Len(stream) > OutputMax

\* The smaller and the larger of two numbers.
LEMMA MinMaxOfTwo ==
  ASSUME NEW a \in Int, NEW b \in Int
  PROVE  /\ Min({a, b}) = IF a <= b THEN a ELSE b
         /\ Max({a, b}) = IF a <= b THEN b ELSE a
  <1>1. \E x \in {a, b} : \A y \in {a, b} : x <= y
    BY DEF Min
  <1>2. \E x \in {a, b} : \A y \in {a, b} : x >= y
    BY DEF Max
  <1>3. /\ Min({a, b}) \in {a, b} /\ \A y \in {a, b} : Min({a, b}) <= y
        /\ Max({a, b}) \in {a, b} /\ \A y \in {a, b} : Max({a, b}) >= y
    BY <1>1, <1>2 DEF Min, Max
  <1> QED BY <1>3

\* The items of a beginning.
LEMMA Beginning ==
  ASSUME NEW S, NEW s \in Seq(S), NEW n \in 0..Len(s)
  PROVE  /\ SubSeq(s, 1, n) \in Seq(S) /\ Len(SubSeq(s, 1, n)) = n
         /\ \A i \in 1..n : SubSeq(s, 1, n)[i] = s[i]
  OBVIOUS

\* A chunk keeps the beginning of the stream within the bound, and marks the rest as cut.
LEMMA ReadKeeps ==
  ASSUME KeptInv, NEW c \in Chunks, Read(c)
  PROVE  KeptInv'
  <1>0. OutputMax \in Nat /\ stream \in Seq(Byte) /\ captured \in Seq(Byte)
    BY ReaderAssumption DEF KeptInv, ReaderTypeOK
  <1>1. c \in Seq(Byte) /\ Len(c) \in Nat \ {0}
    BY ReaderAssumption DEF Chunks
  <1>2. /\ stream' = stream \o c
        /\ stream' \in Seq(Byte) /\ Len(stream') = Len(stream) + Len(c)
        /\ \A i \in 1..Len(stream) : stream'[i] = stream[i]
        /\ \A i \in 1..Len(c) : stream'[Len(stream) + i] = c[i]
    BY <1>0, <1>1, Concatenated DEF Read
  <1>3. Len(stream) \in Nat /\ Len(captured) \in Nat /\ Remaining = OutputMax - Len(captured)
    BY <1>0 DEF Remaining
  <1>4. CASE Remaining > 0
    <2> DEFINE n == IF Remaining <= Len(c) THEN Remaining ELSE Len(c)
               b == SubSeq(c, 1, n)
    <2>0. Remaining \in Int /\ Len(c) \in Int /\ 0 \in Int
      BY <1>0, <1>1, <1>3
    <2>1. n \in 0..Len(c) /\ Min({Remaining, Len(c)}) = n /\ Max({Remaining, 0}) = Remaining
      <3>1. n \in 0..Len(c)
        BY <1>1, <1>4, <2>0
      <3>2. Min({Remaining, Len(c)}) = n
        BY <2>0, MinMaxOfTwo
      <3>3. Max({Remaining, 0}) = IF Remaining <= 0 THEN 0 ELSE Remaining
        BY <2>0, MinMaxOfTwo
      <3> QED BY <1>4, <2>0, <3>1, <3>2, <3>3
    <2>2. b \in Seq(Byte) /\ Len(b) = n /\ \A i \in 1..n : b[i] = c[i]
      BY <1>1, <2>1, Beginning
    <2>3. captured' = captured \o b
      BY <1>4, <2>1 DEF Read, Keep
    <2>4. Len(captured) = Len(stream)
      BY <1>0, <1>3, <1>4 DEF KeptInv
    <2> HIDE DEF b
    <2>10. /\ captured \o b \in Seq(Byte) /\ Len(captured \o b) = Len(captured) + Len(b)
           /\ \A i \in 1..Len(captured) : (captured \o b)[i] = captured[i]
           /\ \A i \in 1..Len(b) : (captured \o b)[Len(captured) + i] = b[i]
      <3> HIDE DEF n
      <3>1. captured \in Seq(Byte) /\ b \in Seq(Byte)
        BY <1>0, <2>2
      <3> QED BY ONLY <3>1, Concatenated
    <2>5. /\ captured' \in Seq(Byte) /\ Len(captured') = Len(captured) + n
          /\ \A i \in 1..Len(captured) : captured'[i] = captured[i]
          /\ \A i \in 1..n : captured'[Len(captured) + i] = b[i]
      BY <2>2, <2>3, <2>10
    <2>6. Len(captured') = IF OutputMax <= Len(stream') THEN OutputMax ELSE Len(stream')
      BY <1>0, <1>1, <1>2, <1>3, <1>4, <2>4, <2>5
    <2>7. ASSUME NEW i \in 1..Len(captured') PROVE captured'[i] = stream'[i]
      <3>1. CASE i <= Len(captured)
        BY <1>2, <1>3, <2>4, <2>5, <3>1 DEF KeptInv
      <3>2. CASE i > Len(captured)
        <4>1. i - Len(captured) \in 1..n /\ i = Len(captured) + (i - Len(captured))
          BY <1>3, <2>1, <2>5, <3>2
        <4>2. captured'[i] = b[i - Len(captured)] /\ b[i - Len(captured)] = c[i - Len(captured)]
          BY <2>2, <2>5, <4>1
        <4>3. i - Len(captured) \in 1..Len(c)
          BY <1>1, <2>1, <4>1
        <4> QED BY <1>2, <2>4, <4>1, <4>2, <4>3
      <3> QED BY <1>3, <3>1, <3>2
    <2>8. truncated' <=> Len(stream') > OutputMax
      <3>1. truncated' <=> truncated \/ Len(c) > Remaining
        <4>1. Overflows(c) <=> Len(c) > Remaining
          BY <1>4, <2>0, <2>1 DEF Overflows
        <4>2. truncated' = (truncated \/ Overflows(c))
          BY DEF Read
        <4> HIDE DEF n
        <4> QED BY <4>1, <4>2, Zenon
      <3> QED BY <1>0, <1>1, <1>2, <1>3, <1>4, <2>4, <3>1 DEF KeptInv
    <2>9. ReaderTypeOK'
      BY <1>2, <2>5 DEF KeptInv, ReaderTypeOK, Read
    <2> QED BY <2>6, <2>7, <2>8, <2>9 DEF KeptInv
  <1>5. CASE Remaining <= 0
    <2>1. captured' = captured /\ truncated' = TRUE
      <3>1. ~(Remaining > 0) /\ Overflows(c)
        BY <1>0, <1>3, <1>5 DEF Overflows
      <3>2. captured' = captured
        BY <3>1 DEF Read, Keep
      <3>3. truncated' = (truncated \/ Overflows(c))
        BY DEF Read
      <3> QED BY <3>1, <3>2, <3>3, Zenon
    <2>2. Len(captured) = OutputMax /\ OutputMax <= Len(stream)
      BY <1>0, <1>3, <1>5 DEF KeptInv
    <2>3. \A i \in 1..Len(captured) : captured[i] = stream'[i]
      BY <1>2, <1>3, <2>2 DEF KeptInv
    <2>4. ReaderTypeOK'
      BY <1>2, <2>1 DEF KeptInv, ReaderTypeOK, Read
    <2> QED BY <1>0, <1>1, <1>2, <1>3, <2>1, <2>2, <2>3, <2>4 DEF KeptInv
  <1> QED BY <1>3, <1>4, <1>5, <1>0

\* The reader always holds the beginning of the stream within its bound.
LEMMA ReaderInductive == ReaderSpec => []KeptInv
  <1>1. ReaderInit => KeptInv
    <2> SUFFICES ASSUME ReaderInit PROVE KeptInv
      OBVIOUS
    <2>1. stream \in Seq(Byte) /\ captured \in Seq(Byte) /\ Len(stream) = 0 /\ Len(captured) = 0
      BY DEF ReaderInit
    <2>2. ReaderTypeOK
      BY <2>1 DEF ReaderInit, ReaderTypeOK
    <2>3. OutputMax \in Nat /\ ~(Len(stream) > OutputMax)
      BY <2>1, ReaderAssumption
    <2>4. truncated = FALSE
      BY DEF ReaderInit
    <2>5. truncated <=> Len(stream) > OutputMax
      BY <2>3, <2>4
    <2> QED BY <2>1, <2>2, <2>3, <2>5 DEF KeptInv
  <1>2. KeptInv /\ [ReaderNext]_readerVars => KeptInv'
    <2> SUFFICES ASSUME KeptInv, [ReaderNext]_readerVars PROVE KeptInv'
      OBVIOUS
    <2>1. CASE UNCHANGED <<stream, captured, truncated>> /\ done' \in BOOLEAN
      BY <2>1 DEF KeptInv, ReaderTypeOK
    <2>2. CASE EndOfStream \/ UNCHANGED readerVars
      BY <2>1, <2>2 DEF EndOfStream, readerVars, KeptInv, ReaderTypeOK
    <2> QED BY <2>2, ReadKeeps DEF ReaderNext, Finished
  <1> QED BY <1>1, <1>2, PTL DEF ReaderSpec

\* _read_bounded (managed_runner.py): for every limit, chunk size and cut of the output into
\* chunks, what is kept is the beginning of the output, and all of it unless "truncated".
THEOREM OutputIsBounded == ReaderSpec => [](KeepsTheBeginning /\ TruncatedIffCut)
  <1>1. KeptInv => KeepsTheBeginning /\ TruncatedIffCut
    <2> SUFFICES ASSUME KeptInv PROVE KeepsTheBeginning
      BY DEF KeptInv, TruncatedIffCut
    <2> DEFINE n == IF OutputMax <= Len(stream) THEN OutputMax ELSE Len(stream)
    <2>1. OutputMax \in Nat /\ stream \in Seq(Byte) /\ captured \in Seq(Byte) /\ Len(stream) \in Nat
      BY ReaderAssumption DEF KeptInv, ReaderTypeOK
    <2>2. n \in 0..Len(stream) /\ Min({OutputMax, Len(stream)}) = n /\ Len(captured) = n
      BY <2>1, MinMaxOfTwo DEF KeptInv
    <2> HIDE DEF n
    <2>3. SubSeq(stream, 1, n) \in Seq(Byte) /\ Len(SubSeq(stream, 1, n)) = n
          /\ \A i \in 1..n : SubSeq(stream, 1, n)[i] = stream[i]
      BY <2>1, <2>2, Beginning
    <2>4. \A i \in 1..n : captured[i] = SubSeq(stream, 1, n)[i]
      BY <2>2, <2>3 DEF KeptInv
    <2>5. captured = SubSeq(stream, 1, n)
      BY <2>1, <2>2, <2>3, <2>4
    <2> QED BY <2>2, <2>5 DEF KeepsTheBeginning
  <1> QED BY <1>1, ReaderInductive, PTL

=============================================================================
