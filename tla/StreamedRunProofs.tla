------------------------- MODULE StreamedRunProofs --------------------------
(***************************************************************************)
(* The path of a streamed run's text, from the lines of a model's reply to *)
(* the message a reader sees: the reader, the hidden thoughts, the queue   *)
(* between the run and the pipe, and the message with its blocks.          *)
(* StreamInv relates the four.                                             *)
(*                                                                         *)
(* What a sequence of chunks folds to is shown by induction on its length. *)
(* A scheme with a predicate as a parameter cannot be instantiated here,   *)
(* so each induction is over a set: the lengths for which the fact holds,  *)
(* which SetInduction shows to be all of Nat.                              *)
(***************************************************************************)
EXTENDS StreamedRun, FiniteSetTheorems, WellFoundedInduction, TLAPS

-----------------------------------------------------------------------------
(* Induction over the naturals, for sets *)

LEMMA LeastNat ==
  ASSUME NEW T, T \subseteq Nat, T # {}
  PROVE  \E m \in T : \A k \in T : m <= k
<1> DEFINE R == {ss \in Nat \X Nat : ss[1] < ss[2]}
<1>1. IsWellFoundedOn(OpToRel(<, Nat), Nat)
  BY NatLessThanWellFounded, Zenon
<1>2. OpToRel(<, Nat) = R
  BY Zenon DEF OpToRel
<1>3. IsWellFoundedOn(R, Nat)
  BY <1>1, <1>2, Zenon
<1>4. \A x, y \in Nat : y < x => <<y, x>> \in R
  OBVIOUS
<1> HIDE DEF R
<1>5. PICK x \in T : \A y \in T : ~ (<<y, x>> \in R)
  BY <1>3, WFMin
<1>6. \A y \in T : ~ (y < x)
  BY <1>4, <1>5, Zenon
<1>7. \A y \in T : x <= y
  BY <1>6
<1> QED BY <1>7

LEMMA SetInduction ==
  ASSUME NEW S, 0 \in S, \A n \in Nat : n \in S => n + 1 \in S
  PROVE  Nat \subseteq S
<1> SUFFICES ASSUME Nat \ S # {} PROVE FALSE
  OBVIOUS
<1>1. PICK m \in Nat \ S : \A k \in Nat \ S : m <= k
  BY LeastNat
<1>2. m # 0 /\ m - 1 \in Nat /\ m - 1 \in S /\ (m - 1) + 1 = m
  BY <1>1
<1> QED BY <1>2

-----------------------------------------------------------------------------
(* Select *)

\* f collects what the first n elements of s have at the positions in I.
Selecting(f, s, I, n) ==
  f = [i \in 0..n |-> IF i = 0 THEN <<>> ELSE IF i \in I THEN Append(f[i - 1], s[i]) ELSE f[i - 1]]

LEMMA SelectingExists ==
  ASSUME NEW s, NEW I, NEW n \in Nat
  PROVE  \E f : Selecting(f, s, I, n)
<1> DEFINE S == {k \in Nat : \E f : Selecting(f, s, I, k)}
<1>1. 0 \in S
  <2>1. Selecting([i \in 0..0 |-> <<>>], s, I, 0)
    BY DEF Selecting
  <2> QED BY <2>1
<1>2. ASSUME NEW k \in Nat, k \in S PROVE k + 1 \in S
  <2>1. PICK f : Selecting(f, s, I, k)
    BY <1>2
  <2> DEFINE g == [i \in 0..(k + 1) |-> IF i <= k THEN f[i]
                                        ELSE IF k + 1 \in I THEN Append(f[k], s[k + 1]) ELSE f[k]]
  <2>2. Selecting(g, s, I, k + 1)
    <3>0. \A i \in 0..k : f[i] = IF i = 0 THEN <<>> ELSE IF i \in I THEN Append(f[i - 1], s[i]) ELSE f[i - 1]
      BY <2>1 DEF Selecting
    <3>1. ASSUME NEW i \in 0..(k + 1)
          PROVE  g[i] = IF i = 0 THEN <<>> ELSE IF i \in I THEN Append(g[i - 1], s[i]) ELSE g[i - 1]
      <4>1. CASE i = 0
        BY <3>0, <4>1
      <4>2. CASE i # 0 /\ i <= k
        BY <3>0, <4>2
      <4>3. CASE i = k + 1
        BY <3>0, <4>3
      <4> QED BY <4>1, <4>2, <4>3
    <3> HIDE DEF g
    <3>2. g = [i \in 0..(k + 1) |-> g[i]]
      BY DEF g
    <3> QED BY <3>1, <3>2 DEF Selecting
  <2> QED BY <2>2
<1> HIDE DEF S
<1>3. n \in S
  BY <1>1, <1>2, SetInduction
<1> QED BY <1>3 DEF S

LEMMA SelectIs ==
  ASSUME NEW s, NEW I, Len(s) \in Nat
  PROVE  \E f : Selecting(f, s, I, Len(s)) /\ Select(s, I) = f[Len(s)]
<1> DEFINE f == CHOOSE g : Selecting(g, s, I, Len(s))
<1>1. Selecting(f, s, I, Len(s))
  BY SelectingExists
<1>2. Select(s, I) = f[Len(s)]
  BY Zenon DEF Select, Selecting
<1> QED BY <1>1, <1>2

LEMMA SelectingAgree ==
  ASSUME NEW s, NEW t, NEW I, NEW J, NEW m \in Nat, NEW n \in Nat, NEW f, NEW g,
         Selecting(f, s, I, m), Selecting(g, t, J, n),
         NEW k \in Nat, k <= m, k <= n, \A i \in 1..k : s[i] = t[i] /\ (i \in I <=> i \in J)
  PROVE  f[k] = g[k]
<1> DEFINE S == {i \in Nat : i <= k => f[i] = g[i]}
<1>0. /\ \A i \in 0..m : f[i] = IF i = 0 THEN <<>> ELSE IF i \in I THEN Append(f[i - 1], s[i]) ELSE f[i - 1]
      /\ \A i \in 0..n : g[i] = IF i = 0 THEN <<>> ELSE IF i \in J THEN Append(g[i - 1], t[i]) ELSE g[i - 1]
  BY DEF Selecting
<1>1. 0 \in S
  BY <1>0
<1>2. ASSUME NEW i \in Nat, i \in S PROVE i + 1 \in S
  <2> SUFFICES ASSUME i + 1 <= k PROVE f[i + 1] = g[i + 1]
    OBVIOUS
  <2>1. f[i] = g[i] /\ i + 1 \in 1..k /\ i + 1 \in 0..m /\ i + 1 \in 0..n /\ (i + 1) - 1 = i /\ i + 1 # 0
    BY <1>2
  <2> QED BY <1>0, <2>1
<1> HIDE DEF S
<1>3. k \in S
  BY <1>1, <1>2, SetInduction
<1> QED BY <1>3 DEF S

LEMMA SelectEmpty == \A I : Select(<<>>, I) = <<>>
<1> SUFFICES ASSUME NEW I PROVE Select(<<>>, I) = <<>>
  OBVIOUS
<1>1. PICK f : Selecting(f, <<>>, I, Len(<<>>)) /\ Select(<<>>, I) = f[Len(<<>>)]
  BY SelectIs
<1> QED BY <1>1 DEF Selecting

LEMMA SelectAppend ==
  ASSUME NEW S, NEW s \in Seq(S), NEW e \in S, NEW I, NEW J, \A i \in 1..Len(s) : i \in I <=> i \in J
  PROVE  Select(Append(s, e), J) = IF Len(s) + 1 \in J THEN Append(Select(s, I), e) ELSE Select(s, I)
<1> DEFINE n == Len(s)
           t == Append(s, e)
<1>0. n \in Nat /\ Len(t) = n + 1 /\ t[n + 1] = e /\ \A i \in 1..n : t[i] = s[i]
  OBVIOUS
<1>1. PICK f : Selecting(f, s, I, n) /\ Select(s, I) = f[n]
  BY SelectIs
<1> HIDE DEF n, t
<1>2. PICK g : Selecting(g, t, J, n + 1) /\ Select(t, J) = g[n + 1]
  BY <1>0, SelectIs
<1>3. f[n] = g[n]
  <2>1. n + 1 \in Nat /\ n <= n /\ n <= n + 1
    BY <1>0
  <2>2. \A i \in 1..n : s[i] = t[i] /\ (i \in I <=> i \in J)
    BY <1>0 DEF n
  <2> QED BY <1>0, <1>1, <1>2, <2>1, <2>2, SelectingAgree
<1>4. g[n + 1] = IF n + 1 \in J THEN Append(g[n], e) ELSE g[n]
  <2>1. n + 1 \in 0..(n + 1) /\ n + 1 # 0 /\ (n + 1) - 1 = n
    BY <1>0
  <2>2. g[n + 1] = IF n + 1 \in J THEN Append(g[(n + 1) - 1], t[n + 1]) ELSE g[(n + 1) - 1]
    BY <1>2, <2>1 DEF Selecting
  <2> QED BY <1>0, <2>1, <2>2
<1> QED BY <1>1, <1>2, <1>3, <1>4 DEF n, t

LEMMA SelectType ==
  ASSUME NEW S, NEW s \in Seq(S), NEW I
  PROVE  Select(s, I) \in Seq(S)
<1> DEFINE n == Len(s)
<1>1. PICK f : Selecting(f, s, I, n) /\ Select(s, I) = f[n]
  BY SelectIs
<1>2. \A i \in 0..n : f[i] = IF i = 0 THEN <<>> ELSE IF i \in I THEN Append(f[i - 1], s[i]) ELSE f[i - 1]
  BY <1>1 DEF Selecting
<1> DEFINE K == {k \in Nat : k <= n => f[k] \in Seq(S)}
<1>3. 0 \in K
  <2>1. f[0] = <<>>
    BY <1>2
  <2>2. <<>> \in Seq(S) /\ 0 \in Nat
    OBVIOUS
  <2> QED BY <2>1, <2>2, Zenon
<1>4. ASSUME NEW k \in Nat, k \in K PROVE k + 1 \in K
  <2> SUFFICES ASSUME k + 1 <= n PROVE f[k + 1] \in Seq(S)
    OBVIOUS
  <2>1. f[k] \in Seq(S) /\ k + 1 \in 0..n /\ k + 1 # 0 /\ (k + 1) - 1 = k /\ s[k + 1] \in S
    BY <1>4
  <2>2. f[k + 1] = IF k + 1 \in I THEN Append(f[k], s[k + 1]) ELSE f[k]
    BY <1>2, <2>1
  <2> QED BY <2>1, <2>2
<1> HIDE DEF K
<1>5. n \in K
  BY <1>3, <1>4, SetInduction
<1> QED BY <1>1, <1>5 DEF K

LEMMA SelectAll ==
  ASSUME NEW S, NEW s \in Seq(S), NEW I, \A i \in 1..Len(s) : i \in I
  PROVE  Select(s, I) = s
<1> DEFINE n == Len(s)
<1>1. PICK f : Selecting(f, s, I, n) /\ Select(s, I) = f[n]
  BY SelectIs
<1>2. \A i \in 0..n : f[i] = IF i = 0 THEN <<>> ELSE IF i \in I THEN Append(f[i - 1], s[i]) ELSE f[i - 1]
  BY <1>1 DEF Selecting
<1> DEFINE K == {k \in Nat : k <= n => f[k] = SubSeq(s, 1, k)}
<1>3. 0 \in K
  <2>1. f[0] = <<>>
    BY <1>2
  <2>2. SubSeq(s, 1, 0) = <<>> /\ 0 \in Nat
    OBVIOUS
  <2> QED BY <2>1, <2>2, Zenon
<1>4. ASSUME NEW k \in Nat, k \in K PROVE k + 1 \in K
  <2> SUFFICES ASSUME k + 1 <= n PROVE f[k + 1] = SubSeq(s, 1, k + 1)
    OBVIOUS
  <2>1. f[k] = SubSeq(s, 1, k) /\ k + 1 \in 0..n /\ k + 1 # 0 /\ (k + 1) - 1 = k /\ k + 1 \in I
    BY <1>4
  <2>2. f[k + 1] = Append(f[k], s[k + 1])
    BY <1>2, <2>1
  <2>3. Append(SubSeq(s, 1, k), s[k + 1]) = SubSeq(s, 1, k + 1)
    OBVIOUS
  <2> QED BY <2>1, <2>2, <2>3
<1> HIDE DEF K
<1>5. n \in K
  BY <1>3, <1>4, SetInduction
<1>6. SubSeq(s, 1, n) = s
  OBVIOUS
<1> QED BY <1>1, <1>5, <1>6 DEF K

\* What is not selected may as well be cut off the front.
LEMMA SelectSuffix ==
  ASSUME NEW S, NEW s \in Seq(S), NEW I, NEW J, NEW p \in 1..(Len(s) + 1),
         \A i \in 1..(p - 1) : i \notin I,
         \A i \in 1..(Len(s) - p + 1) : i \in J <=> p - 1 + i \in I
  PROVE  Select(SubSeq(s, p, Len(s)), J) = Select(s, I)
<1> DEFINE n == Len(s)
           t == SubSeq(s, p, n)
           m == n - p + 1
<1>0. /\ n \in Nat /\ m \in Nat /\ Len(t) = m /\ p - 1 \in Nat /\ p - 1 <= n
      /\ \A i \in 1..m : t[i] = s[p - 1 + i]
  OBVIOUS
<1>1. PICK f : Selecting(f, s, I, n) /\ Select(s, I) = f[n]
  BY SelectIs
<1> HIDE DEF n, t, m
<1>2. PICK g : Selecting(g, t, J, m) /\ Select(t, J) = g[m]
  BY <1>0, SelectIs
<1>3. \A i \in 0..n : f[i] = IF i = 0 THEN <<>> ELSE IF i \in I THEN Append(f[i - 1], s[i]) ELSE f[i - 1]
  BY <1>1 DEF Selecting
<1>4. \A i \in 0..m : g[i] = IF i = 0 THEN <<>> ELSE IF i \in J THEN Append(g[i - 1], t[i]) ELSE g[i - 1]
  BY <1>2 DEF Selecting
<1>5. f[p - 1] = <<>>
  <2> DEFINE K == {k \in Nat : k <= p - 1 => f[k] = <<>>}
  <2>1. 0 \in K
    BY <1>0, <1>3
  <2>2. ASSUME NEW k \in Nat, k \in K PROVE k + 1 \in K
    <3> SUFFICES ASSUME k + 1 <= p - 1 PROVE f[k + 1] = <<>>
      OBVIOUS
    <3>1. f[k] = <<>> /\ k + 1 \in 0..n /\ k + 1 # 0 /\ (k + 1) - 1 = k /\ k + 1 \notin I
      BY <1>0, <2>2
    <3> QED BY <1>3, <3>1
  <2> HIDE DEF K
  <2>3. p - 1 \in K
    BY <1>0, <2>1, <2>2, SetInduction
  <2> QED BY <2>3 DEF K
<1>6. g[m] = f[n]
  <2> DEFINE K == {k \in Nat : k <= m => g[k] = f[p - 1 + k]}
  <2>1. 0 \in K
    BY <1>0, <1>4, <1>5
  <2>2. ASSUME NEW k \in Nat, k \in K PROVE k + 1 \in K
    <3> SUFFICES ASSUME k + 1 <= m PROVE g[k + 1] = f[p - 1 + (k + 1)]
      OBVIOUS
    <3> DEFINE q == p - 1 + (k + 1)
    <3>1. /\ g[k] = f[p - 1 + k] /\ k + 1 \in 0..m /\ k + 1 # 0 /\ (k + 1) - 1 = k
          /\ q \in 0..n /\ q # 0 /\ q - 1 = p - 1 + k /\ t[k + 1] = s[q]
      BY <1>0, <2>2 DEF m
    <3>2. k + 1 \in J <=> q \in I
      BY <3>1 DEF m, n
    <3> HIDE DEF q
    <3>3. g[k + 1] = IF k + 1 \in J THEN Append(g[k], t[k + 1]) ELSE g[k]
      BY <1>4, <3>1
    <3>4. f[q] = IF q \in I THEN Append(f[q - 1], s[q]) ELSE f[q - 1]
      BY <1>3, <3>1
    <3>5. f[q] = g[k + 1]
      BY <3>1, <3>2, <3>3, <3>4
    <3> QED BY <3>5 DEF q
  <2> HIDE DEF K
  <2>3. m \in K
    BY <1>0, <2>1, <2>2, SetInduction
  <2>4. p - 1 + m = n
    BY <1>0 DEF m
  <2> QED BY <1>0, <2>3, <2>4 DEF K
<1> QED BY <1>1, <1>2, <1>6 DEF t, n

-----------------------------------------------------------------------------
(* FlattenSeq *)

Flattening(f, ss, n) == f = [i \in 1..n |-> IF i = 1 THEN ss[i] ELSE f[i - 1] \o ss[i]]

LEMMA FlatteningExists ==
  ASSUME NEW ss, NEW n \in Nat
  PROVE  \E f : Flattening(f, ss, n)
<1> DEFINE S == {k \in Nat : \E f : Flattening(f, ss, k)}
<1>1. 0 \in S
  <2>1. Flattening([i \in 1..0 |-> <<>>], ss, 0)
    BY DEF Flattening
  <2> QED BY <2>1
<1>2. ASSUME NEW k \in Nat, k \in S PROVE k + 1 \in S
  <2>1. PICK f : Flattening(f, ss, k)
    BY <1>2
  <2> DEFINE g == [i \in 1..(k + 1) |-> IF i <= k THEN f[i]
                                        ELSE IF k + 1 = 1 THEN ss[1] ELSE f[k] \o ss[k + 1]]
  <2>2. Flattening(g, ss, k + 1)
    <3>0. \A i \in 1..k : f[i] = IF i = 1 THEN ss[i] ELSE f[i - 1] \o ss[i]
      BY <2>1 DEF Flattening
    <3>1. ASSUME NEW i \in 1..(k + 1)
          PROVE  g[i] = IF i = 1 THEN ss[i] ELSE g[i - 1] \o ss[i]
      <4>1. CASE i = 1
        BY <3>0, <4>1
      <4>2. CASE i # 1 /\ i <= k
        <5>1. g[i] = f[i] /\ g[i - 1] = f[i - 1] /\ i \in 1..k
          BY <4>2
        <5> QED BY <3>0, <4>2, <5>1, Zenon
      <4>3. CASE i # 1 /\ i = k + 1
        <5>0. ~ (k + 1 <= k) /\ k + 1 # 1 /\ k + 1 \in 1..(k + 1)
          BY <4>3
        <5>1. g[k + 1] = f[k] \o ss[k + 1]
          BY <5>0, Zenon
        <5>2. g[i - 1] = f[k]
          BY <4>3
        <5> QED BY <4>3, <5>1, <5>2, Zenon
      <4> QED BY <4>1, <4>2, <4>3
    <3> HIDE DEF g
    <3>2. g = [i \in 1..(k + 1) |-> g[i]]
      BY DEF g
    <3> QED BY <3>1, <3>2 DEF Flattening
  <2> QED BY <2>2
<1> HIDE DEF S
<1>3. n \in S
  BY <1>1, <1>2, SetInduction
<1> QED BY <1>3 DEF S

LEMMA FlattenIs ==
  ASSUME NEW ss, Len(ss) \in Nat \ {0}
  PROVE  \E f : Flattening(f, ss, Len(ss)) /\ FlattenSeq(ss) = f[Len(ss)]
<1> DEFINE f == CHOOSE g : Flattening(g, ss, Len(ss))
<1>0. Len(ss) # 0
  OBVIOUS
<1>1. Flattening(f, ss, Len(ss))
  BY FlatteningExists
<1>2. FlattenSeq(ss) = f[Len(ss)]
  BY <1>0, Zenon DEF FlattenSeq, Flattening
<1> QED BY <1>1, <1>2

LEMMA FlattenEmpty == FlattenSeq(<<>>) = <<>>
BY DEF FlattenSeq

LEMMA FlattenAppend ==
  ASSUME NEW T, NEW ss \in Seq(Seq(T)), NEW t \in Seq(T)
  PROVE  FlattenSeq(Append(ss, t)) = FlattenSeq(ss) \o t
<1> DEFINE n == Len(ss)
           tt == Append(ss, t)
<1>0. n \in Nat /\ Len(tt) = n + 1 /\ tt[n + 1] = t /\ \A i \in 1..n : tt[i] = ss[i]
  OBVIOUS
<1> HIDE DEF n, tt
<1>1. PICK g : Flattening(g, tt, n + 1) /\ FlattenSeq(tt) = g[n + 1]
  BY <1>0, FlattenIs
<1>2. \A i \in 1..(n + 1) : g[i] = IF i = 1 THEN tt[i] ELSE g[i - 1] \o tt[i]
  BY <1>1 DEF Flattening
<1>3. CASE n = 0
  <2>1. g[1] = t /\ ss = <<>>
    BY <1>0, <1>2, <1>3 DEF n
  <2>2. <<>> \o t = t
    OBVIOUS
  <2> QED BY <1>1, <1>3, <2>1, <2>2, FlattenEmpty DEF tt
<1>4. CASE n # 0
  <2>1. PICK f : Flattening(f, ss, n) /\ FlattenSeq(ss) = f[n]
    BY <1>0, <1>4, FlattenIs DEF n
  <2>2. \A i \in 1..n : f[i] = IF i = 1 THEN ss[i] ELSE f[i - 1] \o ss[i]
    BY <2>1 DEF Flattening
  <2> DEFINE K == {k \in Nat : k \in 1..n => f[k] = g[k]}
  <2>3. 0 \in K
    OBVIOUS
  <2>4. ASSUME NEW k \in Nat, k \in K PROVE k + 1 \in K
    <3> SUFFICES ASSUME k + 1 \in 1..n PROVE f[k + 1] = g[k + 1]
      OBVIOUS
    <3>1. CASE k = 0
      BY <1>0, <1>2, <2>2, <3>1
    <3>2. CASE k # 0
      <4>1. f[k] = g[k] /\ (k + 1) - 1 = k /\ k + 1 # 1 /\ k + 1 \in 1..(n + 1) /\ tt[k + 1] = ss[k + 1]
        BY <1>0, <2>4, <3>2
      <4>2. f[k + 1] = f[k] \o ss[k + 1]
        BY <2>2, <4>1, Zenon
      <4>3. g[k + 1] = g[k] \o tt[k + 1]
        BY <1>2, <4>1, Zenon
      <4> QED BY <4>1, <4>2, <4>3, Zenon
    <3> QED BY <3>1, <3>2
  <2> HIDE DEF K
  <2>5. n \in K
    BY <1>0, <2>3, <2>4, SetInduction
  <2>6. f[n] = g[n]
    BY <1>0, <1>4, <2>5 DEF K
  <2>7. g[n + 1] = g[n] \o t
    <3>1. n + 1 # 1 /\ (n + 1) - 1 = n /\ n + 1 \in 1..(n + 1)
      BY <1>0, <1>4
    <3> QED BY <1>0, <1>2, <3>1
  <2> QED BY <1>1, <2>1, <2>6, <2>7 DEF tt
<1> QED BY <1>3, <1>4
-----------------------------------------------------------------------------
(* The types *)

Letters == {"x", " ", "<", "_", ">", "[", "]", "r"}

StepNames == Steps \cup {FinalStep}

ChunkType == [step : StepNames, kind : {"thinking", "output"}, text : Seq(Letters)]

Marks ==
  {<<"think">>, <<"/think">>, <<"fence">>, <<"/fence">>, <<"stopped">>, <<"summary">>}
    \cup ({"heading"} \X StepNames) \cup ({"text", "answer"} \X ChunkType) \cup ({"content"} \X Seq(Letters))

-----------------------------------------------------------------------------
(* The markup *)

CountIn(s, mark, n) == Cardinality({i \in 1..n : s[i][1] = mark})
ThinkIn(s, n) == CountIn(s, "think", n) - CountIn(s, "/think", n)
FenceIn(s, n) == CountIn(s, "fence", n) - CountIn(s, "/fence", n)

One(condition) == IF condition THEN 1 ELSE 0

LEMMA CountAppend ==
  ASSUME NEW S, NEW s \in Seq(S), NEW m \in S, NEW mark
  PROVE  /\ \A n \in 0..Len(s) : CountIn(Append(s, m), mark, n) = CountIn(s, mark, n)
         /\ CountIn(Append(s, m), mark, Len(s) + 1) = CountIn(s, mark, Len(s)) + One(m[1] = mark)
         /\ \A n \in 0..Len(s) : CountIn(s, mark, n) \in Nat
<1> DEFINE t == Append(s, m)
           N == Len(s)
           Found(n) == {i \in 1..n : s[i][1] = mark}
<1>0. N \in Nat /\ Len(t) = N + 1 /\ t[N + 1] = m /\ \A i \in 1..N : t[i] = s[i]
  OBVIOUS
<1>1. \A n \in 0..N : IsFiniteSet(Found(n)) /\ Cardinality(Found(n)) \in Nat
  <2> SUFFICES ASSUME NEW n \in 0..N PROVE IsFiniteSet(Found(n)) /\ Cardinality(Found(n)) \in Nat
    OBVIOUS
  <2>1. IsFiniteSet(1..n)
    BY FS_Interval
  <2>2. Found(n) \subseteq 1..n
    OBVIOUS
  <2>3. IsFiniteSet(Found(n))
    BY <2>1, <2>2, FS_Subset
  <2> QED BY <2>3, FS_CardinalityType
<1>2. \A n \in 0..N : CountIn(t, mark, n) = CountIn(s, mark, n)
  <2> SUFFICES ASSUME NEW n \in 0..N PROVE {i \in 1..n : t[i][1] = mark} = {i \in 1..n : s[i][1] = mark}
    BY DEF CountIn
  <2> QED BY <1>0
<1>3. CountIn(t, mark, N + 1) = CountIn(s, mark, N) + One(m[1] = mark)
  <2> DEFINE F == Found(N)
             G == {i \in 1..(N + 1) : t[i][1] = mark}
  <2>0. IsFiniteSet(F) /\ Cardinality(F) \in Nat /\ N + 1 \notin F
    <3>1. N \in 0..N /\ N + 1 \notin F
      BY <1>0
    <3> QED BY <1>1, <3>1, Zenon
  <2>1. CountIn(t, mark, N + 1) = Cardinality(G) /\ CountIn(s, mark, N) = Cardinality(F)
    BY Zenon DEF CountIn
  <2>2. m[1] = mark => G = F \cup {N + 1}
    BY <1>0
  <2>3. m[1] # mark => G = F
    BY <1>0
  <2> HIDE DEF F, G
  <2>4. Cardinality(F \cup {N + 1}) = Cardinality(F) + 1
    BY <2>0, FS_AddElement
  <2>5. CASE m[1] = mark
    BY <2>1, <2>2, <2>4, <2>5, Zenon DEF One
  <2>6. CASE m[1] # mark
    <3>1. Cardinality(F) = Cardinality(F) + 0
      BY <2>0
    <3> QED BY <2>1, <2>3, <2>6, <3>1, Zenon DEF One
  <2> QED BY <2>5, <2>6
<1> QED BY <1>1, <1>2, <1>3 DEF CountIn

\* The chunk at i stands under its heading, in or out of a fence as it should.
Placed(s, i) ==
  LET c == s[i][2]
  IN  /\ \E j \in 1..(i - 1) : s[j] = <<"heading", c.step>> /\ \A k \in (j + 1)..i : s[k][1] # "heading"
      /\ ThinkIn(s, i) = 1
      /\ FenceIn(s, i) = IF c.kind = "thinking" THEN 0 ELSE 1

\* s is a well-formed message that ends in a think block if t, in a fence if f, under the
\* heading h.
WellFormed(s, t, f, h) ==
  /\ s \in Seq(Marks) /\ t \in BOOLEAN /\ f \in BOOLEAN
  /\ \A n \in 0..Len(s) : ThinkIn(s, n) \in {0, 1} /\ FenceIn(s, n) \in 0..ThinkIn(s, n)
  /\ ThinkIn(s, Len(s)) = One(t) /\ FenceIn(s, Len(s)) = One(f)
  /\ \A i \in 1..Len(s) : s[i][1] = "heading" => FenceIn(s, i) = 0
  /\ \A i \in 1..Len(s) : s[i][1] = "text" => Placed(s, i)
  /\ \A i \in 1..Len(s) : s[i][1] \in {"answer", "content", "stopped"} => ThinkIn(s, i) = 0
  /\ h # "none" => \E j \in 1..Len(s) : s[j] = <<"heading", h>> /\ \A k \in (j + 1)..Len(s) : s[k][1] # "heading"

LEMMA MarkIsPut ==
  ASSUME NEW s, NEW t, NEW f, NEW h, WellFormed(s, t, f, h),
         NEW m \in Marks, NEW t2 \in BOOLEAN, NEW f2 \in BOOLEAN, NEW h2, f2 => t2,
         One(t2) = One(t) + One(m[1] = "think") - One(m[1] = "/think"),
         One(f2) = One(f) + One(m[1] = "fence") - One(m[1] = "/fence"),
         IF m[1] = "heading" THEN ~f2 /\ m = <<"heading", h2>> ELSE h2 = h,
         m[1] = "text" => h # "none" /\ m[2].step = h /\ t2 /\ (f2 <=> m[2].kind # "thinking"),
         m[1] \in {"answer", "content", "stopped"} => ~t2
  PROVE  WellFormed(Append(s, m), t2, f2, h2)
<1> DEFINE r == Append(s, m)
           N == Len(s)
<1>0. /\ s \in Seq(Marks) /\ N \in Nat /\ r \in Seq(Marks) /\ Len(r) = N + 1 /\ r[N + 1] = m
      /\ \A i \in 1..N : r[i] = s[i]
  BY DEF WellFormed
<1>c. \A mark : /\ \A n \in 0..N : CountIn(r, mark, n) = CountIn(s, mark, n)
                /\ CountIn(r, mark, N + 1) = CountIn(s, mark, N) + One(m[1] = mark)
                /\ CountIn(s, mark, N) \in Nat
  BY <1>0, CountAppend
<1>1. \A n \in 0..N : ThinkIn(r, n) = ThinkIn(s, n) /\ FenceIn(r, n) = FenceIn(s, n)
  BY <1>c, Zenon DEF ThinkIn, FenceIn
<1>2. ThinkIn(r, N + 1) = One(t2) /\ FenceIn(r, N + 1) = One(f2)
  <2>1. /\ ThinkIn(r, N + 1) = ThinkIn(s, N) + One(m[1] = "think") - One(m[1] = "/think")
        /\ FenceIn(r, N + 1) = FenceIn(s, N) + One(m[1] = "fence") - One(m[1] = "/fence")
    <3> DEFINE A(mark) == CountIn(r, mark, N + 1)
               B(mark) == CountIn(s, mark, N)
               C(mark) == One(m[1] = mark)
    <3>1. \A mark \in {"think", "/think", "fence", "/fence"} :
            A(mark) = B(mark) + C(mark) /\ B(mark) \in Int
      <4>1. \A mark : A(mark) = B(mark) + C(mark) /\ B(mark) \in Nat
        BY <1>c, Zenon
      <4> QED BY <4>1
    <3>2. \A mark \in {"think", "/think", "fence", "/fence"} : C(mark) \in Int
      BY DEF One
    <3>3. /\ ThinkIn(r, N + 1) = A("think") - A("/think") /\ FenceIn(r, N + 1) = A("fence") - A("/fence")
          /\ ThinkIn(s, N) = B("think") - B("/think") /\ FenceIn(s, N) = B("fence") - B("/fence")
      BY Zenon DEF ThinkIn, FenceIn
    <3> HIDE DEF A, B, C
    <3>4. ThinkIn(r, N + 1) = ThinkIn(s, N) + C("think") - C("/think")
      BY <3>1, <3>2, <3>3
    <3>5. FenceIn(r, N + 1) = FenceIn(s, N) + C("fence") - C("/fence")
      BY <3>1, <3>2, <3>3
    <3> QED BY <3>4, <3>5 DEF C
  <2> QED BY <2>1 DEF WellFormed
<1> HIDE DEF r, N
<1>3. ASSUME NEW n \in 0..(N + 1)
      PROVE  ThinkIn(r, n) \in {0, 1} /\ FenceIn(r, n) \in 0..ThinkIn(r, n)
  <2>1. CASE n = N + 1
    BY <1>2, <2>1 DEF One
  <2>2. CASE n \in 0..N
    BY <1>1, <2>2 DEF WellFormed, N
  <2> QED BY <1>0, <2>1, <2>2
<1>4. ASSUME NEW i \in 1..(N + 1), r[i][1] = "heading"
      PROVE  FenceIn(r, i) = 0
  <2>1. CASE i = N + 1
    BY <1>0, <1>2, <1>4, <2>1 DEF One
  <2>2. CASE i \in 1..N
    BY <1>0, <1>1, <1>4, <2>2 DEF WellFormed, N
  <2> QED BY <1>0, <2>1, <2>2
<1>5. ASSUME NEW i \in 1..(N + 1), r[i][1] = "text"
      PROVE  Placed(r, i)
  <2>1. CASE i = N + 1
    <3>1. r[i] = m /\ m[1] = "text" /\ h # "none" /\ m[2].step = h /\ t2 /\ (f2 <=> m[2].kind # "thinking")
      BY <1>0, <1>5, <2>1
    <3>2. PICK j \in 1..N : s[j] = <<"heading", h>> /\ \A k \in (j + 1)..N : s[k][1] # "heading"
      BY <3>1 DEF WellFormed, N
    <3>3. j \in 1..(i - 1) /\ r[j] = <<"heading", h>>
      BY <1>0, <2>1, <3>2
    <3>4. \A k \in (j + 1)..i : r[k][1] # "heading"
      BY <1>0, <2>1, <3>1, <3>2
    <3>5. ThinkIn(r, i) = 1 /\ FenceIn(r, i) = IF m[2].kind = "thinking" THEN 0 ELSE 1
      BY <1>2, <2>1, <3>1 DEF One
    <3> QED BY <3>1, <3>3, <3>4, <3>5 DEF Placed
  <2>2. CASE i \in 1..N
    <3>1. Placed(s, i) /\ r[i] = s[i] /\ i \in 0..N
      BY <1>0, <1>5, <2>2 DEF WellFormed, N
    <3>2. ThinkIn(r, i) = ThinkIn(s, i) /\ FenceIn(r, i) = FenceIn(s, i)
      BY <1>1, <3>1
    <3>3. PICK j \in 1..(i - 1) : s[j] = <<"heading", s[i][2].step>> /\ \A k \in (j + 1)..i : s[k][1] # "heading"
      BY <3>1 DEF Placed
    <3>4. r[j] = s[j] /\ \A k \in (j + 1)..i : r[k] = s[k]
      BY <1>0, <2>2
    <3> QED BY <3>1, <3>2, <3>3, <3>4 DEF Placed
  <2> QED BY <1>0, <2>1, <2>2
<1>6. ASSUME NEW i \in 1..(N + 1), r[i][1] \in {"answer", "content", "stopped"}
      PROVE  ThinkIn(r, i) = 0
  <2>1. CASE i = N + 1
    BY <1>0, <1>2, <1>6, <2>1 DEF One
  <2>2. CASE i \in 1..N
    BY <1>0, <1>1, <1>6, <2>2 DEF WellFormed, N
  <2> QED BY <1>0, <2>1, <2>2
<1>7. ASSUME h2 # "none"
      PROVE  \E j \in 1..(N + 1) : r[j] = <<"heading", h2>> /\ \A k \in (j + 1)..(N + 1) : r[k][1] # "heading"
  <2>1. CASE m[1] = "heading"
    BY <1>0, <2>1
  <2>2. CASE m[1] # "heading"
    <3>1. PICK j \in 1..N : s[j] = <<"heading", h>> /\ \A k \in (j + 1)..N : s[k][1] # "heading"
      BY <1>7, <2>2 DEF WellFormed, N
    <3>2. \A k \in (j + 1)..(N + 1) : r[k][1] # "heading"
      BY <1>0, <2>2, <3>1
    <3> QED BY <1>0, <2>2, <3>1, <3>2
  <2> QED BY <2>1, <2>2
<1>8. WellFormed(r, t2, f2, h2)
  BY <1>0, <1>2, <1>3, <1>4, <1>5, <1>6, <1>7 DEF WellFormed
<1> QED BY <1>8 DEF r
-----------------------------------------------------------------------------
(* The inductive invariant *)

EndItems == {<<"error">>} \cup ({"done"} \X Seq(Letters))

Items == ({"delta"} \X ChunkType) \cup EndItems

StreamTypes ==
  /\ content \in Seq(Symbols) /\ output \in Seq(Symbols) /\ thought \in Seq(Letters)
  /\ unmarked \in BOOLEAN /\ status \in {"none", "reading", "complete"}
  /\ relay \in {"working", "answering", "over"} /\ sent \in Seq(ChunkType) /\ queue \in Seq(Items)
  /\ stopping \in BOOLEAN /\ reader \in {"reading", "returned", "left"}
  /\ answered \in BOOLEAN /\ fresh \in BOOLEAN /\ heading \in StepNames \cup {"none"}

\* What was passed on as thinking, without the separate reasoning.
Told == Select(thought, {i \in 1..Len(thought) : thought[i] # "r"})

\* Before the marker everything is passed on as thinking, from then on all that follows
\* the marker as output.
ReaderInv ==
  /\ status = "none" => content = <<>> /\ unmarked
  /\ unmarked => Markers(content) = {} /\ output = <<>> /\ Told = content
  /\ ~unmarked => /\ Markers(content) # {}
                  /\ output = SubSeq(content, MarkerEnd(content, Search(content)) + 1, Len(content))
                  /\ ThoughtComesBeforeMarker

MarkupInv ==
  /\ WellFormed(shown, thinking, fenced, heading)
  /\ reader = "returned" => ~thinking

\* The chunks that were taken out of the queue, as they are shown.
Taken == Of({"text", "answer"}, shown)
Waiting == Len(sent) - Len(Taken)

\* The queue holds the chunks sent and not taken, and last, once the run is over, how it
\* ended.
QueueInv ==
  /\ Taken \in Seq(ChunkType) /\ Waiting \in Nat
  /\ \A i \in 1..Len(Taken) : Solid(Taken[i]) = Solid(sent[i])
  /\ Len(queue) \in {Waiting, Waiting + 1}
  /\ \A i \in 1..Waiting : queue[i] = <<"delta", sent[Len(Taken) + i]>>
  /\ Len(queue) = Waiting + 1 => /\ relay = "over"
                                 /\ queue[Len(queue)] \in Outcomes
  /\ reader = "returned" => relay = "over" /\ queue = <<>>

\* The text of the answer among the chunks s.
AnswerIn(s) == TextOf(Select(s, {i \in 1..Len(s) : IsAnswer(s[i])}))

\* The answer is what was streamed as output, the message so far has what of it was taken,
\* and a complete message has the answer that the run returned.
AnswerInv ==
  /\ AnswerIn(sent) = output
  /\ Of({"answer"}, shown) \in Seq(ChunkType)
  /\ TextOf(Of({"answer"}, shown)) = AnswerIn(SubSeq(sent, 1, Len(Taken)))
  /\ \A i \in 1..Len(sent) : IsAnswer(sent[i]) => ~unmarked
  /\ answered => \E i \in 1..Len(sent) : IsAnswer(sent[i])
  /\ ~answered => Of({"answer"}, shown) = <<>>
  /\ reader # "returned" => Of({"content"}, shown) = <<>>

MessageInv ==
  reader = "returned" /\ CountIn(shown, "stopped", Len(shown)) = 0 /\ ~MarkerInBlock(content)
    => Strip(TextOf(Of({"answer"}, shown))) \o FlattenSeq(Of({"content"}, shown))
         = IF status = "complete" THEN SplitAnswer(content) ELSE <<"x">>

StreamInv == StreamTypes /\ ReaderInv /\ MarkupInv /\ QueueInv /\ AnswerInv /\ MessageInv
-----------------------------------------------------------------------------
(* Chunks and what is selected of them *)

LEMMA PrefixIs ==
  ASSUME NEW S, NEW s \in Seq(S), NEW n \in 0..Len(s)
  PROVE  /\ SubSeq(s, 1, n) \in Seq(S) /\ Len(SubSeq(s, 1, n)) = n
         /\ \A i \in 1..n : SubSeq(s, 1, n)[i] = s[i]
OBVIOUS

LEMMA SuffixIs ==
  ASSUME NEW S, NEW s \in Seq(S), NEW p \in 1..(Len(s) + 1)
  PROVE  /\ SubSeq(s, p, Len(s)) \in Seq(S) /\ Len(SubSeq(s, p, Len(s))) = Len(s) - p + 1
         /\ \A i \in 1..(Len(s) - p + 1) : SubSeq(s, p, Len(s))[i] = s[p - 1 + i]
OBVIOUS

LEMMA AppendConcat ==
  ASSUME NEW S, NEW a \in Seq(S), NEW u \in Seq(S), NEW e \in S
  PROVE  Append(a \o u, e) = a \o Append(u, e)
OBVIOUS

LEMMA ConcatNext ==
  ASSUME NEW S, NEW s \in Seq(S), NEW t \in Seq(S), NEW k \in Nat, k + 1 <= Len(t)
  PROVE  s \o SubSeq(t, 1, k + 1) = Append(s \o SubSeq(t, 1, k), t[k + 1])
<1>1. SubSeq(t, 1, k) \in Seq(S) /\ t[k + 1] \in S /\ SubSeq(t, 1, k + 1) = Append(SubSeq(t, 1, k), t[k + 1])
  OBVIOUS
<1>2. \A u \in Seq(S), e \in S : Append(s \o u, e) = s \o Append(u, e)
  BY AppendConcat
<1> QED BY <1>1, <1>2

LEMMA SelectSame ==
  ASSUME NEW s, NEW I, NEW J, Len(s) \in Nat, \A i \in 1..Len(s) : i \in I <=> i \in J
  PROVE  Select(s, I) = Select(s, J)
<1>1. PICK f : Selecting(f, s, I, Len(s)) /\ Select(s, I) = f[Len(s)]
  BY SelectIs
<1>2. PICK g : Selecting(g, s, J, Len(s)) /\ Select(s, J) = g[Len(s)]
  BY SelectIs
<1> DEFINE n == Len(s)
<1>3. /\ n \in Nat /\ n <= n /\ \A i \in 1..n : s[i] = s[i] /\ (i \in I <=> i \in J)
      /\ Selecting(f, s, I, n) /\ Selecting(g, s, J, n)
  BY <1>1, <1>2
<1> HIDE DEF n
<1>4. f[n] = g[n]
  BY <1>3, SelectingAgree
<1> USE DEF n
<1> QED BY <1>1, <1>2, <1>4

\* What is appended is selected as a whole.
LEMMA SelectConcat ==
  ASSUME NEW S, NEW s \in Seq(S), NEW t \in Seq(S), NEW I, NEW J,
         \A i \in 1..Len(s) : i \in I <=> i \in J, \A i \in 1..Len(t) : Len(s) + i \in J
  PROVE  Select(s \o t, J) = Select(s, I) \o t
<1> DEFINE a == Select(s, I)
           K == {k \in Nat : k <= Len(t) => Select(s \o SubSeq(t, 1, k), J) = a \o SubSeq(t, 1, k)}
<1>1. a \in Seq(S) /\ Select(s, J) = a /\ Len(t) \in Nat
  BY SelectType, SelectSame
<1> HIDE DEF a
<1>2. 0 \in K
  <2>1. s \o SubSeq(t, 1, 0) = s /\ a \o SubSeq(t, 1, 0) = a
    BY <1>1
  <2> QED BY <1>1, <2>1
<1>3. ASSUME NEW k \in Nat, k \in K PROVE k + 1 \in K
  <2> SUFFICES ASSUME k + 1 <= Len(t) PROVE Select(s \o SubSeq(t, 1, k + 1), J) = a \o SubSeq(t, 1, k + 1)
    OBVIOUS
  <2> DEFINE u == SubSeq(t, 1, k)
             e == t[k + 1]
             r == s \o u
  <2>1. /\ u \in Seq(S) /\ e \in S /\ Len(u) = k /\ SubSeq(t, 1, k + 1) = Append(u, e)
        /\ r \in Seq(S) /\ Len(r) = Len(s) + k
    OBVIOUS
  <2>2. Select(r, J) = a \o u /\ Len(r) + 1 \in J
    BY <1>3, <2>1
  <2> HIDE DEF u, e
  <2>3. s \o SubSeq(t, 1, k + 1) = Append(r, e) /\ a \o SubSeq(t, 1, k + 1) = Append(a \o u, e)
    BY <1>1, ConcatNext DEF u, e
  <2> HIDE DEF r
  <2>4. Select(Append(r, e), J) = Append(Select(r, J), e)
    BY <2>1, <2>2, SelectAppend
  <2> QED BY <2>1, <2>2, <2>3, <2>4
<1> HIDE DEF K
<1>4. Len(t) \in K
  BY <1>1, <1>2, <1>3, SetInduction
<1>5. SubSeq(t, 1, Len(t)) = t
  OBVIOUS
<1>6. Len(t) <= Len(t)
  BY <1>1
<1>7. Select(s \o SubSeq(t, 1, Len(t)), J) = a \o SubSeq(t, 1, Len(t))
  BY <1>4, <1>6, Zenon DEF K
<1> QED BY <1>5, <1>7 DEF a

LEMMA OfAppend ==
  ASSUME NEW S, NEW s \in Seq(S), NEW m \in S, NEW kinds
  PROVE  Of(kinds, Append(s, m)) = IF m[1] \in kinds THEN Append(Of(kinds, s), m[2]) ELSE Of(kinds, s)
<1> DEFINE r == Append(s, m)
           I == {i \in 1..Len(s) : s[i][1] \in kinds}
           J == {i \in 1..Len(r) : r[i][1] \in kinds}
           found == Select(s, I)
           more == Select(r, J)
<1>1. /\ \A i \in 1..Len(s) : i \in I <=> i \in J
      /\ Len(s) + 1 \in J <=> m[1] \in kinds
  OBVIOUS
<1>2. /\ Of(kinds, s) = [i \in 1..Len(found) |-> found[i][2]]
      /\ Of(kinds, r) = [i \in 1..Len(more) |-> more[i][2]]
  BY DEF Of
<1> HIDE DEF r, I, J
<1>3. found \in Seq(S) /\ more = IF m[1] \in kinds THEN Append(found, m) ELSE found
  BY <1>1, SelectAppend, SelectType DEF r
<1> HIDE DEF found, more
<1>4. CASE m[1] \in kinds
  <2>1. more = Append(found, m) /\ Len(more) = Len(found) + 1
    BY <1>3, <1>4
  <2>2. [i \in 1..Len(more) |-> more[i][2]] = Append([i \in 1..Len(found) |-> found[i][2]], m[2])
    BY <1>3, <2>1
  <2> QED BY <1>2, <1>4, <2>2 DEF r
<1>5. CASE m[1] \notin kinds
  BY <1>2, <1>3, <1>5 DEF r
<1> QED BY <1>4, <1>5

LEMMA OfEmpty == \A kinds : Of(kinds, <<>>) = <<>>
<1> SUFFICES ASSUME NEW kinds PROVE Of(kinds, <<>>) = <<>>
  OBVIOUS
<1> DEFINE found == Select(<<>>, {i \in 1..Len(<<>>) : <<>>[i][1] \in kinds})
<1>1. found = <<>>
  BY SelectEmpty
<1>2. Of(kinds, <<>>) = [i \in 1..Len(found) |-> found[i][2]]
  BY DEF Of
<1> QED BY <1>1, <1>2

LEMMA TextAppend ==
  ASSUME NEW s \in Seq(ChunkType), NEW c \in ChunkType
  PROVE  TextOf(Append(s, c)) = TextOf(s) \o c.text
<1> DEFINE texts == [i \in 1..Len(s) |-> s[i].text]
           r == Append(s, c)
<1>1. texts \in Seq(Seq(Letters)) /\ c.text \in Seq(Letters)
  <2>1. \A d \in ChunkType : d.text \in Seq(Letters)
    BY DEF ChunkType
  <2>2. \A i \in 1..Len(s) : s[i].text \in Seq(Letters)
    BY <2>1
  <2> QED BY <2>1, <2>2
<1>2. [i \in 1..Len(r) |-> r[i].text] = Append(texts, c.text)
  OBVIOUS
<1>3. TextOf(s) = FlattenSeq(texts) /\ TextOf(r) = FlattenSeq([i \in 1..Len(r) |-> r[i].text])
  BY DEF TextOf
<1> HIDE DEF texts, r
<1>4. FlattenSeq(Append(texts, c.text)) = FlattenSeq(texts) \o c.text
  BY <1>1, FlattenAppend
<1> QED BY <1>2, <1>3, <1>4 DEF r

LEMMA TextEmpty == TextOf(<<>>) = <<>>
<1>1. [i \in 1..Len(<<>>) |-> <<>>[i].text] = <<>>
  OBVIOUS
<1> QED BY <1>1, FlattenEmpty DEF TextOf

LEMMA AnswerAppend ==
  ASSUME NEW s \in Seq(ChunkType), NEW c \in ChunkType
  PROVE  AnswerIn(Append(s, c)) = IF IsAnswer(c) THEN AnswerIn(s) \o c.text ELSE AnswerIn(s)
<1> DEFINE r == Append(s, c)
           I == {i \in 1..Len(s) : IsAnswer(s[i])}
           J == {i \in 1..Len(r) : IsAnswer(r[i])}
<1>1. (\A i \in 1..Len(s) : i \in I <=> i \in J) /\ (Len(s) + 1 \in J <=> IsAnswer(c))
  OBVIOUS
<1>2. AnswerIn(s) = TextOf(Select(s, I)) /\ AnswerIn(r) = TextOf(Select(r, J))
  BY DEF AnswerIn
<1> HIDE DEF r, I, J
<1>3. Select(s, I) \in Seq(ChunkType) /\ Select(r, J) = IF IsAnswer(c) THEN Append(Select(s, I), c) ELSE Select(s, I)
  BY <1>1, SelectAppend, SelectType DEF r
<1> QED BY <1>2, <1>3, TextAppend DEF r

LEMMA AnswerEmpty == AnswerIn(<<>>) = <<>>
BY SelectEmpty, TextEmpty DEF AnswerIn

Black(t) == {i \in 1..Len(t) : t[i] # " "}

LEMMA BlanksCut ==
  ASSUME NEW t \in Seq(Letters), NEW p \in 1..(Len(t) + 1), \A i \in 1..(p - 1) : i \notin Black(t)
  PROVE  /\ SubSeq(t, p, Len(t)) \in Seq(Letters)
         /\ Select(SubSeq(t, p, Len(t)), Black(SubSeq(t, p, Len(t)))) = Select(t, Black(t))
<1> DEFINE u == SubSeq(t, p, Len(t))
<1>0. Len(t) \in Nat
  OBVIOUS
<1>1. /\ u \in Seq(Letters) /\ Len(u) = Len(t) - p + 1
      /\ \A i \in 1..(Len(t) - p + 1) : u[i] = t[p - 1 + i]
  BY SuffixIs, Zenon
<1> HIDE DEF u
<1>3. \A i \in 1..(Len(t) - p + 1) : i \in Black(u) <=> p - 1 + i \in Black(t)
  <2> SUFFICES ASSUME NEW i \in 1..(Len(t) - p + 1)
               PROVE  i \in Black(u) <=> p - 1 + i \in Black(t)
    OBVIOUS
  <2>1. i \in 1..Len(u) /\ p - 1 + i \in 1..Len(t) /\ u[i] = t[p - 1 + i]
    <3>1. i \in 1..Len(u) /\ p - 1 + i \in 1..Len(t)
      BY <1>0, <1>1
    <3> QED BY <1>1, <3>1
  <2> QED BY <2>1 DEF Black
<1>4. Select(u, Black(u)) = Select(t, Black(t))
  BY <1>3, SelectSuffix DEF u
<1> QED BY <1>1, <1>4 DEF u

\* payload.lstrip
TrimmedText(t) ==
  LET solid == {i \in 1..Len(t) : ~IsBlank(SubSeq(t, 1, i))}
  IN  IF solid = {} THEN <<>> ELSE SubSeq(t, CHOOSE i \in solid : \A k \in solid : i <= k, Len(t))

LEMMA TextIsTrimmed ==
  ASSUME NEW t \in Seq(Letters)
  PROVE  TrimmedText(t) \in Seq(Letters) /\ Select(TrimmedText(t), Black(TrimmedText(t))) = Select(t, Black(t))
<1> DEFINE solid == {i \in 1..Len(t) : ~IsBlank(SubSeq(t, 1, i))}
           p == CHOOSE i \in solid : \A k \in solid : i <= k
<1>1. TrimmedText(t) = IF solid = {} THEN <<>> ELSE SubSeq(t, p, Len(t))
  BY Zenon DEF TrimmedText
<1>2. ASSUME NEW i \in 1..Len(t), t[i] # " "
      PROVE  i \in solid
  <2> DEFINE v == SubSeq(t, 1, i)
  <2>1. i \in 0..Len(t) /\ i \in 1..i
    OBVIOUS
  <2>2. Len(v) = i /\ v[i] = t[i]
    BY <2>1, PrefixIs
  <2> HIDE DEF v
  <2>3. ~IsBlank(v)
    BY <1>2, <2>1, <2>2 DEF IsBlank
  <2> QED BY <2>3, Zenon DEF v
<1>3. solid \subseteq 1..Len(t) /\ solid \subseteq Nat /\ Len(t) \in Nat
  OBVIOUS
<1>4. CASE solid = {}
  <2> HIDE DEF solid
  <2>1. \A i \in 1..Len(t) : t[i] = " "
    BY <1>2, <1>4
  <2> DEFINE q == Len(t) + 1
  <2>2. SubSeq(t, q, Len(t)) = <<>> /\ q \in 1..(Len(t) + 1) /\ \A i \in 1..(q - 1) : i \notin Black(t)
    <3>1. q \in 1..(Len(t) + 1) /\ q - 1 = Len(t) /\ Len(t) - q + 1 = 0
      BY <1>3
    <3>2. SubSeq(t, q, Len(t)) \in Seq(Letters) /\ Len(SubSeq(t, q, Len(t))) = Len(t) - q + 1
      BY <3>1, SuffixIs
    <3>3. SubSeq(t, q, Len(t)) = <<>>
      BY <3>1, <3>2
    <3> QED BY <2>1, <3>1, <3>3 DEF Black
  <2> HIDE DEF q
  <2>3. /\ SubSeq(t, q, Len(t)) \in Seq(Letters)
        /\ Select(SubSeq(t, q, Len(t)), Black(SubSeq(t, q, Len(t)))) = Select(t, Black(t))
    BY <2>2, BlanksCut
  <2> QED BY <1>1, <1>4, <2>2, <2>3
<1>5. CASE solid # {}
  <2> HIDE DEF solid
  <2>1. \E i \in solid : \A k \in solid : i <= k
    BY <1>3, <1>5, LeastNat
  <2>2. p \in solid /\ \A k \in solid : p <= k
    BY <2>1, Zenon
  <2> HIDE DEF p
  <2>3. p \in 1..Len(t) /\ p \in 1..(Len(t) + 1)
    BY <1>3, <2>2
  <2>4. \A i \in 1..(p - 1) : i \notin Black(t)
    <3>0. \A i \in 1..(p - 1) : i \in 1..Len(t) /\ ~ (p <= i)
      BY <1>3, <2>3
    <3> SUFFICES ASSUME NEW i \in 1..(p - 1), t[i] # " " PROVE FALSE
      BY DEF Black
    <3>1. i \in 1..Len(t) /\ ~ (p <= i)
      BY <3>0
    <3>2. i \in solid
      BY <1>2, <3>1
    <3> QED BY <2>2, <3>1, <3>2
  <2> QED BY <1>1, <1>5, <2>3, <2>4, BlanksCut
<1> QED BY <1>4, <1>5

\* Cutting line breaks off the front changes nothing but line breaks.
LEMMA TrimmedIsSolid ==
  ASSUME NEW c \in ChunkType, NEW trims \in BOOLEAN
  PROVE  /\ Trimmed(c, trims) \in ChunkType
         /\ Trimmed(c, trims).step = c.step /\ Trimmed(c, trims).kind = c.kind
         /\ Solid(Trimmed(c, trims)) = Solid(c)
<1> DEFINE t == c.text
           rest == TrimmedText(t)
<1>0. t \in Seq(Letters) /\ c = [step |-> c.step, kind |-> c.kind, text |-> t]
  BY DEF ChunkType
<1>1. trims => Trimmed(c, trims) = [c EXCEPT !.text = rest]
  BY Zenon DEF Trimmed, TrimmedText
<1>2. ~trims => Trimmed(c, trims) = c
  BY DEF Trimmed
<1> HIDE DEF t, rest
<1>3. rest \in Seq(Letters) /\ Select(rest, Black(rest)) = Select(t, Black(t))
  BY <1>0, TextIsTrimmed DEF rest
<1>4. \A d : Solid(d) = [d EXCEPT !.text = Select(d.text, Black(d.text))]
  BY Zenon DEF Solid, Black
<1>5. CASE trims
  <2> DEFINE d == [step |-> c.step, kind |-> c.kind, text |-> rest]
  <2>1. Trimmed(c, trims) = d /\ d \in ChunkType /\ d.text = rest /\ d.step = c.step /\ d.kind = c.kind
    BY <1>0, <1>1, <1>3, <1>5 DEF ChunkType
  <2> HIDE DEF d
  <2>2. Solid(d) = [d EXCEPT !.text = Select(rest, Black(rest))]
    BY <1>4, <2>1
  <2>3. Solid(c) = [c EXCEPT !.text = Select(t, Black(t))]
    BY <1>4 DEF t
  <2>4. Solid(d) = Solid(c)
    <3> DEFINE x == Select(t, Black(t))
    <3>1. Solid(d) = [d EXCEPT !.text = x] /\ Solid(c) = [c EXCEPT !.text = x]
      BY <1>3, <2>2, <2>3
    <3> HIDE DEF x
    <3>2. [d EXCEPT !.text = x] = [c EXCEPT !.text = x]
      BY <2>1 DEF d, ChunkType
    <3> QED BY <3>1, <3>2
  <2> QED BY <2>1, <2>4
<1>6. CASE ~trims
  BY <1>2, <1>6
<1> QED BY <1>5, <1>6
-----------------------------------------------------------------------------
(* Markers *)

Short(s, i) == i + 1 <= Len(s) /\ s[i] = "<" /\ s[i + 1] = ">"
Long(s, i)  == i + 2 <= Len(s) /\ s[i] = "<" /\ s[i + 1] = "_" /\ s[i + 2] = ">"

LEMMA MarkerForms ==
  ASSUME NEW s, NEW i
  PROVE  MarkerEnd(s, i) = IF Short(s, i) THEN i + 1 ELSE IF Long(s, i) THEN i + 2 ELSE 0
BY Zenon DEF MarkerEnd, Short, Long

LEMMA FormsFit ==
  ASSUME NEW s, NEW i
  PROVE  (Short(s, i) => i + 1 <= Len(s)) /\ (Long(s, i) => i + 2 <= Len(s))
BY Zenon DEF Short, Long

LEMMA MarkerEndIs ==
  ASSUME NEW s \in Seq(Symbols), NEW i \in 1..Len(s)
  PROVE  /\ MarkerEnd(s, i) \in {0, i + 1, i + 2}
         /\ MarkerEnd(s, i) <= Len(s)
<1>1. Len(s) \in Nat /\ i \in Nat
  OBVIOUS
<1> QED BY <1>1, MarkerForms, FormsFit

LEMMA MarkersAre ==
  ASSUME NEW s \in Seq(Symbols), NEW i \in Markers(s)
  PROVE  i \in 1..Len(s) /\ MarkerEnd(s, i) \in {i + 1, i + 2} /\ MarkerEnd(s, i) <= Len(s)
<1>1. i \in 1..Len(s) /\ MarkerEnd(s, i) > 0
  BY DEF Markers
<1>2. MarkerEnd(s, i) \in {0, i + 1, i + 2} /\ MarkerEnd(s, i) <= Len(s)
  BY <1>1, MarkerEndIs
<1> QED BY <1>1, <1>2

\* Texts that agree on the first n symbols have the same markers there.
LEMMA MarkersAgree ==
  ASSUME NEW s \in Seq(Symbols), NEW r \in Seq(Symbols), Len(s) <= Len(r),
         \A i \in 1..Len(s) : r[i] = s[i], NEW i \in 1..Len(s)
  PROVE  /\ i + 1 <= Len(s) => (Short(r, i) <=> Short(s, i))
         /\ i + 2 <= Len(s) => (Long(r, i) <=> Long(s, i))
<1>0. Len(s) \in Nat /\ Len(r) \in Nat
  OBVIOUS
<1>1. ASSUME i + 1 <= Len(s) PROVE Short(r, i) <=> Short(s, i)
  <2>1. i + 1 \in 1..Len(s) /\ i + 1 <= Len(r)
    BY <1>0, <1>1
  <2>2. r[i] = s[i] /\ r[i + 1] = s[i + 1]
    BY <2>1
  <2> QED BY <1>1, <2>1, <2>2, Zenon DEF Short
<1>2. ASSUME i + 2 <= Len(s) PROVE Long(r, i) <=> Long(s, i)
  <2>1. i + 1 \in 1..Len(s) /\ i + 2 \in 1..Len(s) /\ i + 2 <= Len(r)
    BY <1>0, <1>2
  <2>2. r[i] = s[i] /\ r[i + 1] = s[i + 1] /\ r[i + 2] = s[i + 2]
    BY <2>1
  <2> QED BY <1>2, <2>1, <2>2, Zenon DEF Long
<1> QED BY <1>1, <1>2

\* A marker in a text is one of every longer text.
LEMMA MarkersGrow ==
  ASSUME NEW s \in Seq(Symbols), NEW t \in Seq(Symbols)
  PROVE  /\ \A i \in Markers(s) : i \in Markers(s \o t) /\ MarkerEnd(s \o t, i) = MarkerEnd(s, i)
         /\ \A i \in Markers(s \o t) : MarkerEnd(s \o t, i) <= Len(s) => i \in Markers(s)
<1> DEFINE r == s \o t
<1>0. /\ r \in Seq(Symbols) /\ Len(s) \in Nat /\ Len(r) \in Nat /\ Len(s) <= Len(r)
      /\ \A i \in 1..Len(s) : r[i] = s[i]
  OBVIOUS
<1> HIDE DEF r
<1>1. ASSUME NEW i \in Markers(s) PROVE i \in Markers(r) /\ MarkerEnd(r, i) = MarkerEnd(s, i)
  <2>1. i \in 1..Len(s) /\ MarkerEnd(s, i) \in {i + 1, i + 2} /\ MarkerEnd(s, i) <= Len(s)
    BY <1>1, MarkersAre
  <2>2. /\ i + 1 <= Len(s) => (Short(r, i) <=> Short(s, i))
        /\ i + 2 <= Len(s) => (Long(r, i) <=> Long(s, i))
    BY <1>0, <2>1, MarkersAgree
  <2>3. /\ MarkerEnd(r, i) = IF Short(r, i) THEN i + 1 ELSE IF Long(r, i) THEN i + 2 ELSE 0
        /\ MarkerEnd(s, i) = IF Short(s, i) THEN i + 1 ELSE IF Long(s, i) THEN i + 2 ELSE 0
    BY MarkerForms
  <2>4. MarkerEnd(r, i) = MarkerEnd(s, i) /\ i \in 1..Len(r) /\ MarkerEnd(s, i) > 0
    BY <1>0, <2>1, <2>2, <2>3
  <2> QED BY <2>4 DEF Markers
<1>2. ASSUME NEW i \in Markers(r), MarkerEnd(r, i) <= Len(s) PROVE i \in Markers(s)
  <2>1. i \in 1..Len(r) /\ MarkerEnd(r, i) \in {i + 1, i + 2}
    BY <1>0, <1>2, MarkersAre
  <2>2. i \in 1..Len(s)
    BY <1>0, <1>2, <2>1
  <2>3. /\ i + 1 <= Len(s) => (Short(r, i) <=> Short(s, i))
        /\ i + 2 <= Len(s) => (Long(r, i) <=> Long(s, i))
    BY <1>0, <2>2, MarkersAgree
  <2>4. /\ MarkerEnd(r, i) = IF Short(r, i) THEN i + 1 ELSE IF Long(r, i) THEN i + 2 ELSE 0
        /\ MarkerEnd(s, i) = IF Short(s, i) THEN i + 1 ELSE IF Long(s, i) THEN i + 2 ELSE 0
    BY MarkerForms
  <2>5. MarkerEnd(s, i) > 0
    BY <1>0, <1>2, <2>1, <2>2, <2>3, <2>4
  <2> QED BY <2>2, <2>5 DEF Markers
<1> QED BY <1>1, <1>2 DEF r

LEMMA LeastIsMin ==
  ASSUME NEW S, S \subseteq Nat, S # {}
  PROVE  Min(S) \in S /\ \A k \in S : Min(S) <= k
<1>1. \E m \in S : \A k \in S : m <= k
  BY LeastNat
<1> QED BY <1>1, Zenon DEF Min

LEMMA BlockEndIs ==
  ASSUME NEW s, Len(s) \in Nat
  PROVE  BlockEnd(s) \in 0..Len(s)
<1> DEFINE ends == {j \in 1..Len(s) : s[j] = "]" /\ \E i \in 1..(j - 1) : s[i] = "[" /\ IsBlank(SubSeq(s, 1, i - 1))}
<1>1. BlockEnd(s) = IF ends = {} THEN 0 ELSE Min(ends)
  BY Zenon DEF BlockEnd
<1>2. ends \subseteq 1..Len(s)
  BY Zenon
<1> HIDE DEF ends
<1>3. ends \subseteq Nat
  BY <1>2
<1>4. ends # {} => Min(ends) \in 1..Len(s)
  BY <1>2, <1>3, LeastIsMin
<1> QED BY <1>1, <1>4

LEMMA SearchIs ==
  ASSUME NEW s \in Seq(Symbols), Markers(s) # {}
  PROVE  Search(s) \in Markers(s) /\ \A j \in Markers(s) : Search(s) <= j
<1>1. Markers(s) \subseteq Nat
  BY DEF Markers
<1>2. \E i \in Markers(s) : \A j \in Markers(s) : i <= j
  BY <1>1, LeastNat
<1> QED BY <1>2, Zenon DEF Search

\* The first marker stays the first.
LEMMA SearchStays ==
  ASSUME NEW s \in Seq(Symbols), NEW t \in Seq(Symbols), Markers(s) # {}
  PROVE  /\ Markers(s \o t) # {} /\ Search(s \o t) = Search(s)
         /\ MarkerEnd(s \o t, Search(s)) = MarkerEnd(s, Search(s))
<1> DEFINE r == s \o t
           b == Search(s)
           q == Search(r)
<1>0. r \in Seq(Symbols) /\ Len(s) \in Nat
  OBVIOUS
<1>1. b \in Markers(s) /\ \A j \in Markers(s) : b <= j
  BY SearchIs
<1>2. /\ \A i \in Markers(s) : i \in Markers(r) /\ MarkerEnd(r, i) = MarkerEnd(s, i)
      /\ \A i \in Markers(r) : MarkerEnd(r, i) <= Len(s) => i \in Markers(s)
  BY MarkersGrow
<1> HIDE DEF r, b
<1>3. b \in Markers(r) /\ MarkerEnd(r, b) = MarkerEnd(s, b)
  BY <1>1, <1>2
<1>4. q \in Markers(r) /\ \A j \in Markers(r) : q <= j
  BY <1>0, <1>3, SearchIs
<1> HIDE DEF q
<1>5. b \in 1..Len(s) /\ MarkerEnd(s, b) \in {b + 1, b + 2} /\ MarkerEnd(s, b) <= Len(s)
  BY <1>1, MarkersAre
<1>6. q \in Nat /\ MarkerEnd(r, q) \in {q + 1, q + 2}
  BY <1>0, <1>4, MarkersAre
<1>7. q <= b
  BY <1>3, <1>4
<1>8. ~ (q < b)
  <2> SUFFICES ASSUME q < b PROVE FALSE
    OBVIOUS
  <2>1. MarkerEnd(r, q) <= Len(s)
    BY <1>0, <1>5, <1>6
  <2>2. q \in Markers(s)
    BY <1>2, <1>4, <2>1
  <2>3. b <= q
    BY <1>1, <2>2
  <2> QED BY <1>5, <1>6, <2>3
<1>9. q = b
  BY <1>5, <1>6, <1>7, <1>8
<1> QED BY <1>3, <1>9 DEF r, b, q
-----------------------------------------------------------------------------
(* The reader of the stream *)

LEMMA PieceOfLonger ==
  ASSUME NEW S, NEW s \in Seq(S), NEW t \in Seq(S), NEW a \in Nat, NEW b \in Nat, 1 <= a, b <= Len(s)
  PROVE  SubSeq(s \o t, a, b) = SubSeq(s, a, b)
OBVIOUS

LEMMA PieceBeyond ==
  ASSUME NEW S, NEW s \in Seq(S), NEW t \in Seq(S), NEW k \in 0..Len(t)
  PROVE  /\ SubSeq(s \o t, Len(s) + 1, Len(s) + k) = SubSeq(t, 1, k)
         /\ SubSeq(s \o t, 1, Len(s) + k) = s \o SubSeq(t, 1, k)
OBVIOUS

LEMMA RestIs ==
  ASSUME NEW S, NEW s \in Seq(S), NEW e \in 0..Len(s)
  PROVE  /\ SubSeq(s, e + 1, Len(s)) \in Seq(S) /\ Len(SubSeq(s, e + 1, Len(s))) = Len(s) - e
         /\ \A i \in 1..(Len(s) - e) : SubSeq(s, e + 1, Len(s))[i] = s[e + i]
OBVIOUS

LEMMA ConcatIs ==
  ASSUME NEW S, NEW s \in Seq(S), NEW t \in Seq(S)
  PROVE  /\ s \o t \in Seq(S) /\ Len(s \o t) = Len(s) + Len(t) /\ Len(s) \in Nat /\ Len(t) \in Nat
         /\ \A i \in 1..(Len(s) + Len(t)) : (s \o t)[i] = IF i <= Len(s) THEN s[i] ELSE t[i - Len(s)]
OBVIOUS

LEMMA SameSequence ==
  ASSUME NEW S, NEW s \in Seq(S), NEW t \in Seq(S), Len(s) = Len(t), \A i \in 1..Len(s) : s[i] = t[i]
  PROVE  s = t
OBVIOUS

LEMMA PieceToTheEnd ==
  ASSUME NEW S, NEW s \in Seq(S), NEW t \in Seq(S), NEW e \in 0..Len(s)
  PROVE  SubSeq(s \o t, e + 1, Len(s \o t)) = SubSeq(s, e + 1, Len(s)) \o t
<1> DEFINE r == s \o t
           u == SubSeq(s, e + 1, Len(s))
           v == SubSeq(r, e + 1, Len(r))
           n == Len(s)
<1>0. n \in Nat /\ e \in Nat /\ e <= n /\ Len(t) \in Nat
  OBVIOUS
<1>1. /\ r \in Seq(S) /\ Len(r) = n + Len(t)
      /\ \A i \in 1..(n + Len(t)) : r[i] = IF i <= n THEN s[i] ELSE t[i - n]
  BY ConcatIs
<1> HIDE DEF r
<1>2. u \in Seq(S) /\ Len(u) = n - e /\ \A i \in 1..(n - e) : u[i] = s[e + i]
  BY RestIs, Zenon
<1>3. v \in Seq(S) /\ Len(v) = Len(r) - e /\ \A i \in 1..(Len(r) - e) : v[i] = r[e + i]
  <2>0. e \in 0..Len(r)
    BY <1>0, <1>1
  <2> QED BY <1>1, <2>0, RestIs, Zenon
<1> HIDE DEF u, v, n
<1>4. /\ u \o t \in Seq(S) /\ Len(u \o t) = Len(v)
      /\ \A i \in 1..Len(v) : (u \o t)[i] = IF i <= n - e THEN u[i] ELSE t[i - (n - e)]
  <2>1. /\ u \o t \in Seq(S) /\ Len(u \o t) = Len(u) + Len(t)
        /\ \A i \in 1..(Len(u) + Len(t)) : (u \o t)[i] = IF i <= Len(u) THEN u[i] ELSE t[i - Len(u)]
    BY <1>2, ConcatIs, Zenon
  <2>2. Len(u) = n - e /\ Len(u) + Len(t) = Len(v)
    BY <1>0, <1>1, <1>2, <1>3
  <2> QED BY <2>1, <2>2, Zenon
<1>5. ASSUME NEW i \in 1..Len(v) PROVE v[i] = (u \o t)[i]
  <2>1. v[i] = IF e + i <= n THEN s[e + i] ELSE t[e + i - n]
    BY <1>0, <1>1, <1>3
  <2>2. e + i - n = i - (n - e) /\ (e + i <= n <=> i <= n - e) /\ i \in Nat /\ 1 <= i
    BY <1>0, <1>1, <1>3
  <2> QED BY <1>0, <1>2, <1>4, <2>1, <2>2
<1>6. v = u \o t
  BY <1>3, <1>4, <1>5, SameSequence, Zenon
<1> QED BY <1>6 DEF u, v, r, n

LEMMA NoPiece ==
  ASSUME NEW S, NEW s \in Seq(S), NEW a \in Nat, NEW b \in Nat, b < a
  PROVE  SubSeq(s, a, b) = <<>>
OBVIOUS

LEMMA EmptyIsBlank == IsBlank(<<>>)
<1>1. 1..Len(<<>>) = {}
  OBVIOUS
<1> QED BY <1>1, Zenon DEF IsBlank

ToldIn(th) == Select(th, {i \in 1..Len(th) : th[i] # "r"})

LEMMA ToldGrows ==
  ASSUME NEW th \in Seq(Letters), NEW u \in Seq(Symbols)
  PROVE  th \o u \in Seq(Letters) /\ ToldIn(th \o u) = ToldIn(th) \o u
<1> DEFINE r == th \o u
           I == {i \in 1..Len(th) : th[i] # "r"}
           J == {i \in 1..Len(r) : r[i] # "r"}
<1>0. Symbols \subseteq Letters /\ "r" \notin Symbols
  BY StreamAssumption DEF Letters
<1>1. u \in Seq(Letters) /\ r \in Seq(Letters) /\ Len(r) = Len(th) + Len(u) /\ Len(th) \in Nat /\ Len(u) \in Nat
  BY <1>0
<1>2. /\ \A i \in 1..Len(th) : r[i] = th[i] /\ i \in 1..Len(r)
      /\ \A i \in 1..Len(u) : r[Len(th) + i] = u[i] /\ u[i] \in Symbols /\ Len(th) + i \in 1..Len(r)
  BY <1>1
<1> HIDE DEF r
<1>3. \A i \in 1..Len(th) : i \in I <=> i \in J
  BY <1>2, Zenon
<1>4. \A i \in 1..Len(u) : Len(th) + i \in J
  BY <1>0, <1>2, Zenon
<1>5. ToldIn(th) = Select(th, I) /\ ToldIn(r) = Select(r, J)
  BY Zenon DEF ToldIn
<1> HIDE DEF I, J
<1>6. Select(r, J) = Select(th, I) \o u
  BY <1>1, <1>3, <1>4, SelectConcat DEF r
<1> QED BY <1>1, <1>5, <1>6 DEF r

LEMMA ToldAppend ==
  ASSUME NEW th \in Seq(Letters)
  PROVE  Append(th, "r") \in Seq(Letters) /\ ToldIn(Append(th, "r")) = ToldIn(th)
<1> DEFINE r == Append(th, "r")
           I == {i \in 1..Len(th) : th[i] # "r"}
           J == {i \in 1..Len(r) : r[i] # "r"}
<1>1. "r" \in Letters /\ r \in Seq(Letters) /\ Len(r) = Len(th) + 1 /\ Len(th) \in Nat /\ r[Len(th) + 1] = "r"
  <2>1. "r" \in Letters
    BY DEF Letters
  <2>2. \A x \in Letters : /\ Append(th, x) \in Seq(Letters) /\ Len(Append(th, x)) = Len(th) + 1
                            /\ Len(th) \in Nat /\ Append(th, x)[Len(th) + 1] = x
    OBVIOUS
  <2> QED BY <2>1, <2>2, Zenon
<1>2. \A i \in 1..Len(th) : r[i] = th[i] /\ i \in 1..Len(r)
  BY <1>1
<1> HIDE DEF r
<1>3. (\A i \in 1..Len(th) : i \in I <=> i \in J) /\ Len(th) + 1 \notin J
  BY <1>1, <1>2, Zenon
<1>5. ToldIn(th) = Select(th, I) /\ ToldIn(r) = Select(r, J)
  BY Zenon DEF ToldIn
<1> HIDE DEF I, J
<1>6. Select(r, J) = Select(th, I)
  BY <1>1, <1>3, SelectAppend DEF r
<1> QED BY <1>1, <1>5, <1>6 DEF r

\* told is what s has before a marker from begin to end.
Before(s, told, begin, end) ==
  Len(told) < end /\ told = SubSeq(s, 1, Len(told)) /\ IsBlank(SubSeq(s, Len(told) + 1, begin - 1))

\* A later chunk changes nothing before the marker.
LEMMA BeforeStays ==
  ASSUME NEW s \in Seq(Symbols), NEW t \in Seq(Symbols), NEW told, Markers(s) # {}, Len(told) \in Nat,
         Before(s, told, Search(s), MarkerEnd(s, Search(s)))
  PROVE  /\ Before(s \o t, told, Search(s), MarkerEnd(s, Search(s)))
         /\ SubSeq(s \o t, MarkerEnd(s, Search(s)) + 1, Len(s \o t))
              = SubSeq(s, MarkerEnd(s, Search(s)) + 1, Len(s)) \o t
<1> DEFINE b == Search(s)
           e == MarkerEnd(s, b)
<1>0. b \in Markers(s)
  BY SearchIs
<1>1. b \in 1..Len(s) /\ e \in {b + 1, b + 2} /\ e <= Len(s)
  BY <1>0, MarkersAre
<1> HIDE DEF b, e
<1>2. Len(s) \in Nat /\ e \in 0..Len(s) /\ b - 1 \in Nat /\ b - 1 <= Len(s) /\ Len(told) < e /\ Len(told) <= Len(s)
  <2>1. Len(told) < e
    BY Zenon DEF Before, b, e
  <2> QED BY <1>1, <2>1
<1>3. SubSeq(s \o t, 1, Len(told)) = SubSeq(s, 1, Len(told))
  BY <1>2, PieceOfLonger
<1>4. SubSeq(s \o t, Len(told) + 1, b - 1) = SubSeq(s, Len(told) + 1, b - 1)
  <2>1. Len(told) + 1 \in Nat /\ 1 <= Len(told) + 1
    OBVIOUS
  <2> QED BY <1>2, <2>1, PieceOfLonger
<1>5. SubSeq(s \o t, e + 1, Len(s \o t)) = SubSeq(s, e + 1, Len(s)) \o t
  BY <1>2, PieceToTheEnd
<1> QED BY <1>3, <1>4, <1>5, Zenon DEF Before, b, e

LEMMA HeadFits ==
  ASSUME NEW n \in Nat, NEW l \in Nat, NEW b \in 1..(n + l), NEW e \in {b + 1, b + 2}, ~ (e <= n),
         NEW k, k = Larger(0, l - (n + l - e) - (e - b + 1))
  PROVE  /\ k \in 0..l /\ b - 1 \in Nat /\ n < e
         /\ k = 0 => b - 1 < n + 1
         /\ k # 0 => b - 1 = n + k /\ n + k < e /\ b - 1 < n + k + 1
BY DEF Larger

\* The chunk t that completes a marker from b to e: its head, unless it is blank, completes
\* what comes before the marker.
LEMMA HeadCompletes ==
  ASSUME NEW s \in Seq(Symbols), NEW t \in Seq(Symbols),
         NEW b \in 1..(Len(s) + Len(t)), NEW e \in {b + 1, b + 2}, ~ (e <= Len(s)),
         NEW k, k = Larger(0, Len(t) - (Len(s) + Len(t) - e) - (e - b + 1)),
         NEW head, head = SubSeq(t, 1, k)
  PROVE  /\ head \in Seq(Symbols)
         /\ Before(s \o t, IF IsBlank(head) THEN s ELSE s \o head, b, e)
<1> DEFINE r == s \o t
<1>0. r \in Seq(Symbols) /\ Len(s) \in Nat /\ Len(t) \in Nat /\ Len(r) = Len(s) + Len(t)
  OBVIOUS
<1>4. /\ k \in 0..Len(t) /\ b - 1 \in Nat /\ Len(s) < e
      /\ k = 0 => b - 1 < Len(s) + 1
      /\ k # 0 => b - 1 = Len(s) + k /\ Len(s) + k < e /\ b - 1 < Len(s) + k + 1
  BY <1>0, HeadFits
<1> HIDE DEF r
<1>5. head = SubSeq(t, 1, k) /\ head \in Seq(Symbols) /\ Len(head) = k
  BY <1>4, PrefixIs
<1>6. /\ SubSeq(r, Len(s) + 1, Len(s) + k) = head
      /\ SubSeq(r, 1, Len(s) + k) = s \o head
      /\ SubSeq(r, 1, Len(s)) = s
  <2>1. SubSeq(s, 1, Len(s)) = s
    OBVIOUS
  <2>2. SubSeq(s \o t, 1, Len(s)) = SubSeq(s, 1, Len(s))
    <3>1. 1 \in Nat /\ 1 <= 1 /\ Len(s) <= Len(s)
      BY <1>0
    <3> QED BY <1>0, <3>1, PieceOfLonger
  <2>3. /\ SubSeq(s \o t, Len(s) + 1, Len(s) + k) = SubSeq(t, 1, k)
        /\ SubSeq(s \o t, 1, Len(s) + k) = s \o SubSeq(t, 1, k)
    <3>1. \A j \in 0..Len(t) : /\ SubSeq(s \o t, Len(s) + 1, Len(s) + j) = SubSeq(t, 1, j)
                               /\ SubSeq(s \o t, 1, Len(s) + j) = s \o SubSeq(t, 1, j)
      BY PieceBeyond
    <3> QED BY <1>4, <3>1, Zenon
  <2> QED BY <1>5, <2>1, <2>2, <2>3, Zenon DEF r
<1>7. CASE k = 0
  <2>1. head = <<>>
    BY <1>5, <1>7
  <2>2. SubSeq(r, Len(s) + 1, b - 1) = <<>>
    <3>1. Len(s) + 1 \in Nat
      BY <1>0
    <3> QED BY <1>0, <1>4, <1>7, <3>1, NoPiece
  <2> QED BY <1>4, <1>5, <1>6, <2>1, <2>2, EmptyIsBlank, Zenon DEF Before, r
<1>8. CASE k # 0
  <2>1. b - 1 = Len(s) + k /\ Len(s) < e /\ Len(s) + k < e /\ b - 1 \in Nat
    BY <1>4, <1>8, Zenon
  <2>2. CASE IsBlank(head)
    BY <1>5, <1>6, <2>1, <2>2, Zenon DEF Before, r
  <2>3. CASE ~IsBlank(head)
    <3>0. Len(s \o head) = Len(s) + k /\ Len(s) + k + 1 \in Nat
      BY <1>0, <1>4, <1>5
    <3>1. Len(s \o head) = Len(s) + k /\ Len(s) + k + 1 \in Nat /\ b - 1 < Len(s) + k + 1
      BY <1>4, <1>8, <3>0, Zenon
    <3>2. SubSeq(r, Len(s) + k + 1, b - 1) = <<>>
      BY <1>0, <2>1, <3>1, NoPiece
    <3> QED BY <1>5, <1>6, <2>1, <2>3, <3>1, <3>2, EmptyIsBlank, Zenon DEF Before, r
  <2> QED BY <2>2, <2>3
<1> QED BY <1>7, <1>8, <1>4
LEMMA ThoughtIs ==
  /\ Markers(content) # {}
       => (ThoughtComesBeforeMarker
             <=> Before(content, Told, Search(content), MarkerEnd(content, Search(content))))
  /\ Markers(content') # {}
       => (ThoughtComesBeforeMarker'
             <=> Before(content', Told', Search(content'), MarkerEnd(content', Search(content'))))
BY Zenon DEF ThoughtComesBeforeMarker, Before, Told

LEMMA TextsAre == \A text \in Texts : text \in Seq(Symbols) /\ Len(text) \in Nat \ {0}
<1> SUFFICES ASSUME NEW text \in Texts PROVE text \in Seq(Symbols) /\ Len(text) \in Nat \ {0}
  OBVIOUS
<1>1. PICK k \in 1..MaxChunk : text \in [1..k -> Symbols]
  BY DEF Texts
<1>2. k \in Nat \ {0}
  <2>1. MaxChunk \in Nat
    BY StreamAssumption, Zenon
  <2> QED BY <2>1
<1>3. \A f \in [1..k -> Symbols] : f \in Seq(Symbols) /\ Len(f) = k
  BY <1>2
<1> QED BY <1>1, <1>2, <1>3

\* What a step of the reader adds to the thinking and to the output.
Grows(u, w) ==
  /\ u \in Seq(Letters) /\ thought' = thought \o u
  /\ w \in Seq(Symbols) /\ output' = output \o w
  /\ content' \in Seq(Symbols) /\ thought' \in Seq(Letters) /\ output' \in Seq(Symbols)
  /\ unmarked' \in BOOLEAN
  /\ status = "reading" /\ status' = "reading"
  /\ ~unmarked \/ w # <<>> => ~unmarked'

LEMMA ReaderTypes ==
  ASSUME StreamTypes
  PROVE  /\ content \in Seq(Symbols) /\ output \in Seq(Symbols) /\ thought \in Seq(Letters)
         /\ unmarked \in BOOLEAN /\ <<>> \in Seq(Symbols) /\ <<>> \in Seq(Letters)
         /\ output \o <<>> = output /\ thought \o <<>> = thought
         /\ Symbols \subseteq Letters
<1>1. \A S : \A s \in Seq(S) : <<>> \in Seq(S) /\ s \o <<>> = s
  OBVIOUS
<1>2. Symbols \subseteq Letters
  BY StreamAssumption DEF Letters
<1> QED BY <1>1, <1>2 DEF StreamTypes

LEMMA ReasoningKept ==
  ASSUME StreamTypes, ReaderInv, ReasoningChunk
  PROVE  ReaderInv' /\ Grows(<<"r">>, <<>>)
<1>1. thought' \in Seq(Letters) /\ Told' = Told
  BY ToldAppend, ReaderTypes DEF ReasoningChunk, Told, ToldIn
<1>2. UNCHANGED <<content, output, unmarked, status>> /\ status = "reading"
  BY DEF ReasoningChunk
<1>3. ReaderInv'
  <2>1. Markers(content') # {} => (ThoughtComesBeforeMarker' <=> ThoughtComesBeforeMarker)
    BY <1>1, <1>2, ThoughtIs, Zenon
  <2>2. Markers(content') = Markers(content)
    BY <1>2
  <2> QED BY <1>1, <1>2, <2>1, <2>2, Zenon DEF ReaderInv
<1>4. thought' = thought \o <<"r">> /\ <<"r">> \in Seq(Letters)
  <2>1. "r" \in Letters
    BY DEF Letters
  <2>2. \A x \in Letters : Append(thought, x) = thought \o <<x>> /\ <<x>> \in Seq(Letters)
    BY ReaderTypes
  <2> QED BY <2>1, <2>2, Zenon DEF ReasoningChunk
<1> QED BY <1>1, <1>2, <1>3, <1>4, ReaderTypes, Zenon DEF Grows

\* After the marker.
LEMMA OutputKept ==
  ASSUME StreamTypes, ReaderInv, NEW text \in Texts, ContentChunk(text), ~unmarked
  PROVE  ReaderInv' /\ Grows(<<>>, text)
<1> DEFINE b == Search(content)
           e == MarkerEnd(content, b)
<1>1. /\ text \in Seq(Symbols) /\ content \in Seq(Symbols) /\ output \in Seq(Symbols)
      /\ thought \in Seq(Letters)
  BY ReaderTypes, TextsAre
<1>2. /\ content' = content \o text /\ output' = output \o text /\ thought' = thought
      /\ unmarked' = unmarked /\ status' = status /\ status = "reading"
  BY DEF ContentChunk
<1>3. /\ Markers(content) # {} /\ output = SubSeq(content, e + 1, Len(content))
      /\ Before(content, Told, b, e)
  BY ThoughtIs, Zenon DEF ReaderInv
<1>4. Markers(content') # {} /\ Search(content') = b /\ MarkerEnd(content', b) = e
  BY <1>1, <1>2, <1>3, SearchStays
<1>5. Len(Told) \in Nat
  <2>1. Told \in Seq(Letters)
    BY <1>1, SelectType DEF Told
  <2> QED BY <2>1
<1>6. /\ Before(content', Told, b, e)
      /\ SubSeq(content', e + 1, Len(content')) = SubSeq(content, e + 1, Len(content)) \o text
  <2>1. /\ Before(content \o text, Told, b, e)
        /\ SubSeq(content \o text, e + 1, Len(content \o text)) = SubSeq(content, e + 1, Len(content)) \o text
    BY <1>1, <1>3, <1>5, BeforeStays, Zenon
  <2> QED BY <1>2, <2>1, Zenon
<1>7. Told' = Told
  BY <1>2 DEF Told
<1>8. ThoughtComesBeforeMarker'
  BY <1>4, <1>6, <1>7, ThoughtIs, Zenon
<1>9. ReaderInv'
  BY <1>2, <1>3, <1>4, <1>6, <1>8, Zenon DEF ReaderInv
<1>10. content' \in Seq(Symbols) /\ output' \in Seq(Symbols)
  BY <1>1, <1>2
<1> QED BY <1>1, <1>2, <1>9, <1>10, ReaderTypes, Zenon DEF Grows

\* Before the marker.
LEMMA ThinkingKept ==
  ASSUME StreamTypes, ReaderInv, NEW text \in Texts, ContentChunk(text), unmarked, Markers(content') = {}
  PROVE  ReaderInv' /\ Grows(text, <<>>)
<1>1. /\ text \in Seq(Symbols) /\ content \in Seq(Symbols) /\ output \in Seq(Symbols)
      /\ thought \in Seq(Letters) /\ unmarked \in BOOLEAN
  BY ReaderTypes, TextsAre
<1>2. /\ content' = content \o text /\ output' = output /\ thought' = thought \o text
      /\ unmarked' = unmarked /\ status' = status /\ status = "reading"
  BY DEF ContentChunk
<1>3. thought' \in Seq(Letters) /\ Told' = Told \o text
  BY <1>1, <1>2, ToldGrows DEF Told, ToldIn
<1>4. ReaderInv'
  BY <1>2, <1>3, Zenon DEF ReaderInv
<1>5. content' \in Seq(Symbols) /\ text \in Seq(Letters)
  <2>1. \A S, T : S \subseteq T => \A s \in Seq(S) : s \in Seq(T)
    OBVIOUS
  <2>2. content' \in Seq(Symbols)
    BY <1>1, <1>2
  <2> QED BY <1>1, <2>1, <2>2, ReaderTypes
<1> QED BY <1>1, <1>2, <1>3, <1>4, <1>5, ReaderTypes, Zenon DEF Grows

\* The chunk that completes the marker.
LEMMA SplitKept ==
  ASSUME StreamTypes, ReaderInv, NEW text \in Texts, ContentChunk(text), unmarked, Markers(content') # {}
  PROVE  ReaderInv' /\ \E u, w : Grows(u, w)
<1> DEFINE b == Search(content')
           e == MarkerEnd(content', b)
           k == HeadLength(text, Len(content') - e, e - b + 1)
           head == SubSeq(text, 1, k)
           rest == SubSeq(content', e + 1, Len(content'))
<1>1. /\ text \in Seq(Symbols) /\ content \in Seq(Symbols) /\ thought \in Seq(Letters)
      /\ unmarked \in BOOLEAN /\ <<>> \in Seq(Symbols)
  BY ReaderTypes, TextsAre
<1>2. /\ content' = content \o text /\ unmarked' = FALSE /\ status' = status /\ status = "reading"
      /\ thought' = IF IsBlank(head) THEN thought ELSE thought \o head
      /\ output' = output \o rest
  BY Zenon DEF ContentChunk, SplitChunk
<1>3. Markers(content) = {} /\ output = <<>> /\ Told = content
  BY DEF ReaderInv
<1>4. /\ content' \in Seq(Symbols) /\ Len(content') = Len(content) + Len(text)
      /\ Len(content) \in Nat /\ Len(text) \in Nat
  BY <1>1, <1>2
<1>5. b \in Markers(content')
  BY <1>4, SearchIs
<1>6. b \in 1..Len(content') /\ e \in {b + 1, b + 2} /\ e <= Len(content')
  BY <1>4, <1>5, MarkersAre
<1>7. ~ (e <= Len(content))
  BY <1>1, <1>2, <1>3, <1>5, MarkersGrow
<1>8. k = Larger(0, Len(text) - (Len(content) + Len(text) - e) - (e - b + 1))
  <2>1. k = Larger(0, Len(text) - (Len(content') - e) - (e - b + 1))
    BY Zenon DEF HeadLength
  <2> HIDE DEF k, b, e
  <2>2. Len(content') - e = Len(content) + Len(text) - e
    BY <1>4, <1>6
  <2> QED BY <2>1, <2>2, Zenon
<1> HIDE DEF b, e, k
<1>9. /\ head \in Seq(Symbols)
      /\ Before(content', IF IsBlank(head) THEN content ELSE content \o head, b, e)
  <2>1. head = SubSeq(text, 1, k) /\ b \in 1..(Len(content) + Len(text))
    BY <1>4, <1>6, Zenon
  <2> HIDE DEF head
  <2>2. /\ head \in Seq(Symbols)
        /\ Before(content \o text, IF IsBlank(head) THEN content ELSE content \o head, b, e)
    BY <1>1, <1>6, <1>7, <1>8, <2>1, HeadCompletes, Zenon
  <2> QED BY <1>2, <2>2, Zenon
<1>10. rest \in Seq(Symbols) /\ output' = rest
  <2>1. e \in 0..Len(content')
    BY <1>4, <1>6
  <2>2. rest \in Seq(Symbols)
    BY <1>4, <2>1, RestIs, Zenon
  <2>3. <<>> \o rest = rest
    BY <2>2
  <2> QED BY <1>2, <1>3, <2>2, <2>3, Zenon
<1> HIDE DEF head, rest
<1>11. thought' \in Seq(Letters) /\ Told' = IF IsBlank(head) THEN content ELSE content \o head
  <2>1. thought \o head \in Seq(Letters) /\ ToldIn(thought \o head) = ToldIn(thought) \o head
    BY <1>1, <1>9, ToldGrows
  <2>2. Told = ToldIn(thought) /\ Told' = ToldIn(thought')
    BY DEF Told, ToldIn
  <2> QED BY <1>1, <1>2, <1>3, <2>1, <2>2, Zenon
<1>12. ThoughtComesBeforeMarker'
  <2>1. Before(content', Told', b, e)
    BY <1>9, <1>11, Zenon
  <2> QED BY <2>1, ThoughtIs, Zenon DEF b, e
<1>13. ReaderInv'
  BY <1>2, <1>10, <1>12, Zenon DEF ReaderInv, rest, b, e
<1>14. PICK u \in {<<>>, head} : thought' = thought \o u
  BY <1>2, ReaderTypes, Zenon
<1>15. u \in Seq(Letters)
  <2>1. \A S, T : S \subseteq T => \A s \in Seq(S) : s \in Seq(T)
    OBVIOUS
  <2> QED BY <1>9, <1>14, <2>1, ReaderTypes, Zenon
<1>16. Grows(u, rest)
  BY <1>2, <1>4, <1>10, <1>11, <1>14, <1>15, Zenon DEF Grows
<1> QED BY <1>13, <1>16

\* A chunk of the stream keeps the invariant of the reader.
LEMMA ContentKept ==
  ASSUME StreamTypes, ReaderInv, NEW text \in Texts, ContentChunk(text)
  PROVE  ReaderInv' /\ \E u, w : Grows(u, w)
<1>1. CASE ~unmarked
  BY <1>1, OutputKept, Zenon
<1>2. CASE unmarked /\ Markers(content') = {}
  BY <1>2, ThinkingKept, Zenon
<1>3. CASE unmarked /\ Markers(content') # {}
  BY <1>3, SplitKept, Zenon
<1> QED BY <1>1, <1>2, <1>3, Zenon

\* Without a marker in the block the answer is what follows the first marker.
LEMMA SplitsAtMarker ==
  ASSUME NEW s \in Seq(Symbols), Markers(s) # {}, ~MarkerInBlock(s)
  PROVE  SplitAnswer(s) = Strip(SubSeq(s, MarkerEnd(s, Search(s)) + 1, Len(s)))
<1> DEFINE markers == {i \in Markers(s) : i > BlockEnd(s)}
<1>1. BlockEnd(s) \in Int
  BY BlockEndIs
<1>2. \A i \in Markers(s) : i \in Int
  BY MarkersAre
<1>3. markers = Markers(s)
  BY <1>1, <1>2 DEF MarkerInBlock
<1>4. Min(Markers(s)) = Search(s)
  BY Zenon DEF Min, Search
<1>5. SplitAnswer(s)
        = Strip(SubSeq(s, 1 + (IF markers = {} THEN BlockEnd(s) ELSE MarkerEnd(s, Min(markers))), Len(s)))
  BY Zenon DEF SplitAnswer
<1> HIDE DEF markers
<1>6. SplitAnswer(s) = Strip(SubSeq(s, 1 + MarkerEnd(s, Search(s)), Len(s)))
  BY <1>3, <1>4, <1>5, Zenon
<1>7. 1 + MarkerEnd(s, Search(s)) = MarkerEnd(s, Search(s)) + 1
  <2>1. Search(s) \in Markers(s)
    BY SearchIs
  <2>2. MarkerEnd(s, Search(s)) \in Int
    BY <2>1, MarkersAre
  <2> QED BY <2>2
<1> QED BY <1>6, <1>7, Zenon

\* The reader's invariant says that streaming and splitting divide a reply at the same place.
LEMMA ReturnedIsStreamed ==
  ASSUME StreamTypes, ReaderInv
  PROVE  StreamedIsReturned
<1>1. CASE unmarked
  <2>1. Markers(content) = {} /\ output = <<>> /\ Told = content /\ content \in Seq(Symbols)
    BY <1>1, ReaderTypes DEF ReaderInv
  <2>2. Len(content) \in Nat /\ Len(content) < Len(content) + 1
        /\ SubSeq(content, 1, Len(content)) = content
        /\ SubSeq(content, Len(content) + 1, Len(content) + 1 - 1) = <<>>
    BY <2>1
  <2>3. ThoughtComesBeforeMarker
    <3> DEFINE n == Len(content) + 1
    <3>1. ThoughtComesBeforeMarker
            <=> Before(content, Told, IF Markers(content) # {} THEN Search(content) ELSE n,
                       IF Markers(content) # {}
                       THEN MarkerEnd(content, IF Markers(content) # {} THEN Search(content) ELSE n) ELSE n)
      BY Zenon DEF ThoughtComesBeforeMarker, Before, Told
    <3> HIDE DEF n
    <3>2. ThoughtComesBeforeMarker <=> Before(content, content, n, n)
      BY <2>1, <3>1
    <3>3. Len(content) < n /\ SubSeq(content, Len(content) + 1, n - 1) = <<>>
      <4>1. Len(content) < n
        BY <2>2 DEF n
      <4>2. SubSeq(content, Len(content) + 1, n - 1) = SubSeq(content, Len(content) + 1, Len(content) + 1 - 1)
        BY DEF n
      <4> QED BY <2>2, <4>1, <4>2
    <3>4. IsBlank(SubSeq(content, Len(content) + 1, n - 1))
      BY <3>3, EmptyIsBlank
    <3>5. content = SubSeq(content, 1, Len(content))
      BY <2>2
    <3>6. Before(content, content, n, n)
      BY <3>3, <3>4, <3>5 DEF Before
    <3> QED BY <3>2, <3>6
  <2> QED BY <2>1, <2>3, Zenon DEF StreamedIsReturned, OutputIsReturned
<1>2. CASE ~unmarked
  <2>1. Markers(content) # {} /\ content \in Seq(Symbols)
    BY <1>2, ReaderTypes DEF ReaderInv
  <2>2. MarkerInBlock(content) \/ Strip(output) = SplitAnswer(content)
    BY <1>2, <2>1, SplitsAtMarker, Zenon DEF ReaderInv
  <2> QED BY <1>2, <2>1, <2>2, Zenon DEF ReaderInv, StreamedIsReturned, OutputIsReturned
<1> QED BY <1>1, <1>2
-----------------------------------------------------------------------------
(* The generator's marks *)

LEMMA OneIs == One(TRUE) = 1 /\ One(FALSE) = 0
BY DEF One

LEMMA FenceInThink ==
  ASSUME NEW s, NEW t, NEW f, NEW h, WellFormed(s, t, f, h)
  PROVE  f => t
<1>1. /\ s \in Seq(Marks) /\ t \in BOOLEAN /\ f \in BOOLEAN
      /\ \A n \in 0..Len(s) : ThinkIn(s, n) \in {0, 1} /\ FenceIn(s, n) \in 0..ThinkIn(s, n)
      /\ ThinkIn(s, Len(s)) = One(t) /\ FenceIn(s, Len(s)) = One(f)
  BY DEF WellFormed
<1>2. Len(s) \in 0..Len(s)
  BY <1>1
<1>3. One(f) \in 0..One(t)
  BY <1>1, <1>2
<1> QED BY <1>3 DEF One

LEMMA PutThink ==
  ASSUME NEW s, NEW f, NEW h, WellFormed(s, FALSE, f, h)
  PROVE  WellFormed(Append(s, <<"think">>), TRUE, f, h)
<1> DEFINE m == <<"think">>
<1>1. m \in Marks /\ m[1] = "think" /\ f \in BOOLEAN
  BY DEF Marks, WellFormed
<1> HIDE DEF m
<1>2. PICK t \in BOOLEAN, t2 \in BOOLEAN : t = FALSE /\ t2 = TRUE
  OBVIOUS
<1>3. /\ One(t2) = One(t) + One(m[1] = "think") - One(m[1] = "/think")
      /\ One(f) = One(f) + One(m[1] = "fence") - One(m[1] = "/fence")
      /\ f => t2
  BY <1>1, <1>2 DEF One
<1>4. m[1] # "heading" /\ m[1] # "text" /\ m[1] \notin {"answer", "content", "stopped"}
  BY <1>1
<1>5. WellFormed(s, t, f, h)
  BY <1>2
<1>6. WellFormed(Append(s, m), t2, f, h)
  BY <1>1, <1>2, <1>3, <1>4, <1>5, MarkIsPut
<1> QED BY <1>2, <1>6 DEF m

LEMMA PutEndThink ==
  ASSUME NEW s, NEW h, WellFormed(s, TRUE, FALSE, h)
  PROVE  WellFormed(Append(s, <<"/think">>), FALSE, FALSE, h)
<1> DEFINE m == <<"/think">>
<1>1. m \in Marks /\ m[1] = "/think"
  BY DEF Marks
<1> HIDE DEF m
<1>3. /\ One(FALSE) = One(TRUE) + One(m[1] = "think") - One(m[1] = "/think")
      /\ One(FALSE) = One(FALSE) + One(m[1] = "fence") - One(m[1] = "/fence")
  BY <1>1 DEF One
<1> QED BY <1>1, <1>3, MarkIsPut DEF m

LEMMA PutFence ==
  ASSUME NEW s, NEW h, WellFormed(s, TRUE, FALSE, h)
  PROVE  WellFormed(Append(s, <<"fence">>), TRUE, TRUE, h)
<1> DEFINE m == <<"fence">>
<1>1. m \in Marks /\ m[1] = "fence"
  BY DEF Marks
<1> HIDE DEF m
<1>2. PICK t \in BOOLEAN, f \in BOOLEAN, f2 \in BOOLEAN : t = TRUE /\ f = FALSE /\ f2 = TRUE
  OBVIOUS
<1>3. /\ One(t) = One(t) + One(m[1] = "think") - One(m[1] = "/think")
      /\ One(f2) = One(f) + One(m[1] = "fence") - One(m[1] = "/fence")
      /\ f2 => t
  BY <1>1, <1>2 DEF One
<1>4. m[1] # "heading" /\ m[1] # "text" /\ m[1] \notin {"answer", "content", "stopped"}
  BY <1>1
<1>5. WellFormed(s, t, f, h)
  BY <1>2
<1>6. WellFormed(Append(s, m), t, f2, h)
  BY <1>1, <1>2, <1>3, <1>4, <1>5, MarkIsPut
<1> QED BY <1>2, <1>6 DEF m

LEMMA PutEndFence ==
  ASSUME NEW s, NEW h, WellFormed(s, TRUE, TRUE, h)
  PROVE  WellFormed(Append(s, <<"/fence">>), TRUE, FALSE, h)
<1> DEFINE m == <<"/fence">>
<1>1. m \in Marks /\ m[1] = "/fence"
  BY DEF Marks
<1> HIDE DEF m
<1>3. /\ One(TRUE) = One(TRUE) + One(m[1] = "think") - One(m[1] = "/think")
      /\ One(FALSE) = One(TRUE) + One(m[1] = "fence") - One(m[1] = "/fence")
  BY <1>1 DEF One
<1> QED BY <1>1, <1>3, MarkIsPut DEF m

LEMMA PutHeading ==
  ASSUME NEW s, NEW h, NEW step \in StepNames, WellFormed(s, TRUE, FALSE, h)
  PROVE  WellFormed(Append(s, <<"heading", step>>), TRUE, FALSE, step)
<1> DEFINE m == <<"heading", step>>
<1>1. m \in Marks /\ m[1] = "heading" /\ m = <<"heading", step>>
  BY DEF Marks
<1> HIDE DEF m
<1>3. /\ One(TRUE) = One(TRUE) + One(m[1] = "think") - One(m[1] = "/think")
      /\ One(FALSE) = One(FALSE) + One(m[1] = "fence") - One(m[1] = "/fence")
  BY <1>1 DEF One
<1> QED BY <1>1, <1>3, MarkIsPut DEF m

LEMMA PutText ==
  ASSUME NEW s, NEW f, NEW c \in ChunkType, WellFormed(s, TRUE, f, c.step), f <=> c.kind # "thinking"
  PROVE  WellFormed(Append(s, <<"text", c>>), TRUE, f, c.step)
<1> DEFINE m == <<"text", c>>
<1>1. m \in Marks /\ m[1] = "text" /\ m[2] = c /\ f \in BOOLEAN
  BY DEF Marks, WellFormed
<1>2. c.step # "none"
  BY StepsAssumption DEF ChunkType, StepNames
<1> HIDE DEF m
<1>3. /\ One(TRUE) = One(TRUE) + One(m[1] = "think") - One(m[1] = "/think")
      /\ One(f) = One(f) + One(m[1] = "fence") - One(m[1] = "/fence")
  BY <1>1 DEF One
<1> QED BY <1>1, <1>2, <1>3, MarkIsPut DEF m

LEMMA PutPlain ==
  ASSUME NEW s, NEW h, NEW m \in Marks, WellFormed(s, FALSE, FALSE, h),
         m[1] \in {"answer", "content", "stopped", "summary"}
  PROVE  WellFormed(Append(s, m), FALSE, FALSE, h)
<1>3. /\ One(FALSE) = One(FALSE) + One(m[1] = "think") - One(m[1] = "/think")
      /\ One(FALSE) = One(FALSE) + One(m[1] = "fence") - One(m[1] = "/fence")
  BY DEF One
<1> QED BY <1>3, MarkIsPut

LEMMA WhenPut ==
  ASSUME NEW S, NEW s \in Seq(S), NEW m \in S, NEW p \in BOOLEAN
  PROVE  /\ s \o When(p, <<m>>) = IF p THEN Append(s, m) ELSE s
         /\ s \o <<m>> = Append(s, m)
BY DEF When
\* r shows no other chunks than s.
SameChunks(s, r) ==
  \A kinds \in {{"text", "answer"}, {"answer"}, {"content"}} : Of(kinds, r) = Of(kinds, s)

LEMMA MarkupIsNoChunk ==
  ASSUME NEW s \in Seq(Marks), NEW m \in Marks, m[1] \notin {"text", "answer", "content"}
  PROVE  SameChunks(s, Append(s, m))
<1>1. \A kinds \in {{"text", "answer"}, {"answer"}, {"content"}} : m[1] \notin kinds
  OBVIOUS
<1>2. \A kinds : Of(kinds, Append(s, m)) = IF m[1] \in kinds THEN Append(Of(kinds, s), m[2]) ELSE Of(kinds, s)
  BY OfAppend
<1> QED BY <1>1, <1>2, Zenon DEF SameChunks

LEMMA SameAgain ==
  /\ \A s : SameChunks(s, s)
  /\ \A s, r, q : SameChunks(s, r) /\ SameChunks(r, q) => SameChunks(s, q)
BY Zenon DEF SameChunks

LEMMA PlainMarks ==
  /\ \A m \in {<<"think">>, <<"/think">>, <<"fence">>, <<"/fence">>, <<"stopped">>, <<"summary">>} :
       m \in Marks /\ m[1] \notin {"text", "answer", "content"}
  /\ \A step \in StepNames : <<"heading", step>> \in Marks /\ <<"heading", step>>[1] \notin {"text", "answer", "content"}
  /\ \A c \in ChunkType : \A kind \in {"text", "answer"} : /\ <<kind, c>> \in Marks
                                                         /\ <<kind, c>>[1] = kind /\ <<kind, c>>[2] = c
BY DEF Marks

\* A chunk of work is shown under its heading.
LEMMA WorkIsShown ==
  ASSUME WellFormed(shown, thinking, fenced, heading), NEW c \in ChunkType, ShowWork(c), fresh \in BOOLEAN
  PROVE  /\ WellFormed(shown', TRUE, fenced', heading') /\ thinking' = TRUE
         /\ heading' = c.step /\ fresh' \in BOOLEAN
         /\ \E trims \in BOOLEAN : \E s \in Seq(Marks) :
              shown' = Append(s, <<"text", Trimmed(c, trims)>>) /\ SameChunks(shown, s)
<1> DEFINE newStep    == c.step # heading
           inFence    == fenced /\ ~newStep
           wantsFence == c.kind # "thinking"
           opens      == wantsFence /\ ~inFence
           trims      == opens \/ fresh
           d  == Trimmed(c, trims)
           s1 == shown \o When(~thinking, <<<<"think">>>>)
           s2 == s1 \o When(newStep /\ fenced, <<<<"/fence">>>>)
           s3 == s2 \o When(newStep, <<<<"heading", c.step>>>>)
           s4 == s3 \o When(opens, <<<<"fence">>>>)
           s5 == s4 \o When(~wantsFence /\ inFence, <<<<"/fence">>>>)
<1>0. /\ shown' = s5 \o <<<<"text", d>>>>
      /\ thinking' = TRUE /\ heading' = c.step /\ fenced' = wantsFence
      /\ fresh' = IF trims THEN IsBlank(c.text) ELSE fresh
  BY Zenon DEF ShowWork
<1>t. /\ shown \in Seq(Marks) /\ thinking \in BOOLEAN /\ fenced \in BOOLEAN /\ c.step \in StepNames
      /\ newStep \in BOOLEAN /\ inFence \in BOOLEAN /\ wantsFence \in BOOLEAN /\ opens \in BOOLEAN
      /\ trims \in BOOLEAN
  BY DEF WellFormed, ChunkType
<1>w. \A s \in Seq(Marks), m \in Marks, p \in BOOLEAN :
        s \o When(p, <<m>>) = (IF p THEN Append(s, m) ELSE s) /\ s \o <<m>> = Append(s, m)
  BY WhenPut
<1>b. /\ newStep => inFence = FALSE
      /\ ~newStep => inFence = fenced /\ heading = c.step
      /\ opens => inFence = FALSE
  BY <1>t
<1>s. \A s, t, f, h : WellFormed(s, t, f, h) => s \in Seq(Marks)
  BY Zenon DEF WellFormed
<1> HIDE DEF newStep, inFence, wantsFence, opens, trims, d
<1>1. WellFormed(s1, TRUE, fenced, heading) /\ SameChunks(shown, s1)
  <2>1. s1 = IF ~thinking THEN Append(shown, <<"think">>) ELSE shown
    BY <1>t, <1>w, PlainMarks
  <2> HIDE DEF s1
  <2>2. CASE thinking
    <3>1. thinking = TRUE /\ s1 = shown
      BY <1>t, <2>1, <2>2
    <3> QED BY <3>1, SameAgain
  <2>3. CASE ~thinking
    <3>1. thinking = FALSE /\ s1 = Append(shown, <<"think">>)
      BY <1>t, <2>1, <2>3
    <3>2. WellFormed(s1, TRUE, fenced, heading)
      BY <3>1, PutThink
    <3> QED BY <1>t, <3>1, <3>2, MarkupIsNoChunk, PlainMarks
  <2> QED BY <2>2, <2>3
<1> HIDE DEF s1
<1>2. WellFormed(s2, TRUE, inFence, heading) /\ SameChunks(shown, s2)
  <2>0. s1 \in Seq(Marks)
    BY <1>1, <1>s
  <2>1. s2 = IF newStep /\ fenced THEN Append(s1, <<"/fence">>) ELSE s1
    BY <1>t, <1>w, <2>0, PlainMarks
  <2> HIDE DEF s2
  <2>2. CASE newStep /\ fenced
    <3>1. fenced = TRUE /\ inFence = FALSE /\ s2 = Append(s1, <<"/fence">>)
      BY <1>t, <1>b, <2>1, <2>2
    <3>2. WellFormed(s2, TRUE, inFence, heading)
      BY <1>1, <3>1, PutEndFence
    <3>3. SameChunks(s1, s2)
      BY <2>0, <3>1, MarkupIsNoChunk, PlainMarks
    <3> QED BY <1>1, <3>2, <3>3, SameAgain
  <2>3. CASE ~ (newStep /\ fenced)
    <3>1. fenced = inFence /\ s2 = s1
      BY <1>t, <1>b, <2>1, <2>3
    <3> QED BY <1>1, <3>1
  <2> QED BY <2>2, <2>3
<1> HIDE DEF s2
<1>3. WellFormed(s3, TRUE, inFence, c.step) /\ SameChunks(shown, s3)
  <2>0. s2 \in Seq(Marks)
    BY <1>2, <1>s
  <2>1. s3 = IF newStep THEN Append(s2, <<"heading", c.step>>) ELSE s2
    BY <1>t, <1>w, <2>0, PlainMarks
  <2> HIDE DEF s3
  <2>2. CASE newStep
    <3>1. inFence = FALSE /\ s3 = Append(s2, <<"heading", c.step>>)
      BY <1>b, <2>1, <2>2
    <3>2. WellFormed(s3, TRUE, inFence, c.step)
      BY <1>t, <1>2, <3>1, PutHeading
    <3>3. SameChunks(s2, s3)
      BY <1>t, <2>0, <3>1, MarkupIsNoChunk, PlainMarks
    <3> QED BY <1>2, <3>2, <3>3, SameAgain
  <2>3. CASE ~newStep
    <3>1. heading = c.step /\ s3 = s2
      BY <1>b, <2>1, <2>3
    <3> QED BY <1>2, <3>1
  <2> QED BY <2>2, <2>3
<1> HIDE DEF s3
<1> DEFINE f4 == inFence \/ opens
<1>4. WellFormed(s4, TRUE, f4, c.step) /\ SameChunks(shown, s4) /\ f4 \in BOOLEAN
  <2>0. s3 \in Seq(Marks)
    BY <1>3, <1>s
  <2>1. s4 = IF opens THEN Append(s3, <<"fence">>) ELSE s3
    BY <1>t, <1>w, <2>0, PlainMarks
  <2> HIDE DEF s4
  <2>2. CASE opens
    <3>1. inFence = FALSE /\ f4 = TRUE /\ s4 = Append(s3, <<"fence">>)
      BY <1>b, <2>1, <2>2
    <3>2. WellFormed(s4, TRUE, f4, c.step)
      BY <1>3, <3>1, PutFence
    <3>3. SameChunks(s3, s4)
      BY <2>0, <3>1, MarkupIsNoChunk, PlainMarks
    <3> QED BY <1>3, <3>1, <3>2, <3>3, SameAgain
  <2>3. CASE ~opens
    <3>1. f4 = inFence /\ s4 = s3
      BY <1>t, <2>1, <2>3
    <3> QED BY <1>t, <1>3, <3>1
  <2> QED BY <2>2, <2>3
<1> HIDE DEF s4
<1>5. WellFormed(s5, TRUE, wantsFence, c.step) /\ SameChunks(shown, s5)
  <2>0. s4 \in Seq(Marks)
    BY <1>4, <1>s
  <2>1. s5 = IF ~wantsFence /\ inFence THEN Append(s4, <<"/fence">>) ELSE s4
    BY <1>t, <1>w, <2>0, PlainMarks
  <2>b. /\ ~wantsFence /\ inFence => f4 = TRUE /\ wantsFence = FALSE
        /\ ~ (~wantsFence /\ inFence) => f4 = wantsFence
    BY <1>t DEF opens
  <2> HIDE DEF s5
  <2>2. CASE ~wantsFence /\ inFence
    <3>1. f4 = TRUE /\ wantsFence = FALSE /\ s5 = Append(s4, <<"/fence">>)
      BY <2>b, <2>1, <2>2
    <3>2. WellFormed(s5, TRUE, wantsFence, c.step)
      BY <1>4, <3>1, PutEndFence
    <3>3. SameChunks(s4, s5)
      BY <2>0, <3>1, MarkupIsNoChunk, PlainMarks
    <3> QED BY <1>4, <3>2, <3>3, SameAgain
  <2>3. CASE ~ (~wantsFence /\ inFence)
    <3>1. f4 = wantsFence /\ s5 = s4
      BY <2>b, <2>1, <2>3
    <3> QED BY <1>4, <3>1
  <2> QED BY <2>2, <2>3
<1> HIDE DEF s5
<1>6. d \in ChunkType /\ d.step = c.step /\ d.kind = c.kind
  BY <1>t, TrimmedIsSolid DEF d
<1>7. s5 \in Seq(Marks) /\ shown' = Append(s5, <<"text", d>>)
  <2>1. s5 \in Seq(Marks)
    BY <1>5, <1>s
  <2> QED BY <1>0, <1>6, <1>w, <2>1, PlainMarks
<1>8. WellFormed(shown', TRUE, wantsFence, c.step)
  <2>1. wantsFence <=> d.kind # "thinking"
    BY <1>6 DEF wantsFence
  <2>2. WellFormed(s5, TRUE, wantsFence, d.step)
    BY <1>5, <1>6
  <2> QED BY <1>6, <1>7, <2>1, <2>2, PutText
<1>9. fresh' \in BOOLEAN
  BY <1>0, <1>t DEF IsBlank
<1> QED BY <1>0, <1>t, <1>5, <1>7, <1>8, <1>9 DEF d
LEMMA TwoPut ==
  ASSUME NEW S, NEW s \in Seq(S), NEW a \in S, NEW b \in S
  PROVE  s \o (<<a>> \o <<b>>) = Append(Append(s, a), b) /\ s \o (<<>> \o <<b>>) = Append(s, b) /\ s \o <<>> = s
OBVIOUS

LEMMA TwoMarksPut ==
  \A s \in Seq(Marks), a, b \in Marks :
    /\ s \o (<<a>> \o <<b>>) = Append(Append(s, a), b) /\ s \o (<<>> \o <<b>>) = Append(s, b)
    /\ s \o <<>> = s
BY TwoPut

LEMMA ThinkingCloses ==
  ASSUME WellFormed(shown, thinking, fenced, heading)
  PROVE  /\ WellFormed(shown \o CloseThinking, FALSE, FALSE, heading)
         /\ SameChunks(shown, shown \o CloseThinking)
         /\ (IF thinking THEN FALSE ELSE fenced) = FALSE
<1>1. shown \in Seq(Marks) /\ thinking \in BOOLEAN /\ fenced \in BOOLEAN /\ (fenced => thinking)
  BY FenceInThink DEF WellFormed
<1>2. <<"/fence">> \in Marks /\ <<"/think">> \in Marks
  BY PlainMarks
<1>3. \A s \in Seq(Marks), a, b \in Marks :
        /\ s \o (<<a>> \o <<b>>) = Append(Append(s, a), b) /\ s \o (<<>> \o <<b>>) = Append(s, b)
        /\ s \o <<>> = s
  BY TwoMarksPut, Zenon
<1>4. CASE thinking /\ fenced
  <2> DEFINE s == Append(shown, <<"/fence">>)
             r == Append(s, <<"/think">>)
  <2>1. thinking = TRUE /\ fenced = TRUE
    BY <1>1, <1>4
  <2>2. shown \o CloseThinking = r
    BY <1>1, <1>2, <1>3, <1>4, Zenon DEF CloseThinking, When
  <2>3. WellFormed(s, TRUE, FALSE, heading)
    BY <2>1, PutEndFence
  <2>4. SameChunks(shown, s)
    BY <1>1, MarkupIsNoChunk, PlainMarks
  <2> HIDE DEF s
  <2>5. WellFormed(r, FALSE, FALSE, heading)
    BY <2>3, PutEndThink
  <2>6. SameChunks(s, r)
    <3>1. s \in Seq(Marks)
      BY <2>3 DEF WellFormed
    <3> QED BY <3>1, MarkupIsNoChunk, PlainMarks
  <2> HIDE DEF r
  <2>7. SameChunks(shown, r)
    BY <2>4, <2>6, SameAgain
  <2> QED BY <1>4, <2>2, <2>5, <2>7
<1>5. CASE thinking /\ ~fenced
  <2> DEFINE r == Append(shown, <<"/think">>)
  <2>1. thinking = TRUE /\ fenced = FALSE
    BY <1>1, <1>5
  <2>2. shown \o CloseThinking = r
    BY <1>1, <1>2, <1>3, <1>5, Zenon DEF CloseThinking, When
  <2>5. WellFormed(r, FALSE, FALSE, heading)
    BY <2>1, PutEndThink
  <2>6. SameChunks(shown, r)
    BY <1>1, MarkupIsNoChunk, PlainMarks
  <2> HIDE DEF r
  <2> QED BY <1>5, <2>2, <2>5, <2>6
<1>6. CASE ~thinking
  <2>1. thinking = FALSE /\ fenced = FALSE
    BY <1>1, <1>6
  <2>2. shown \o CloseThinking = shown
    BY <1>1, <1>2, <1>3, <1>6, Zenon DEF CloseThinking, When
  <2> QED BY <2>1, <2>2, SameAgain
<1> QED BY <1>1, <1>4, <1>5, <1>6

\* A chunk of the answer is shown after the think block.
LEMMA AnswerIsShown ==
  ASSUME WellFormed(shown, thinking, fenced, heading), NEW c \in ChunkType, ShowAnswer(c)
  PROVE  /\ WellFormed(shown', thinking', fenced', heading') /\ thinking' = FALSE
         /\ heading' = heading /\ fresh' = fresh /\ answered' = TRUE
         /\ \E s \in Seq(Marks) : shown' = Append(s, <<"answer", c>>) /\ SameChunks(shown, s)
<1> DEFINE s == shown \o CloseThinking
<1>1. WellFormed(s, FALSE, FALSE, heading) /\ SameChunks(shown, s)
  BY ThinkingCloses
<1>2. s \in Seq(Marks)
  BY <1>1 DEF WellFormed
<1>3. /\ shown' = s \o <<<<"answer", c>>>> /\ thinking' = FALSE /\ heading' = heading
      /\ fenced' = (IF thinking THEN FALSE ELSE fenced) /\ answered' = TRUE /\ fresh' = fresh
  BY DEF ShowAnswer
<1>4. fenced' = FALSE
  BY <1>3, ThinkingCloses
<1> HIDE DEF s
<1>5. <<"answer", c>> \in Marks /\ <<"answer", c>>[1] = "answer"
  BY PlainMarks
<1>6. shown' = Append(s, <<"answer", c>>)
  BY <1>2, <1>3, <1>5, WhenPut
<1>7. WellFormed(shown', FALSE, FALSE, heading)
  BY <1>1, <1>5, <1>6, PutPlain
<1> QED BY <1>1, <1>2, <1>3, <1>4, <1>6, <1>7

\* How the run ended is shown last.
LEMMA EndIsShown ==
  ASSUME WellFormed(shown, thinking, fenced, heading), answered \in BOOLEAN, NEW item \in EndItems,
         shown' = shown \o CloseThinking \o LastWords(item)
  PROVE  /\ WellFormed(shown', FALSE, FALSE, heading)
         /\ \A kinds \in {{"text", "answer"}, {"answer"}} : Of(kinds, shown') = Of(kinds, shown)
         /\ item[1] = "error" => CountIn(shown', "stopped", Len(shown')) # 0
         /\ item[1] # "error" => /\ item[1] = "done" /\ item[2] \in Seq(Letters)
                                 /\ Of({"content"}, shown')
                                      = IF answered THEN Of({"content"}, shown)
                                                    ELSE Append(Of({"content"}, shown), item[2])
<1> DEFINE s == shown \o CloseThinking
<1>1. WellFormed(s, FALSE, FALSE, heading) /\ SameChunks(shown, s)
  BY ThinkingCloses
<1>2. s \in Seq(Marks) /\ shown' = s \o LastWords(item)
  BY <1>1 DEF WellFormed
<1> HIDE DEF s
<1>3. \A kinds \in {{"text", "answer"}, {"answer"}, {"content"}} : Of(kinds, s) = Of(kinds, shown)
  BY <1>1 DEF SameChunks
<1>w. \A r \in Seq(Marks), m \in Marks, p \in BOOLEAN :
        r \o When(p, <<m>>) = (IF p THEN Append(r, m) ELSE r) /\ r \o <<m>> = Append(r, m)
  BY WhenPut
<1>4. CASE item[1] = "error"
  <2>1. shown' = Append(s, <<"stopped">>)
    BY <1>2, <1>4, <1>w, PlainMarks DEF LastWords
  <2>2. <<"stopped">> \in Marks /\ <<"stopped">>[1] = "stopped"
    BY PlainMarks
  <2>3. WellFormed(shown', FALSE, FALSE, heading)
    BY <1>1, <2>1, <2>2, PutPlain
  <2>4. SameChunks(s, shown')
    BY <1>2, <2>1, MarkupIsNoChunk, PlainMarks
  <2>5. CountIn(shown', "stopped", Len(shown')) # 0
    <3>1. /\ CountIn(Append(s, <<"stopped">>), "stopped", Len(s) + 1) = CountIn(s, "stopped", Len(s)) + One(TRUE)
          /\ \A n \in 0..Len(s) : CountIn(s, "stopped", n) \in Nat
      <4> DEFINE m == <<"stopped">>
      <4>0. m \in Marks /\ m[1] = "stopped"
        BY <2>2
      <4> HIDE DEF m
      <4>1. \A mark : /\ CountIn(Append(s, m), mark, Len(s) + 1) = CountIn(s, mark, Len(s)) + One(m[1] = mark)
                     /\ \A n \in 0..Len(s) : CountIn(s, mark, n) \in Nat
        BY <1>2, <4>0, CountAppend
      <4>2. One(m[1] = "stopped") = One(TRUE)
        BY <4>0 DEF One
      <4>3. CountIn(Append(s, m), "stopped", Len(s) + 1) = CountIn(s, "stopped", Len(s)) + One(TRUE)
        BY <4>1, <4>2
      <4> QED BY <4>1, <4>3, Zenon DEF m
    <3>2. Len(shown') = Len(s) + 1 /\ Len(s) \in 0..Len(s)
      BY <1>2, <2>1, <2>2
    <3>3. CountIn(shown', "stopped", Len(shown')) = CountIn(s, "stopped", Len(s)) + 1 /\ CountIn(s, "stopped", Len(s)) \in Nat
      BY <2>1, <3>1, <3>2, OneIs
    <3> QED BY <3>3
  <2> QED BY <1>3, <1>4, <2>3, <2>4, <2>5, Zenon DEF SameChunks
<1>5. CASE item[1] # "error"
  <2> DEFINE m == <<"content", item[2]>>
             r == IF answered THEN s ELSE Append(s, m)
  <2>1. item[1] = "done" /\ item[2] \in Seq(Letters)
    BY <1>5 DEF EndItems
  <2>2. m \in Marks /\ m[1] = "content" /\ m[2] = item[2]
    BY <2>1 DEF Marks
  <2> HIDE DEF m
  <2>3. shown' = s \o (When(~answered, <<m>>) \o <<<<"summary">>>>)
    BY <1>2, <1>5, Zenon DEF LastWords, m
  <2>4. <<"summary">> \in Marks /\ <<"summary">>[1] = "summary"
    BY PlainMarks
  <2>5. shown' = Append(r, <<"summary">>)
    <3>1. \A q \in Seq(Marks), a, b \in Marks :
            q \o (<<a>> \o <<b>>) = Append(Append(q, a), b) /\ q \o (<<>> \o <<b>>) = Append(q, b)
      BY TwoMarksPut, Zenon
    <3>2. CASE answered
      <4>1. shown' = s \o (<<>> \o <<<<"summary">>>>)
        BY <2>3, <3>2, Zenon DEF When
      <4> QED BY <1>2, <2>2, <2>4, <3>1, <3>2, <4>1, Zenon
    <3>3. CASE ~answered
      <4>1. shown' = s \o (<<m>> \o <<<<"summary">>>>)
        BY <2>3, <3>3, Zenon DEF When
      <4> QED BY <1>2, <2>2, <2>4, <3>1, <3>3, <4>1, Zenon
    <3> QED BY <3>2, <3>3
  <2>6. WellFormed(r, FALSE, FALSE, heading) /\ r \in Seq(Marks)
    <3>1. WellFormed(Append(s, m), FALSE, FALSE, heading)
      BY <1>1, <2>2, PutPlain
    <3> QED BY <1>1, <3>1, Zenon DEF WellFormed
  <2>7. /\ \A kinds \in {{"text", "answer"}, {"answer"}} : Of(kinds, r) = Of(kinds, s)
        /\ Of({"content"}, r) = IF answered THEN Of({"content"}, s) ELSE Append(Of({"content"}, s), item[2])
    <3>1. \A kinds : Of(kinds, Append(s, m)) = IF m[1] \in kinds THEN Append(Of(kinds, s), m[2]) ELSE Of(kinds, s)
      BY <1>2, <2>2, OfAppend
    <3>2. (\A kinds \in {{"text", "answer"}, {"answer"}} : m[1] \notin kinds) /\ m[1] \in {"content"}
      BY <2>2
    <3> QED BY <2>2, <3>1, <3>2, Zenon
  <2> HIDE DEF r
  <2>8. WellFormed(shown', FALSE, FALSE, heading)
    BY <2>4, <2>5, <2>6, PutPlain
  <2>9. SameChunks(r, shown')
    BY <2>5, <2>6, MarkupIsNoChunk, PlainMarks
  <2>10. \A kinds \in {{"text", "answer"}, {"answer"}} : Of(kinds, shown') = Of(kinds, shown)
    BY <1>3, <2>7, <2>9, Zenon DEF SameChunks
  <2>11. Of({"content"}, shown') = Of({"content"}, r) /\ Of({"content"}, s) = Of({"content"}, shown)
    BY <1>3, <2>9, Zenon DEF SameChunks
  <2> QED BY <1>5, <2>1, <2>7, <2>8, <2>10, <2>11, Zenon
<1> QED BY <1>4, <1>5
-----------------------------------------------------------------------------
(* Ends *)

LEMMA GreatestNat ==
  ASSUME NEW n \in Nat, NEW S, S \subseteq 0..n, S # {}
  PROVE  \E m \in S : \A k \in S : m >= k
<1> DEFINE T == {j \in 0..n : n - j \in S}
<1>1. T \subseteq Nat /\ \A i \in S : n - i \in T
  OBVIOUS
<1>2. T # {}
  BY <1>1
<1>3. PICK t \in T : \A k \in T : t <= k
  BY <1>1, <1>2, LeastNat
<1>4. n - t \in S /\ \A k \in S : t <= n - k
  BY <1>1, <1>3
<1>5. \A k \in S : n - t >= k
  BY <1>3, <1>4
<1> QED BY <1>4, <1>5

LEMMA StripType ==
  ASSUME NEW S, NEW s \in Seq(S)
  PROVE  Strip(s) \in Seq(S)
<1> DEFINE solid == {i \in 1..Len(s) : s[i] # " "}
           a == CHOOSE i \in solid : \A k \in solid : i <= k
           z == CHOOSE i \in solid : \A k \in solid : i >= k
<1>1. Strip(s) = IF solid = {} THEN <<>> ELSE SubSeq(s, a, z)
  BY Zenon DEF Strip
<1>s. solid \subseteq 1..Len(s)
  BY Zenon
<1> HIDE DEF solid
<1>2. solid \subseteq 1..Len(s) /\ Len(s) \in Nat /\ solid \subseteq Nat /\ solid \subseteq 0..Len(s)
  BY <1>s
<1>3. CASE solid = {}
  <2>1. <<>> \in Seq(S)
    OBVIOUS
  <2> QED BY <1>1, <1>3, <2>1
<1>4. CASE solid # {}
  <2>1. a \in solid
    <3>1. \E i \in solid : \A k \in solid : i <= k
      BY <1>2, <1>4, LeastNat
    <3> QED BY <3>1, Zenon
  <2>2. z \in solid
    <3>1. \E i \in solid : \A k \in solid : i >= k
      BY <1>2, <1>4, GreatestNat
    <3> QED BY <3>1, Zenon
  <2> HIDE DEF a, z
  <2>3. \A i, j \in 1..Len(s) : SubSeq(s, i, j) \in Seq(S)
    OBVIOUS
  <2> QED BY <1>1, <1>2, <1>4, <2>1, <2>2, <2>3
<1> QED BY <1>3, <1>4

LEMMA StripEmpty == Strip(<<>>) = <<>>
<1>1. 1..Len(<<>>) = {}
  OBVIOUS
<1>2. {i \in 1..Len(<<>>) : <<>>[i] # " "} = {}
  BY <1>1
<1> QED BY <1>2, Zenon DEF Strip

LEMMA SplitAnswerType ==
  ASSUME NEW s \in Seq(Symbols)
  PROVE  SplitAnswer(s) \in Seq(Symbols)
<1> DEFINE markers == {i \in Markers(s) : i > BlockEnd(s)}
           m == Min(markers)
           e == IF markers = {} THEN BlockEnd(s) ELSE MarkerEnd(s, m)
<1>1. e \in 0..Len(s)
  <2>1. CASE markers = {}
    BY <2>1, BlockEndIs
  <2>2. CASE markers # {}
    <3>1. markers \subseteq Markers(s) /\ markers \subseteq Nat
      BY MarkersAre
    <3> HIDE DEF markers
    <3>2. m \in markers
      BY <2>2, <3>1, LeastIsMin
    <3> HIDE DEF m
    <3>3. m \in 1..Len(s) /\ MarkerEnd(s, m) \in {m + 1, m + 2} /\ MarkerEnd(s, m) <= Len(s)
      BY <3>1, <3>2, MarkersAre
    <3>4. MarkerEnd(s, m) \in 0..Len(s)
      BY <3>3
    <3> QED BY <2>2, <3>4
  <2> QED BY <2>1, <2>2
<1>2. SplitAnswer(s) = Strip(SubSeq(s, 1 + e, Len(s)))
  BY Zenon DEF SplitAnswer
<1> HIDE DEF e
<1>3. SubSeq(s, 1 + e, Len(s)) = SubSeq(s, e + 1, Len(s))
  BY <1>1
<1>4. SubSeq(s, e + 1, Len(s)) \in Seq(Symbols)
  BY <1>1, RestIs, Zenon
<1> QED BY <1>2, <1>3, <1>4, StripType

LEMMA OutcomesAre ==
  ASSUME StreamTypes
  PROVE  /\ Outcomes \subseteq EndItems
         /\ \A item \in Outcomes : item[1] # "delta"
         /\ \A item \in Outcomes : item[1] # "error" =>
              item[2] = (IF status = "complete" THEN SplitAnswer(content) ELSE <<"x">>) /\ status # "reading"
<1>1. <<"x">> \in Seq(Letters) /\ SplitAnswer(content) \in Seq(Letters)
  <2>1. "x" \in Letters /\ Symbols \subseteq Letters
    BY StreamAssumption DEF Letters
  <2>2. SplitAnswer(content) \in Seq(Symbols)
    BY ReaderTypes, SplitAnswerType
  <2> QED BY <2>1, <2>2
<1>2. status \in {"none", "reading", "complete"}
  BY DEF StreamTypes
<1>3. \A text \in Results : /\ text \in Seq(Letters) /\ status # "reading"
                           /\ text = IF status = "complete" THEN SplitAnswer(content) ELSE <<"x">>
  <2>1. CASE status = "none"
    <3>1. Results = {<<"x">>}
      BY <2>1 DEF Results
    <3> QED BY <1>1, <2>1, <3>1
  <2>2. CASE status = "reading"
    <3>1. Results = {}
      BY <2>2 DEF Results
    <3> QED BY <3>1
  <2>3. CASE status = "complete"
    <3>1. Results = {SplitAnswer(content)} \ {<<>>}
      BY <2>3 DEF Results
    <3> QED BY <1>1, <2>3, <3>1
  <2> QED BY <1>2, <2>1, <2>2, <2>3
<1>4. \A item \in Outcomes : item = <<"error">> \/ \E text \in Results : item = <<"done", text>>
  BY DEF Outcomes
<1>5. \A text : <<"done", text>>[1] = "done" /\ <<"done", text>>[2] = text
  OBVIOUS
<1>6. <<"error">>[1] = "error"
  OBVIOUS
<1>7. Outcomes \subseteq EndItems
  BY <1>3, <1>4 DEF EndItems
<1>8. \A item \in Outcomes : item[1] # "delta"
  BY <1>4, <1>5, <1>6
<1>9. \A item \in Outcomes : item[1] # "error" =>
              item[2] = (IF status = "complete" THEN SplitAnswer(content) ELSE <<"x">>) /\ status # "reading"
  BY <1>3, <1>4, <1>5, <1>6, Zenon
<1> QED BY <1>7, <1>8, <1>9
-----------------------------------------------------------------------------
(* The queue *)

\* Chunks are delivered while the run is not over.
LEMMA ChunksAreQueued ==
  ASSUME StreamTypes, QueueInv, relay # "over", NEW chunks \in Seq(ChunkType), Deliver(chunks),
         shown' = shown, reader' = reader
  PROVE  sent' \in Seq(ChunkType) /\ queue' \in Seq(Items) /\ QueueInv' /\ reader # "returned"
<1> DEFINE n == Len(Taken)
           w == Waiting
           items == [i \in 1..Len(chunks) |-> <<"delta", chunks[i]>>]
<1>1. sent \in Seq(ChunkType) /\ queue \in Seq(Items)
  BY DEF StreamTypes
<1>2. items \in Seq(Items) /\ Len(items) = Len(chunks) /\ \A i \in 1..Len(chunks) : items[i] = <<"delta", chunks[i]>>
  <2>1. \A i \in 1..Len(chunks) : <<"delta", chunks[i]>> \in Items
    BY DEF Items
  <2> QED BY <2>1
<1>3. sent' = sent \o chunks /\ queue' = queue \o items /\ Taken' = Taken
  BY DEF Deliver, Taken
<1> HIDE DEF items
<1>4. /\ Taken \in Seq(ChunkType) /\ w \in Nat /\ w = Len(sent) - n /\ Len(queue) = w
      /\ \A i \in 1..n : Solid(Taken[i]) = Solid(sent[i])
      /\ \A i \in 1..w : queue[i] = <<"delta", sent[n + i]>>
      /\ reader # "returned"
  BY DEF QueueInv, Waiting
<1>5. Waiting' = Len(sent') - n
  BY <1>3 DEF Waiting
<1> HIDE DEF w
<1>6. n \in Nat
  BY <1>4
<1> HIDE DEF n
<1>7. /\ sent' \in Seq(ChunkType) /\ Len(sent') = Len(sent) + Len(chunks) /\ Len(sent) \in Nat /\ Len(chunks) \in Nat
      /\ \A i \in 1..(Len(sent) + Len(chunks)) : sent'[i] = IF i <= Len(sent) THEN sent[i] ELSE chunks[i - Len(sent)]
  BY <1>1, <1>3, ConcatIs
<1>8. /\ queue' \in Seq(Items) /\ Len(queue') = w + Len(chunks)
      /\ \A i \in 1..(w + Len(chunks)) : queue'[i] = IF i <= w THEN queue[i] ELSE items[i - w]
  <2>1. /\ queue \o items \in Seq(Items) /\ Len(queue \o items) = Len(queue) + Len(items)
        /\ \A i \in 1..(Len(queue) + Len(items)) :
             (queue \o items)[i] = IF i <= Len(queue) THEN queue[i] ELSE items[i - Len(queue)]
    BY <1>1, <1>2, ConcatIs, Zenon
  <2>2. Len(queue) = w /\ Len(items) = Len(chunks)
    BY <1>2, <1>4, Zenon
  <2> QED BY <1>3, <2>1, <2>2, Zenon
<1>9. Waiting' = w + Len(chunks) /\ Waiting' \in Nat
  BY <1>4, <1>5, <1>6, <1>7
<1>10. ASSUME NEW i \in 1..Waiting' PROVE queue'[i] = <<"delta", sent'[n + i]>>
  <2>1. i \in 1..(w + Len(chunks)) /\ n + i \in 1..(Len(sent) + Len(chunks))
    BY <1>4, <1>6, <1>7, <1>9
  <2>2. CASE i <= w
    <3>1. i \in 1..w /\ n + i <= Len(sent)
      BY <1>4, <1>6, <1>7, <2>1, <2>2
    <3>2. queue'[i] = queue[i] /\ sent'[n + i] = sent[n + i]
      BY <1>7, <1>8, <2>1, <2>2, <3>1
    <3> QED BY <1>4, <3>1, <3>2
  <2>3. CASE ~ (i <= w)
    <3>1. i - w \in 1..Len(chunks) /\ ~ (n + i <= Len(sent)) /\ (n + i) - Len(sent) = i - w
      BY <1>4, <1>6, <1>7, <2>1, <2>3
    <3>2. queue'[i] = items[i - w]
      BY <1>8, <2>1, <2>3, Zenon
    <3>3. sent'[n + i] = chunks[(n + i) - Len(sent)]
      BY <1>7, <2>1, <3>1, Zenon
    <3>4. sent'[n + i] = chunks[i - w]
      BY <3>1, <3>3, Zenon
    <3> QED BY <1>2, <3>1, <3>2, <3>4, Zenon
  <2> QED BY <2>2, <2>3
<1>11. \A i \in 1..n : Solid(Taken[i]) = Solid(sent'[i])
  <2>1. \A i \in 1..n : i \in 1..(Len(sent) + Len(chunks)) /\ i <= Len(sent)
    BY <1>4, <1>6, <1>7
  <2> QED BY <1>4, <1>7, <2>1
<1>12. Len(queue') = Waiting' /\ Waiting' # Waiting' + 1
  BY <1>8, <1>9
<1> QED
  <2>1. QueueInv'
    BY <1>3, <1>4, <1>9, <1>10, <1>11, <1>12 DEF QueueInv, n
  <2> QED BY <1>4, <1>7, <1>8, <2>1

\* The next chunk is taken out of the queue and shown.
LEMMA ChunkIsTaken ==
  ASSUME StreamTypes, QueueInv, queue # <<>>, Head(queue)[1] = "delta"
  PROVE  /\ Head(queue) = <<"delta", sent[Len(Taken) + 1]>>
         /\ Len(Taken) + 1 \in 1..Len(sent)
         /\ \A d \in ChunkType :
              /\ queue' = Tail(queue) /\ Taken' = Append(Taken, d) /\ Solid(d) = Solid(sent[Len(Taken) + 1])
              /\ UNCHANGED <<sent, relay, reader, content, status>> /\ reader # "returned"
              => QueueInv' /\ queue' \in Seq(Items)
<1> DEFINE n == Len(Taken)
           w == Waiting
<1>1. sent \in Seq(ChunkType) /\ queue \in Seq(Items)
  BY DEF StreamTypes
<1>2. /\ Taken \in Seq(ChunkType) /\ w \in Nat /\ w = Len(sent) - n /\ Len(queue) \in {w, w + 1}
      /\ \A i \in 1..n : Solid(Taken[i]) = Solid(sent[i])
      /\ \A i \in 1..w : queue[i] = <<"delta", sent[n + i]>>
      /\ Len(queue) = w + 1 => relay = "over" /\ queue[Len(queue)] \in Outcomes
  BY DEF QueueInv, Waiting
<1>3. Head(queue) = queue[1] /\ Len(queue) \in Nat /\ Len(queue) # 0
  BY <1>1
<1> HIDE DEF w
<1>4. w # 0
  <2> SUFFICES ASSUME w = 0 PROVE FALSE
    OBVIOUS
  <2>1. Len(queue) = w + 1 /\ Len(queue) = 1
    BY <1>2, <1>3
  <2>2. queue[1] \in Outcomes
    BY <1>2, <2>1
  <2> QED BY <1>3, <2>2, OutcomesAre
<1>5. n \in Nat /\ Len(sent) \in Nat
  BY <1>1, <1>2
<1> HIDE DEF n
<1>6. 1 \in 1..w /\ n + 1 \in 1..Len(sent)
  BY <1>2, <1>4, <1>5
<1>7. Head(queue) = <<"delta", sent[n + 1]>>
  BY <1>2, <1>3, <1>6
<1>8. ASSUME NEW d \in ChunkType,
             queue' = Tail(queue), Taken' = Append(Taken, d), Solid(d) = Solid(sent[n + 1]),
             UNCHANGED <<sent, relay, reader, content, status>>, reader # "returned"
      PROVE  QueueInv' /\ queue' \in Seq(Items)
  <2>1. Taken' \in Seq(ChunkType) /\ Len(Taken') = n + 1 /\ \A i \in 1..(n + 1) : Taken'[i] = IF i <= n THEN Taken[i] ELSE d
    BY <1>2, <1>8 DEF n
  <2>2. Waiting' = w - 1 /\ w - 1 \in Nat
    <3>1. Waiting' = Len(sent) - Len(Taken')
      BY <1>8 DEF Waiting
    <3> QED BY <1>2, <1>4, <1>5, <2>1, <3>1
  <2>3. /\ queue' \in Seq(Items) /\ Len(queue') = Len(queue) - 1
        /\ \A i \in 1..(Len(queue) - 1) : queue'[i] = queue[i + 1]
    BY <1>1, <1>8
  <2>4. \A i \in 1..(n + 1) : Solid(Taken'[i]) = Solid(sent[i])
    <3> SUFFICES ASSUME NEW i \in 1..(n + 1) PROVE Solid(Taken'[i]) = Solid(sent[i])
      OBVIOUS
    <3>1. CASE i <= n
      BY <1>2, <1>5, <2>1, <3>1
    <3>2. CASE ~ (i <= n)
      <4>1. i = n + 1
        BY <1>5, <3>2
      <4> QED BY <1>8, <2>1, <3>2, <4>1
    <3> QED BY <3>1, <3>2
  <2>5. \A i \in 1..(w - 1) : queue'[i] = <<"delta", sent[n + 1 + i]>>
    <3> SUFFICES ASSUME NEW i \in 1..(w - 1) PROVE queue'[i] = <<"delta", sent[n + 1 + i]>>
      OBVIOUS
    <3>1. i \in 1..(Len(queue) - 1) /\ i + 1 \in 1..w /\ n + (i + 1) = n + 1 + i
      BY <1>2, <1>5
    <3> QED BY <1>2, <2>3, <3>1
  <2>6. Len(queue') \in {w - 1, w - 1 + 1}
    BY <1>2, <2>3
  <2>7. Outcomes' = Outcomes
    <3>1. Results' = Results
      BY <1>8, Zenon DEF Results, SplitAnswer, BlockEnd, Markers
    <3> QED BY <3>1 DEF Outcomes
  <2>8. Len(queue') = w - 1 + 1 => relay' = "over" /\ queue'[Len(queue')] \in Outcomes'
    <3> SUFFICES ASSUME Len(queue') = w - 1 + 1 PROVE relay' = "over" /\ queue'[Len(queue')] \in Outcomes'
      OBVIOUS
    <3>1. Len(queue) = w + 1 /\ Len(queue') \in 1..(Len(queue) - 1) /\ Len(queue') + 1 = Len(queue)
      BY <1>2, <1>4, <2>3
    <3> QED BY <1>2, <1>8, <2>3, <2>7, <3>1
  <2> QED BY <1>8, <2>1, <2>2, <2>3, <2>4, <2>5, <2>6, <2>8 DEF QueueInv
<1> QED BY <1>6, <1>7, <1>8 DEF n
-----------------------------------------------------------------------------
(* The answer *)

LEMMA AddedIs ==
  ASSUME NEW S, NEW s \in Seq(S), NEW u \in Seq(S)
  PROVE  Added(s, s \o u) = u /\ (s \o u # s <=> u # <<>>)
<1>1. SubSeq(s \o u, Len(s) + 1, Len(s \o u)) = SubSeq(s, Len(s) + 1, Len(s)) \o u
  <2>1. Len(s) \in 0..Len(s)
    OBVIOUS
  <2> QED BY <2>1, PieceToTheEnd, Zenon
<1>2. SubSeq(s, Len(s) + 1, Len(s)) = <<>> /\ <<>> \o u = u
  OBVIOUS
<1>3. s \o u # s <=> u # <<>>
  <2>1. u = <<>> => s \o u = s
    OBVIOUS
  <2>2. Len(s \o u) = Len(s) + Len(u) /\ Len(s) \in Nat /\ Len(u) \in Nat /\ (Len(u) = 0 => u = <<>>)
    OBVIOUS
  <2>3. s \o u = s => Len(u) = 0
    BY <2>2
  <2> QED BY <2>1, <2>2, <2>3
<1> QED BY <1>1, <1>2, <1>3 DEF Added

LEMMA SymbolsAreLetters == \A s \in Seq(Symbols) : s \in Seq(Letters)
<1>1. Symbols \subseteq Letters
  BY StreamAssumption DEF Letters
<1>2. \A S, T : S \subseteq T => \A s \in Seq(S) : s \in Seq(T)
  OBVIOUS
<1> QED BY <1>1, <1>2

LEMMA AppendIs ==
  ASSUME NEW S, NEW s \in Seq(S), NEW e \in S
  PROVE  /\ Append(s, e) \in Seq(S) /\ Len(Append(s, e)) = Len(s) + 1 /\ Len(s) \in Nat
         /\ \A i \in 1..Len(s) : Append(s, e)[i] = s[i]
         /\ Append(s, e)[Len(s) + 1] = e
OBVIOUS

LEMMA AnswersAppend ==
  ASSUME NEW s \in Seq(ChunkType), NEW c \in ChunkType
  PROVE  \A i \in 1..Len(Append(s, c)) :
           IsAnswer(Append(s, c)[i]) => IsAnswer(c) \/ \E j \in 1..Len(s) : IsAnswer(s[j])
<1> SUFFICES ASSUME NEW i \in 1..Len(Append(s, c)), IsAnswer(Append(s, c)[i])
             PROVE  IsAnswer(c) \/ \E j \in 1..Len(s) : IsAnswer(s[j])
  OBVIOUS
<1>1. i \in 1..Len(s) \/ i = Len(s) + 1
  BY AppendIs
<1>2. CASE i \in 1..Len(s)
  <2>1. Append(s, c)[i] = s[i]
    BY <1>2, AppendIs
  <2> QED BY <1>2, <2>1
<1>3. CASE i = Len(s) + 1
  <2>1. Append(s, c)[i] = c
    BY <1>3, AppendIs
  <2> QED BY <2>1
<1> QED BY <1>1, <1>2, <1>3

\* The answer's text goes to the queue as it is passed on.
LEMMA AnswerIsSent ==
  ASSUME StreamTypes, NEW u, NEW w, Grows(u, w), AnswerIn(sent) = output,
         \A i \in 1..Len(sent) : IsAnswer(sent[i]) => ~unmarked
  PROVE  /\ Deltas \in Seq(ChunkType)
         /\ AnswerIn(sent \o Deltas) = output'
         /\ \A i \in 1..Len(sent \o Deltas) : IsAnswer((sent \o Deltas)[i]) => ~unmarked'
<1> DEFINE a == Chunk(FinalStep, "thinking", u)
           b == Chunk(FinalStep, "output", w)
           p == thought' # thought
           q == output' # output
           r1 == IF p THEN Append(sent, a) ELSE sent
           r2 == IF q THEN Append(r1, b) ELSE r1
<1>0. /\ u \in Seq(Letters) /\ w \in Seq(Symbols) /\ thought' = thought \o u /\ output' = output \o w
      /\ ~unmarked => ~unmarked'
      /\ w # <<>> => ~unmarked'
  BY DEF Grows
<1>1. sent \in Seq(ChunkType) /\ thought \in Seq(Letters) /\ output \in Seq(Symbols)
  BY DEF StreamTypes
<1>2. Added(thought, thought') = u /\ Added(output, output') = w /\ (q <=> w # <<>>)
  BY <1>0, <1>1, AddedIs
<1>3. Deltas = When(p, <<a>>) \o When(q, <<b>>)
  BY <1>2, Zenon DEF Deltas
<1>4. /\ a \in ChunkType /\ a.kind = "thinking"
      /\ b \in ChunkType /\ b.kind = "output" /\ b.step = FinalStep /\ b.text = w
  <2>1. w \in Seq(Letters)
    BY <1>0, SymbolsAreLetters
  <2> QED BY <1>0, <2>1 DEF Chunk, ChunkType, StepNames
<1> HIDE DEF a, b
<1>5. ~IsAnswer(a) /\ IsAnswer(b)
  BY <1>4 DEF IsAnswer
<1>6. Deltas \in Seq(ChunkType) /\ sent \o Deltas = r2
  <2>1. \A s \in Seq(ChunkType), x, y \in ChunkType :
          /\ <<x>> \o <<y>> \in Seq(ChunkType) /\ s \o (<<x>> \o <<y>>) = Append(Append(s, x), y)
          /\ <<>> \o <<y>> \in Seq(ChunkType) /\ s \o (<<>> \o <<y>>) = Append(s, y)
          /\ <<y>> \o <<>> \in Seq(ChunkType) /\ s \o (<<y>> \o <<>>) = Append(s, y)
          /\ <<>> \o <<>> \in Seq(ChunkType) /\ s \o (<<>> \o <<>>) = s
    OBVIOUS
  <2> HIDE DEF p, q
  <2>2. CASE p /\ q
    BY <1>1, <1>3, <1>4, <2>1, <2>2, Zenon DEF When
  <2>3. CASE p /\ ~q
    BY <1>1, <1>3, <1>4, <2>1, <2>3, Zenon DEF When
  <2>4. CASE ~p /\ q
    BY <1>1, <1>3, <1>4, <2>1, <2>4, Zenon DEF When
  <2>5. CASE ~p /\ ~q
    BY <1>1, <1>3, <1>4, <2>1, <2>5, Zenon DEF When
  <2> QED BY <2>2, <2>3, <2>4, <2>5
<1>7. /\ r1 \in Seq(ChunkType) /\ AnswerIn(r1) = output
      /\ \A i \in 1..Len(r1) : IsAnswer(r1[i]) => ~unmarked'
  <2>1. CASE p
    <3>1. Append(sent, a) \in Seq(ChunkType)
      BY <1>1, <1>4, AppendIs
    <3>2. AnswerIn(Append(sent, a)) = AnswerIn(sent)
      BY <1>1, <1>4, <1>5, AnswerAppend, Zenon
    <3>3. \A i \in 1..Len(Append(sent, a)) : IsAnswer(Append(sent, a)[i]) => ~unmarked'
      BY <1>0, <1>1, <1>4, <1>5, AnswersAppend, Zenon
    <3> QED BY <2>1, <3>1, <3>2, <3>3, Zenon
  <2>2. CASE ~p
    BY <1>0, <1>1, <2>2, Zenon
  <2> QED BY <2>1, <2>2
<1> HIDE DEF r1
<1>8. AnswerIn(r2) = output' /\ \A i \in 1..Len(r2) : IsAnswer(r2[i]) => ~unmarked'
  <2>1. CASE q
    <3>1. AnswerIn(Append(r1, b)) = output \o w
      BY <1>4, <1>5, <1>7, AnswerAppend, Zenon
    <3>2. \A i \in 1..Len(Append(r1, b)) : IsAnswer(Append(r1, b)[i]) => ~unmarked'
      BY <1>0, <1>2, <1>4, <1>7, <2>1, AnswersAppend, Zenon
    <3> QED BY <1>0, <2>1, <3>1, <3>2, Zenon
  <2>2. CASE ~q
    BY <1>7, <2>2, Zenon
  <2> QED BY <2>1, <2>2
<1> HIDE DEF r2
<1> QED BY <1>6, <1>8, Zenon
-----------------------------------------------------------------------------
(* The steps *)

LEMMA ReaderSame ==
  ASSUME UNCHANGED readerVars
  PROVE  /\ ReaderInv => ReaderInv'
         /\ Outcomes' = Outcomes
<1>1. /\ content' = content /\ thought' = thought /\ output' = output /\ unmarked' = unmarked
      /\ status' = status
  BY DEF readerVars
<1>2. Told' = Told /\ (ThoughtComesBeforeMarker' <=> ThoughtComesBeforeMarker)
  BY <1>1, Zenon DEF Told, ThoughtComesBeforeMarker
<1>3. ReaderInv => ReaderInv'
  BY <1>1, <1>2, Zenon DEF ReaderInv
<1>4. Outcomes' = Outcomes
  BY <1>1, Zenon DEF Outcomes, Results
<1> QED BY <1>3, <1>4

LEMMA MarkupSame ==
  ASSUME UNCHANGED markupVars
  PROVE  /\ shown' = shown /\ answered' = answered /\ fresh' = fresh /\ heading' = heading
         /\ thinking' = thinking /\ fenced' = fenced
         /\ Taken' = Taken
         /\ Of({"answer"}, shown)' = Of({"answer"}, shown) /\ Of({"content"}, shown)' = Of({"content"}, shown)
BY DEF markupVars, Taken

\* A step that delivers chunks keeps the invariant of the queue and of the answer.
LEMMA DeliveryKept ==
  ASSUME StreamInv, relay # "over", NEW chunks \in Seq(ChunkType), Deliver(chunks),
         UNCHANGED <<reader, markupVars>>,
         AnswerIn(sent \o chunks) = output',
         \A i \in 1..Len(sent \o chunks) : IsAnswer((sent \o chunks)[i]) => ~unmarked'
  PROVE  /\ sent' \in Seq(ChunkType) /\ queue' \in Seq(Items)
         /\ MarkupInv' /\ QueueInv' /\ AnswerInv' /\ MessageInv'
<1>1. /\ StreamTypes /\ QueueInv /\ AnswerInv /\ MarkupInv /\ shown' = shown /\ reader' = reader
  BY DEF StreamInv, markupVars
<1>2. /\ sent' \in Seq(ChunkType) /\ queue' \in Seq(Items) /\ QueueInv' /\ reader # "returned"
  BY <1>1, ChunksAreQueued
<1>3. MarkupInv'
  BY <1>1, MarkupSame DEF MarkupInv
<1>4. MessageInv'
  BY <1>1, <1>2 DEF MessageInv
<1>5. sent' = sent \o chunks /\ sent \in Seq(ChunkType)
  BY <1>1 DEF Deliver, StreamTypes
<1>6. AnswerInv'
  <2>1. Len(Taken) \in Nat /\ Len(Taken) <= Len(sent) /\ 1 \in Nat /\ 1 <= 1
    <3>1. Taken \in Seq(ChunkType) /\ Len(sent) - Len(Taken) \in Nat
      BY <1>1 DEF QueueInv, Waiting
    <3>2. Len(Taken) \in Nat /\ Len(sent) \in Nat
      BY <1>5, <3>1
    <3> QED BY <3>1, <3>2
  <2>2. SubSeq(sent', 1, Len(Taken)) = SubSeq(sent, 1, Len(Taken))
    BY <1>5, <2>1, PieceOfLonger
  <2>3. ASSUME answered PROVE \E i \in 1..Len(sent') : IsAnswer(sent'[i])
    <3>1. PICK i \in 1..Len(sent) : IsAnswer(sent[i])
      BY <1>1, <2>3 DEF AnswerInv
    <3>2. i \in 1..Len(sent') /\ sent'[i] = sent[i]
      BY <1>5
    <3> QED BY <3>1, <3>2
  <2>4. \A i \in 1..Len(sent') : IsAnswer(sent'[i]) => ~unmarked'
    BY <1>5
  <2>5. TextOf(Of({"answer"}, shown))' = AnswerIn(SubSeq(sent, 1, Len(Taken))')
    <3>1. Taken' = Taken
      BY MarkupSame
    <3>2. SubSeq(sent, 1, Len(Taken))' = SubSeq(sent, 1, Len(Taken))
      BY <2>2, <3>1
    <3> QED BY <1>1, <3>2 DEF AnswerInv
  <2>6. AnswerIn(sent)' = output'
    BY <1>5
  <2>7. /\ Of({"answer"}, shown') \in Seq(ChunkType)
        /\ ~answered' => Of({"answer"}, shown') = <<>>
        /\ reader' # "returned" => Of({"content"}, shown') = <<>>
        /\ answered' = answered
    BY <1>1, MarkupSame DEF AnswerInv
  <2> QED BY <2>3, <2>4, <2>5, <2>6, <2>7 DEF AnswerInv
<1> QED BY <1>2, <1>3, <1>4, <1>6
LEMMA WorkKept ==
  ASSUME StreamInv, Work
  PROVE  StreamInv'
<1>1. PICK c \in WorkChunks : Deliver(<<c>>)
  BY DEF Work
<1>2. relay # "over" /\ UNCHANGED <<relay, stopping, reader, markupVars, readerVars>>
  BY DEF Work
<1>3. c \in ChunkType /\ ~IsAnswer(c)
  <2>1. "x" \in Letters /\ " " \in Letters
    BY DEF Letters
  <2>2. \A l \in Letters : <<l>> \in Seq(Letters)
    OBVIOUS
  <2>3. <<"x">> \in Seq(Letters) /\ <<" ">> \in Seq(Letters)
    BY <2>1, <2>2, Zenon
  <2>4. c \in ChunkType /\ c.step \in Steps
    BY <1>1, <2>3 DEF WorkChunks, ChunkType, StepNames
  <2> QED BY <2>4, StepsAssumption DEF IsAnswer
<1>4. StreamTypes /\ ReaderInv /\ AnswerInv /\ sent \in Seq(ChunkType)
  BY DEF StreamInv, StreamTypes
<1>5. output' = output /\ unmarked' = unmarked
  BY <1>2 DEF readerVars
<1>6. sent \o <<c>> = Append(sent, c) /\ <<c>> \in Seq(ChunkType)
  BY <1>3, <1>4
<1>7. AnswerIn(sent \o <<c>>) = output'
  BY <1>3, <1>4, <1>5, <1>6, AnswerAppend DEF AnswerInv
<1>8. \A i \in 1..Len(sent \o <<c>>) : IsAnswer((sent \o <<c>>)[i]) => ~unmarked'
  <2>1. \A i \in 1..Len(sent) : IsAnswer(sent[i]) => ~unmarked
    BY <1>4 DEF AnswerInv
  <2> QED BY <1>3, <1>4, <1>5, <1>6, <2>1, AnswersAppend, Zenon
<1>9. /\ sent' \in Seq(ChunkType) /\ queue' \in Seq(Items)
      /\ MarkupInv' /\ QueueInv' /\ AnswerInv' /\ MessageInv'
  BY <1>1, <1>2, <1>6, <1>7, <1>8, DeliveryKept
<1>10. StreamTypes'
  BY <1>2, <1>4, <1>9 DEF StreamTypes, readerVars, markupVars
<1>11. ReaderInv'
  BY <1>2, <1>4, ReaderSame
<1> QED BY <1>9, <1>10, <1>11 DEF StreamInv

LEMMA FinalChunkKept ==
  ASSUME StreamInv, FinalChunk
  PROVE  StreamInv'
<1>1. relay # "over" /\ Deliver(Deltas) /\ UNCHANGED <<relay, stopping, reader, markupVars>>
  BY DEF FinalChunk
<1>2. StreamTypes /\ ReaderInv /\ AnswerInv
  BY DEF StreamInv
<1>3. ReaderInv' /\ \E u, w : Grows(u, w)
  <2>1. CASE ReasoningChunk
    BY <1>2, <2>1, ReasoningKept
  <2>2. CASE \E text \in Texts : ContentChunk(text)
    BY <1>2, <2>2, ContentKept
  <2> QED BY <2>1, <2>2 DEF FinalChunk
<1>4. PICK u, w : Grows(u, w)
  BY <1>3
<1>5. /\ Deltas \in Seq(ChunkType)
      /\ AnswerIn(sent \o Deltas) = output'
      /\ \A i \in 1..Len(sent \o Deltas) : IsAnswer((sent \o Deltas)[i]) => ~unmarked'
  <2>1. AnswerIn(sent) = output /\ \A i \in 1..Len(sent) : IsAnswer(sent[i]) => ~unmarked
    BY <1>2 DEF AnswerInv
  <2> QED BY <1>2, <1>4, <2>1, AnswerIsSent
<1>6. /\ sent' \in Seq(ChunkType) /\ queue' \in Seq(Items)
      /\ MarkupInv' /\ QueueInv' /\ AnswerInv' /\ MessageInv'
  <2> DEFINE chunks == Deltas
  <2>1. chunks \in Seq(ChunkType) /\ Deliver(chunks) /\ AnswerIn(sent \o chunks) = output'
        /\ \A i \in 1..Len(sent \o chunks) : IsAnswer((sent \o chunks)[i]) => ~unmarked'
    BY <1>1, <1>5
  <2> HIDE DEF chunks
  <2> QED BY <1>1, <2>1, DeliveryKept
<1>7. StreamTypes'
  <2>1. /\ content' \in Seq(Symbols) /\ thought' \in Seq(Letters) /\ output' \in Seq(Symbols)
        /\ unmarked' \in BOOLEAN /\ status' = "reading"
    BY <1>4 DEF Grows
  <2> QED BY <1>1, <1>2, <1>6, <2>1 DEF StreamTypes, markupVars
<1> QED BY <1>3, <1>6, <1>7 DEF StreamInv

\* A step that leaves the message and the chunks alone while the run is not over.
LEMMA NothingDelivered ==
  ASSUME StreamInv, relay # "over", relay' # "over",
         UNCHANGED <<sent, queue, reader, markupVars, content, output, unmarked>>
  PROVE  MarkupInv' /\ QueueInv' /\ AnswerInv' /\ MessageInv'
<1>1. QueueInv /\ AnswerInv /\ MarkupInv /\ shown' = shown /\ reader' = reader
  BY DEF StreamInv, markupVars
<1>2. reader # "returned" /\ Len(queue) # Waiting + 1
  BY <1>1 DEF QueueInv
<1>3. Taken' = Taken /\ Waiting' = Waiting
  BY MarkupSame DEF Waiting
<1>4. QueueInv'
  <2>1. /\ Taken' \in Seq(ChunkType) /\ Waiting' \in Nat
        /\ \A i \in 1..Len(Taken') : Solid(Taken'[i]) = Solid(sent'[i])
        /\ Len(queue') \in {Waiting', Waiting' + 1}
        /\ \A i \in 1..Waiting' : queue'[i] = <<"delta", sent'[Len(Taken') + i]>>
    BY <1>1, <1>3 DEF QueueInv
  <2>2. Len(queue') # Waiting' + 1
    BY <1>2, <1>3
  <2> QED BY <1>1, <1>2, <2>1, <2>2 DEF QueueInv
<1>5. AnswerInv'
  <2>1. SubSeq(sent, 1, Len(Taken))' = SubSeq(sent, 1, Len(Taken))
    BY <1>3
  <2>2. TextOf(Of({"answer"}, shown'))  = AnswerIn(SubSeq(sent', 1, Len(Taken')))
    BY <1>1, <2>1 DEF AnswerInv
  <2>3. /\ AnswerIn(sent') = output' /\ Of({"answer"}, shown') \in Seq(ChunkType)
        /\ \A i \in 1..Len(sent') : IsAnswer(sent'[i]) => ~unmarked'
        /\ answered' => \E i \in 1..Len(sent') : IsAnswer(sent'[i])
        /\ ~answered' => Of({"answer"}, shown') = <<>>
        /\ reader' # "returned" => Of({"content"}, shown') = <<>>
    BY <1>1, MarkupSame DEF AnswerInv
  <2> QED BY <2>2, <2>3 DEF AnswerInv
<1>6. MarkupInv'
  BY <1>1, MarkupSame DEF MarkupInv
<1>7. MessageInv'
  BY <1>1, <1>2 DEF MessageInv
<1> QED BY <1>4, <1>5, <1>6, <1>7

LEMMA FinalCallKept ==
  ASSUME StreamInv, FinalCall
  PROVE  StreamInv'
<1>1. /\ relay # "over" /\ relay' = "answering" /\ status' = "reading" /\ status = "none"
      /\ UNCHANGED <<content, reasoning, unmarked, thought, output>>
      /\ UNCHANGED <<sent, queue, stopping, reader, markupVars>>
  BY DEF FinalCall, OpenStream
<1>2. MarkupInv' /\ QueueInv' /\ AnswerInv' /\ MessageInv'
  BY <1>1, NothingDelivered
<1>3. StreamTypes'
  BY <1>1 DEF StreamInv, StreamTypes, markupVars
<1>4. ReaderInv'
  <2>1. Told' = Told /\ (ThoughtComesBeforeMarker' <=> ThoughtComesBeforeMarker)
    BY <1>1, Zenon DEF Told, ThoughtComesBeforeMarker
  <2> QED BY <1>1, <2>1 DEF StreamInv, ReaderInv
<1> QED BY <1>2, <1>3, <1>4 DEF StreamInv

LEMMA FinalReplyKept ==
  ASSUME StreamInv, FinalReply
  PROVE  StreamInv'
<1>1. /\ relay # "over" /\ relay' # "over" /\ status' = "complete" /\ status = "reading"
      /\ UNCHANGED <<content, reasoning, unmarked, thought, output>>
      /\ UNCHANGED <<relay, sent, queue, stopping, reader, markupVars>>
  BY DEF FinalReply, EndStream, pipeVars, relayVars
<1>2. MarkupInv' /\ QueueInv' /\ AnswerInv' /\ MessageInv'
  BY <1>1, NothingDelivered
<1>3. StreamTypes'
  BY <1>1 DEF StreamInv, StreamTypes, markupVars
<1>4. ReaderInv'
  <2>1. Told' = Told /\ (ThoughtComesBeforeMarker' <=> ThoughtComesBeforeMarker)
    BY <1>1, Zenon DEF Told, ThoughtComesBeforeMarker
  <2> QED BY <1>1, <2>1 DEF StreamInv, ReaderInv
<1> QED BY <1>2, <1>3, <1>4 DEF StreamInv
\* What the end of a run leaves alone.
LEMMA AnswerSame ==
  ASSUME AnswerInv, UNCHANGED <<sent, markupVars, readerVars>>, reader # "returned"
  PROVE  AnswerInv'
<1>1. Taken' = Taken
  BY MarkupSame
<1>2. SubSeq(sent, 1, Len(Taken))' = SubSeq(sent, 1, Len(Taken))
  BY <1>1
<1>3. TextOf(Of({"answer"}, shown')) = AnswerIn(SubSeq(sent', 1, Len(Taken')))
  BY <1>2, MarkupSame DEF AnswerInv
<1>4. output' = output /\ unmarked' = unmarked
  BY DEF readerVars
<1>5. /\ AnswerIn(sent') = output' /\ Of({"answer"}, shown') \in Seq(ChunkType)
      /\ \A i \in 1..Len(sent') : IsAnswer(sent'[i]) => ~unmarked'
      /\ answered' => \E i \in 1..Len(sent') : IsAnswer(sent'[i])
      /\ ~answered' => Of({"answer"}, shown') = <<>>
      /\ reader' # "returned" => Of({"content"}, shown') = <<>>
  BY <1>4, MarkupSame DEF AnswerInv
<1> QED BY <1>3, <1>5 DEF AnswerInv

LEMMA RunOverKept ==
  ASSUME StreamInv, RunOver
  PROVE  StreamInv'
<1>1. /\ relay # "over" /\ relay' = "over" /\ UNCHANGED <<sent, stopping, reader, markupVars, readerVars>>
      /\ \/ \E item \in Outcomes : queue' = Append(queue, item)
         \/ queue' = queue
  BY DEF RunOver, RunEnds, RunCancelled
<1>2. StreamTypes /\ ReaderInv /\ MarkupInv /\ QueueInv /\ AnswerInv
  BY DEF StreamInv
<1>3. reader # "returned" /\ Len(queue) = Waiting /\ Waiting \in Nat /\ queue \in Seq(Items)
  BY <1>1, <1>2 DEF QueueInv, StreamTypes
<1>4. Taken' = Taken /\ Waiting' = Waiting
  BY <1>1, MarkupSame DEF Waiting
<1>5. queue' \in Seq(Items) /\ Len(queue') \in {Waiting, Waiting + 1}
      /\ (\A i \in 1..Waiting : queue'[i] = queue[i])
      /\ (Len(queue') = Waiting + 1 => queue'[Len(queue')] \in Outcomes)
  <2>1. CASE queue' = queue
    BY <1>3, <2>1
  <2>2. CASE \E item \in Outcomes : queue' = Append(queue, item)
    <3>1. PICK item \in Outcomes : queue' = Append(queue, item)
      BY <2>2
    <3>2. item \in Items
      BY <1>2, OutcomesAre DEF Items
    <3>3. /\ queue' \in Seq(Items) /\ Len(queue') = Len(queue) + 1
          /\ \A i \in 1..Len(queue) : queue'[i] = queue[i]
          /\ queue'[Len(queue) + 1] = item
      BY <1>3, <3>1, <3>2
    <3> QED BY <1>3, <3>3
  <2> QED BY <1>1, <2>1, <2>2
<1>6. QueueInv'
  <2>1. \A i \in 1..Waiting' : queue'[i] = <<"delta", sent'[Len(Taken') + i]>>
    BY <1>1, <1>2, <1>4, <1>5 DEF QueueInv
  <2>2. /\ Taken' \in Seq(ChunkType) /\ Waiting' \in Nat
        /\ \A i \in 1..Len(Taken') : Solid(Taken'[i]) = Solid(sent'[i])
    BY <1>1, <1>2, <1>4 DEF QueueInv
  <2>3. Outcomes' = Outcomes
    BY <1>1, ReaderSame
  <2> QED BY <1>1, <1>3, <1>4, <1>5, <2>1, <2>2, <2>3 DEF QueueInv
<1>7. MarkupInv'
  BY <1>1, <1>2, MarkupSame DEF MarkupInv
<1>8. AnswerInv'
  BY <1>1, <1>2, <1>3, AnswerSame
<1>9. MessageInv'
  BY <1>1, <1>3 DEF MessageInv
<1>10. StreamTypes'
  BY <1>1, <1>2, <1>5 DEF StreamTypes, readerVars, markupVars
<1>11. ReaderInv'
  BY <1>1, <1>2, ReaderSame
<1> QED BY <1>6, <1>7, <1>8, <1>9, <1>10, <1>11 DEF StreamInv

LEMMA LeaveKept ==
  ASSUME StreamInv, Leave, UNCHANGED readerVars
  PROVE  StreamInv'
<1>1. /\ reader = "reading" /\ reader' = "left" /\ stopping' = TRUE
      /\ UNCHANGED <<relay, sent, queue, markupVars>>
  BY DEF Leave, relayVars
<1>2. StreamTypes /\ ReaderInv /\ MarkupInv /\ QueueInv /\ AnswerInv
  BY DEF StreamInv
<1>3. Taken' = Taken /\ Waiting' = Waiting /\ Outcomes' = Outcomes
  BY <1>1, MarkupSame, ReaderSame DEF Waiting
<1>4. QueueInv'
  BY <1>1, <1>2, <1>3 DEF QueueInv
<1>5. MarkupInv'
  BY <1>1, <1>2, MarkupSame DEF MarkupInv
<1>6. AnswerInv'
  BY <1>1, <1>2, AnswerSame
<1>7. MessageInv'
  BY <1>1 DEF MessageInv
<1>8. StreamTypes'
  BY <1>1, <1>2 DEF StreamTypes, readerVars, markupVars
<1>9. ReaderInv'
  BY <1>2, ReaderSame
<1> QED BY <1>4, <1>5, <1>6, <1>7, <1>8, <1>9 DEF StreamInv

LEMMA NothingKept ==
  ASSUME StreamInv, UNCHANGED vars
  PROVE  StreamInv'
<1>1. UNCHANGED <<relay, sent, queue, stopping, reader, markupVars, readerVars>>
  BY DEF vars, pipeVars, relayVars
<1>2. StreamTypes /\ ReaderInv /\ MarkupInv /\ QueueInv /\ AnswerInv /\ MessageInv
  BY DEF StreamInv
<1>3. Taken' = Taken /\ Waiting' = Waiting /\ Outcomes' = Outcomes
  BY <1>1, MarkupSame, ReaderSame DEF Waiting
<1>4. QueueInv'
  BY <1>1, <1>2, <1>3 DEF QueueInv
<1>5. MarkupInv'
  BY <1>1, <1>2, MarkupSame DEF MarkupInv
<1>6. AnswerInv'
  <2>1. SubSeq(sent, 1, Len(Taken))' = SubSeq(sent, 1, Len(Taken))
    BY <1>1, <1>3
  <2>2. TextOf(Of({"answer"}, shown')) = AnswerIn(SubSeq(sent', 1, Len(Taken')))
    BY <1>1, <1>2, <2>1, MarkupSame DEF AnswerInv
  <2>3. output' = output /\ unmarked' = unmarked
    BY <1>1 DEF readerVars
  <2>4. /\ AnswerIn(sent') = output' /\ Of({"answer"}, shown') \in Seq(ChunkType)
        /\ \A i \in 1..Len(sent') : IsAnswer(sent'[i]) => ~unmarked'
        /\ answered' => \E i \in 1..Len(sent') : IsAnswer(sent'[i])
        /\ ~answered' => Of({"answer"}, shown') = <<>>
        /\ reader' # "returned" => Of({"content"}, shown') = <<>>
    BY <1>1, <1>2, <2>3, MarkupSame DEF AnswerInv
  <2> QED BY <2>2, <2>4 DEF AnswerInv
<1>7. MessageInv'
  BY <1>1, <1>2, Zenon DEF MessageInv, markupVars, readerVars
<1>8. StreamTypes'
  BY <1>1, <1>2 DEF StreamTypes, readerVars, markupVars
<1>9. ReaderInv'
  BY <1>1, <1>2, ReaderSame
<1> QED BY <1>4, <1>5, <1>6, <1>7, <1>8, <1>9 DEF StreamInv
\* What a chunk adds to the chunks shown.
LEMMA ChunkIsAdded ==
  ASSUME NEW s \in Seq(Marks), NEW d \in ChunkType, NEW kind \in {"text", "answer"}, SameChunks(shown, s),
         shown' = Append(s, <<kind, d>>)
  PROVE  /\ Taken' = Append(Taken, d)
         /\ Of({"answer"}, shown') = IF kind = "answer" THEN Append(Of({"answer"}, shown), d) ELSE Of({"answer"}, shown)
         /\ Of({"content"}, shown') = Of({"content"}, shown)
<1> DEFINE m == <<kind, d>>
<1>1. m \in Marks /\ m[1] = kind /\ m[2] = d
  BY PlainMarks
<1> HIDE DEF m
<1>2. \A kinds : Of(kinds, Append(s, m)) = IF m[1] \in kinds THEN Append(Of(kinds, s), m[2]) ELSE Of(kinds, s)
  BY <1>1, OfAppend
<1>3. /\ Of({"text", "answer"}, s) = Of({"text", "answer"}, shown) /\ Of({"answer"}, s) = Of({"answer"}, shown)
      /\ Of({"content"}, s) = Of({"content"}, shown)
  BY DEF SameChunks
<1>4. kind \in {"text", "answer"} /\ kind \notin {"content"} /\ (kind \in {"answer"} <=> kind = "answer")
  OBVIOUS
<1>5. shown' = Append(s, m)
  BY DEF m
<1> QED BY <1>1, <1>2, <1>3, <1>4, <1>5, Zenon DEF Taken

LEMMA ReadDeltaKept ==
  ASSUME StreamInv, ReadDelta, UNCHANGED readerVars
  PROVE  StreamInv'
<1> DEFINE n == Len(Taken)
           c == sent[n + 1]
<1>1. /\ reader = "reading" /\ queue # <<>> /\ Head(queue)[1] = "delta"
      /\ LET x == Head(queue)[2] IN IF IsAnswer(x) THEN ShowAnswer(x) ELSE ShowWork(x)
      /\ queue' = Tail(queue) /\ UNCHANGED <<relay, sent, stopping, reader>>
  BY DEF ReadDelta, relayVars
<1>2. StreamTypes /\ ReaderInv /\ MarkupInv /\ QueueInv /\ AnswerInv
  BY DEF StreamInv
<1>3. /\ Head(queue) = <<"delta", c>> /\ n + 1 \in 1..Len(sent)
      /\ \A d \in ChunkType :
              /\ queue' = Tail(queue) /\ Taken' = Append(Taken, d) /\ Solid(d) = Solid(c)
              /\ UNCHANGED <<sent, relay, reader, content, status>> /\ reader # "returned"
              => QueueInv' /\ queue' \in Seq(Items)
  BY <1>1, <1>2, ChunkIsTaken
<1>4. /\ sent \in Seq(ChunkType) /\ c \in ChunkType /\ Taken \in Seq(ChunkType) /\ n \in Nat /\ Len(sent) \in Nat
      /\ answered \in BOOLEAN /\ fresh \in BOOLEAN
  <2>1. sent \in Seq(ChunkType) /\ answered \in BOOLEAN /\ fresh \in BOOLEAN /\ Taken \in Seq(ChunkType)
    BY <1>2 DEF StreamTypes, QueueInv
  <2> QED BY <1>3, <2>1
<1>5. IF IsAnswer(c) THEN ShowAnswer(c) ELSE ShowWork(c)
  <2>1. Head(queue)[2] = c
    BY <1>3
  <2> HIDE DEF c
  <2> QED BY <1>1, <2>1
<1> HIDE DEF c
<1>6. WellFormed(shown, thinking, fenced, heading)
  BY <1>2 DEF MarkupInv
<1>7. UNCHANGED <<sent, relay, reader, content, status>> /\ output' = output /\ unmarked' = unmarked
  BY <1>1 DEF readerVars
<1>8. /\ WellFormed(shown', thinking', fenced', heading') /\ heading' \in StepNames \cup {"none"}
      /\ fresh' \in BOOLEAN /\ answered' = (answered \/ IsAnswer(c))
      /\ \E d \in ChunkType : Taken' = Append(Taken, d) /\ Solid(d) = Solid(c)
      /\ Of({"answer"}, shown') = IF IsAnswer(c) THEN Append(Of({"answer"}, shown), c) ELSE Of({"answer"}, shown)
      /\ Of({"content"}, shown') = Of({"content"}, shown)
  <2>1. CASE IsAnswer(c)
    <3>1. ShowAnswer(c)
      BY <1>5, <2>1
    <3>2. /\ WellFormed(shown', thinking', fenced', heading')
          /\ heading' = heading /\ fresh' = fresh /\ answered' = TRUE
      BY <1>4, <1>6, <3>1, AnswerIsShown
    <3>3. PICK s \in Seq(Marks) : shown' = Append(s, <<"answer", c>>) /\ SameChunks(shown, s)
      BY <1>4, <1>6, <3>1, AnswerIsShown
    <3>4. /\ Taken' = Append(Taken, c) /\ Of({"content"}, shown') = Of({"content"}, shown)
          /\ Of({"answer"}, shown') = Append(Of({"answer"}, shown), c)
      BY <1>4, <3>3, ChunkIsAdded
    <3>5. heading \in StepNames \cup {"none"}
      BY <1>2 DEF StreamTypes
    <3> QED BY <1>4, <2>1, <3>2, <3>4, <3>5
  <2>2. CASE ~IsAnswer(c)
    <3>1. ShowWork(c)
      BY <1>5, <2>2
    <3>2. /\ WellFormed(shown', TRUE, fenced', heading') /\ thinking' = TRUE
          /\ heading' = c.step /\ fresh' \in BOOLEAN
      BY <1>4, <1>6, <3>1, WorkIsShown
    <3>3. PICK trims \in BOOLEAN, s \in Seq(Marks) :
            shown' = Append(s, <<"text", Trimmed(c, trims)>>) /\ SameChunks(shown, s)
      BY <1>4, <1>6, <3>1, WorkIsShown
    <3> DEFINE d == Trimmed(c, trims)
    <3>4. d \in ChunkType /\ Solid(d) = Solid(c)
      BY <1>4, TrimmedIsSolid
    <3>5. shown' = Append(s, <<"text", d>>) /\ SameChunks(shown, s)
      BY <3>3
    <3> HIDE DEF d
    <3>6. /\ Taken' = Append(Taken, d) /\ Of({"content"}, shown') = Of({"content"}, shown)
          /\ Of({"answer"}, shown') = Of({"answer"}, shown)
      BY <3>4, <3>5, ChunkIsAdded
    <3>7. answered' = answered
      BY <3>1 DEF ShowWork
    <3>8. c.step \in StepNames
      BY <1>4 DEF ChunkType
    <3> QED BY <1>4, <2>2, <3>2, <3>4, <3>6, <3>7, <3>8
  <2> QED BY <2>1, <2>2
<1>9. QueueInv' /\ queue' \in Seq(Items)
  BY <1>1, <1>3, <1>7, <1>8
<1>10. MarkupInv'
  BY <1>1, <1>7, <1>8 DEF MarkupInv
<1>11. AnswerInv'
  <2> DEFINE p == SubSeq(sent, 1, n)
             old == Of({"answer"}, shown)
  <2>1. Len(Taken') = n + 1
    BY <1>4, <1>8
  <2>2. p \in Seq(ChunkType) /\ SubSeq(sent, 1, n + 1) = Append(p, c)
    BY <1>3, <1>4 DEF c
  <2>3. SubSeq(sent', 1, Len(Taken')) = Append(p, c)
    BY <1>7, <2>1, <2>2
  <2>4. old \in Seq(ChunkType) /\ TextOf(old) = AnswerIn(p) /\ AnswerIn(sent) = output
    BY <1>2 DEF AnswerInv
  <2> HIDE DEF p, old
  <2>5. AnswerIn(Append(p, c)) = IF IsAnswer(c) THEN AnswerIn(p) \o c.text ELSE AnswerIn(p)
    BY <1>4, <2>2, AnswerAppend
  <2>6. Of({"answer"}, shown') = IF IsAnswer(c) THEN Append(old, c) ELSE old
    BY <1>8 DEF old
  <2>7. TextOf(Append(old, c)) = TextOf(old) \o c.text /\ Append(old, c) \in Seq(ChunkType)
    <3>1. \A s \in Seq(ChunkType), x \in ChunkType : TextOf(Append(s, x)) = TextOf(s) \o x.text /\ Append(s, x) \in Seq(ChunkType)
      BY TextAppend, AppendIs
    <3> QED BY <1>4, <2>4, <3>1, Zenon
  <2>8. TextOf(Of({"answer"}, shown')) = AnswerIn(SubSeq(sent', 1, Len(Taken')))
    BY <2>3, <2>4, <2>5, <2>6, <2>7, Zenon
  <2>9. Of({"answer"}, shown') \in Seq(ChunkType)
    BY <2>4, <2>6, <2>7
  <2>10. answered' => \E i \in 1..Len(sent') : IsAnswer(sent'[i])
    <3>1. CASE IsAnswer(c)
      BY <1>3, <1>7, <3>1 DEF c
    <3>2. CASE ~IsAnswer(c)
      BY <1>2, <1>4, <1>7, <1>8, <3>2 DEF AnswerInv
    <3> QED BY <3>1, <3>2
  <2>11. ~answered' => Of({"answer"}, shown') = <<>>
    BY <1>2, <1>4, <1>8, <2>6 DEF AnswerInv, old
  <2>12. Of({"content"}, shown') = <<>>
    BY <1>1, <1>2, <1>8 DEF AnswerInv
  <2>13. AnswerIn(sent') = output' /\ \A i \in 1..Len(sent') : IsAnswer(sent'[i]) => ~unmarked'
    BY <1>2, <1>7 DEF AnswerInv
  <2> QED BY <2>8, <2>9, <2>10, <2>11, <2>12, <2>13 DEF AnswerInv
<1>12. MessageInv'
  BY <1>1 DEF MessageInv
<1>13. StreamTypes'
  BY <1>1, <1>2, <1>4, <1>8, <1>9 DEF StreamTypes, readerVars
<1>14. ReaderInv'
  BY <1>2, ReaderSame
<1> QED BY <1>9, <1>10, <1>11, <1>12, <1>13, <1>14 DEF StreamInv
LEMMA ReadEndKept ==
  ASSUME StreamInv, ReadEnd, UNCHANGED readerVars
  PROVE  StreamInv'
<1> DEFINE n == Len(Taken)
           item == Head(queue)
<1>1. /\ reader = "reading" /\ queue # <<>> /\ item[1] # "delta"
      /\ shown' = shown \o CloseThinking \o LastWords(item)
      /\ thinking' = FALSE /\ fenced' = (IF thinking THEN FALSE ELSE fenced)
      /\ queue' = Tail(queue) /\ reader' = "returned" /\ stopping' = TRUE
      /\ UNCHANGED <<relay, sent, answered, heading, fresh>>
  BY DEF ReadEnd, relayVars
<1>2. StreamTypes /\ ReaderInv /\ MarkupInv /\ QueueInv /\ AnswerInv
  BY DEF StreamInv
<1>3. /\ sent \in Seq(ChunkType) /\ queue \in Seq(Items) /\ answered \in BOOLEAN /\ Taken \in Seq(ChunkType)
      /\ Waiting \in Nat /\ Waiting = Len(sent) - n /\ Len(queue) \in {Waiting, Waiting + 1}
      /\ \A i \in 1..Waiting : queue[i] = <<"delta", sent[n + i]>>
      /\ Len(queue) = Waiting + 1 => relay = "over" /\ queue[Len(queue)] \in Outcomes
  BY <1>2 DEF StreamTypes, QueueInv, Waiting
<1>4. item = queue[1] /\ Len(queue) \in Nat /\ Len(queue) # 0
  BY <1>1, <1>3
<1> HIDE DEF item, n
<1>5. Waiting = 0
  <2> SUFFICES ASSUME Waiting # 0 PROVE FALSE
    OBVIOUS
  <2>1. 1 \in 1..Waiting
    BY <1>3
  <2>2. item = <<"delta", sent[n + 1]>>
    BY <1>3, <1>4, <2>1
  <2> QED BY <1>1, <2>2
<1>6. Len(queue) = 1 /\ relay = "over" /\ item \in Outcomes /\ queue' = <<>>
  <2>0. Len(queue) \in {Waiting, Waiting + 1} /\ Len(queue) # 0
    BY <1>3, <1>4, Zenon
  <2>1. Len(queue) = 1 /\ Len(queue) = Waiting + 1
    BY <1>5, <2>0
  <2>2. Tail(queue) \in Seq(Items) /\ Len(Tail(queue)) = Len(queue) - 1
    BY <1>1, <1>3
  <2>3. Tail(queue) = <<>>
    BY <2>1, <2>2
  <2>4. relay = "over" /\ queue[Len(queue)] \in Outcomes
    BY <1>3, <2>1, Zenon
  <2> QED BY <1>1, <1>4, <2>1, <2>3, <2>4
<1>7. /\ item \in EndItems
      /\ item[1] # "error" =>
           item[2] = (IF status = "complete" THEN SplitAnswer(content) ELSE <<"x">>) /\ status # "reading"
  BY <1>2, <1>6, OutcomesAre
<1>8. WellFormed(shown, thinking, fenced, heading)
  BY <1>2 DEF MarkupInv
<1>9. /\ WellFormed(shown', FALSE, FALSE, heading)
      /\ \A kinds \in {{"text", "answer"}, {"answer"}} : Of(kinds, shown') = Of(kinds, shown)
      /\ item[1] = "error" => CountIn(shown', "stopped", Len(shown')) # 0
      /\ item[1] # "error" => /\ item[1] = "done" /\ item[2] \in Seq(Letters)
                              /\ Of({"content"}, shown')
                                   = IF answered THEN Of({"content"}, shown)
                                                 ELSE Append(Of({"content"}, shown), item[2])
  BY <1>1, <1>3, <1>7, <1>8, EndIsShown
<1>10. Taken' = Taken /\ Waiting' = Waiting
  BY <1>1, <1>9 DEF Taken, Waiting
<1>11. QueueInv'
  <2>1. Len(queue') = 0 /\ Waiting' = 0
    BY <1>5, <1>6, <1>10
  <2>2. /\ Taken' \in Seq(ChunkType)
        /\ \A i \in 1..Len(Taken') : Solid(Taken'[i]) = Solid(sent'[i])
    BY <1>1, <1>2, <1>10 DEF QueueInv
  <2>3. (\A i \in 1..Waiting' : queue'[i] = <<"delta", sent'[Len(Taken') + i]>>) /\ Len(queue') # Waiting' + 1
    BY <2>1
  <2> QED BY <1>1, <1>6, <2>1, <2>2, <2>3 DEF QueueInv
<1>12. MarkupInv'
  <2>1. fenced' = FALSE
    BY <1>1, <1>8, ThinkingCloses
  <2> QED BY <1>1, <1>9, <2>1 DEF MarkupInv
<1>13. output' = output /\ unmarked' = unmarked /\ content' = content /\ status' = status
  BY DEF readerVars
<1> DEFINE shownAnswer == Of({"answer"}, shown)
<1>14. /\ shownAnswer \in Seq(ChunkType) /\ TextOf(shownAnswer) = AnswerIn(SubSeq(sent, 1, n))
       /\ AnswerIn(sent) = output
       /\ \A i \in 1..Len(sent) : IsAnswer(sent[i]) => ~unmarked
       /\ answered => \E i \in 1..Len(sent) : IsAnswer(sent[i])
       /\ ~answered => shownAnswer = <<>>
       /\ Of({"content"}, shown) = <<>>
       /\ Of({"answer"}, shown') = shownAnswer
  BY <1>1, <1>2, <1>9 DEF AnswerInv, n
<1> HIDE DEF shownAnswer
<1>15. AnswerInv'
  <2>1. SubSeq(sent', 1, Len(Taken')) = SubSeq(sent, 1, n)
    BY <1>1, <1>10 DEF n
  <2>2. TextOf(Of({"answer"}, shown')) = AnswerIn(SubSeq(sent', 1, Len(Taken')))
    BY <1>14, <2>1
  <2> QED BY <1>1, <1>13, <1>14, <2>2 DEF AnswerInv
<1>16. TextOf(shownAnswer) = output
  <2>1. n = Len(sent)
    <3>1. Len(sent) \in Nat /\ n \in Nat
      BY <1>3 DEF n
    <3> QED BY <1>3, <1>5, <3>1
  <2>2. SubSeq(sent, 1, n) = sent
    BY <1>3, <2>1
  <2> QED BY <1>14, <2>2
<1>17. MessageInv'
  <2> DEFINE answer == IF status = "complete" THEN SplitAnswer(content) ELSE <<"x">>
  <2>1. CASE item[1] = "error"
    BY <1>9, <2>1 DEF MessageInv
  <2>2. CASE item[1] # "error" /\ ~answered
    <3>1. Of({"content"}, shown') = Append(<<>>, item[2]) /\ item[2] \in Seq(Letters) /\ item[2] = answer
      BY <1>7, <1>9, <1>14, <2>2
    <3>2. FlattenSeq(Append(<<>>, item[2])) = FlattenSeq(<<>>) \o item[2]
      <4>1. <<>> \in Seq(Seq(Letters))
        OBVIOUS
      <4> QED BY <3>1, <4>1, FlattenAppend
    <3>3. Strip(TextOf(shownAnswer)) = <<>>
      BY <1>14, <2>2, TextEmpty, StripEmpty
    <3>4. <<>> \o (<<>> \o item[2]) = item[2]
      BY <3>1
    <3>5. Strip(TextOf(Of({"answer"}, shown'))) \o FlattenSeq(Of({"content"}, shown')) = answer
      BY <1>14, <3>1, <3>2, <3>3, <3>4, FlattenEmpty
    <3> QED BY <1>13, <3>5 DEF MessageInv
  <2>3. CASE item[1] # "error" /\ answered
    <3>1. ~unmarked
      BY <1>14, <2>3
    <3>2. Markers(content) # {} /\ status # "none"
      BY <1>2, <3>1 DEF ReaderInv
    <3>3. status = "complete"
      BY <1>2, <1>7, <2>3, <3>2 DEF StreamTypes
    <3>4. MarkerInBlock(content) \/ Strip(output) = SplitAnswer(content)
      BY <1>2, <3>2, ReturnedIsStreamed DEF StreamedIsReturned, OutputIsReturned
    <3>5. FlattenSeq(Of({"content"}, shown')) = <<>>
      BY <1>9, <1>14, <2>3, FlattenEmpty
    <3>6. Strip(output) \in Seq(Symbols)
      BY <1>2, ReaderTypes, StripType
    <3>7. Strip(output) \o <<>> = Strip(output)
      BY <3>6
    <3>8. \/ MarkerInBlock(content)
          \/ Strip(TextOf(Of({"answer"}, shown'))) \o FlattenSeq(Of({"content"}, shown')) = SplitAnswer(content)
      BY <1>14, <1>16, <3>4, <3>5, <3>7
    <3> QED BY <1>13, <3>3, <3>8 DEF MessageInv
  <2> QED BY <2>1, <2>2, <2>3
<1>18. StreamTypes'
  <2>1. queue' \in Seq(Items)
    BY <1>6
  <2> QED BY <1>1, <1>2, <2>1 DEF StreamTypes, readerVars
<1>19. ReaderInv'
  BY <1>2, ReaderSame
<1> QED BY <1>11, <1>12, <1>15, <1>17, <1>18, <1>19 DEF StreamInv

LEMMA StreamBegins == Init => StreamInv
<1> SUFFICES ASSUME Init PROVE StreamInv
  OBVIOUS
<1>1. /\ content = <<>> /\ unmarked = TRUE /\ thought = <<>> /\ output = <<>> /\ status = "none"
      /\ relay = "working" /\ sent = <<>> /\ queue = <<>> /\ stopping = FALSE /\ reader = "reading"
      /\ thinking = FALSE /\ answered = FALSE /\ heading = "none" /\ fenced = FALSE /\ fresh = FALSE
      /\ shown = <<>>
  BY DEF Init, ReaderInit, PipeInit
<1>e. \A S : <<>> \in Seq(S) /\ Len(<<>>) = 0
  OBVIOUS
<1>2. StreamTypes
  BY <1>1, <1>e DEF StreamTypes
<1>3. ReaderInv
  <2>1. Told = <<>>
    BY <1>1, SelectEmpty DEF Told
  <2>2. Markers(<<>>) = {}
    <3>1. 1..Len(<<>>) = {}
      OBVIOUS
    <3> QED BY <3>1, Zenon DEF Markers
  <2> QED BY <1>1, <2>1, <2>2 DEF ReaderInv
<1>4. MarkupInv
  <2>1. CountIn(<<>>, "think", 0) = 0 /\ CountIn(<<>>, "/think", 0) = 0
        /\ CountIn(<<>>, "fence", 0) = 0 /\ CountIn(<<>>, "/fence", 0) = 0
    <3>1. \A mark : {i \in 1..0 : <<>>[i][1] = mark} = {}
      OBVIOUS
    <3> QED BY <3>1, FS_EmptySet, Zenon DEF CountIn
  <2>2. ThinkIn(<<>>, 0) = 0 /\ FenceIn(<<>>, 0) = 0
    BY <2>1 DEF ThinkIn, FenceIn
  <2>3. WellFormed(<<>>, FALSE, FALSE, "none")
    <3>1. Len(<<>>) = 0 /\ 0..0 = {0} /\ 1..0 = {} /\ 0 \in 0..0 /\ <<>> \in Seq(Marks)
      OBVIOUS
    <3> QED BY <2>2, <3>1, OneIs DEF WellFormed
  <2> QED BY <1>1, <2>3 DEF MarkupInv
<1>5. Taken = <<>> /\ Of({"answer"}, shown) = <<>> /\ Of({"content"}, shown) = <<>>
  BY <1>1, OfEmpty DEF Taken
<1>6. QueueInv
  <2>1. Waiting = 0
    BY <1>1, <1>5, <1>e DEF Waiting
  <2> QED BY <1>1, <1>5, <1>e, <2>1 DEF QueueInv
<1>7. AnswerInv
  <2>1. SubSeq(sent, 1, Len(Taken)) = <<>>
    BY <1>1, <1>5
  <2>2. AnswerIn(sent) = output /\ TextOf(Of({"answer"}, shown)) = AnswerIn(SubSeq(sent, 1, Len(Taken)))
    BY <1>1, <1>5, <2>1, AnswerEmpty, TextEmpty
  <2>3. 1..Len(sent) = {}
    BY <1>1
  <2> QED BY <1>1, <1>5, <1>e, <2>2, <2>3 DEF AnswerInv
<1>8. MessageInv
  BY <1>1 DEF MessageInv
<1> QED BY <1>2, <1>3, <1>4, <1>6, <1>7, <1>8 DEF StreamInv

LEMMA StreamGoesOn == StreamInv /\ [Next]_vars => StreamInv'
<1> SUFFICES ASSUME StreamInv, [Next]_vars PROVE StreamInv'
  OBVIOUS
<1>1. CASE Work
  BY <1>1, WorkKept
<1>2. CASE FinalCall
  BY <1>2, FinalCallKept
<1>3. CASE FinalChunk
  BY <1>3, FinalChunkKept
<1>4. CASE FinalReply
  BY <1>4, FinalReplyKept
<1>5. CASE RunOver
  BY <1>5, RunOverKept
<1>6. CASE Generator
  BY <1>6, ReadDeltaKept, ReadEndKept DEF Generator
<1>7. CASE Leave /\ UNCHANGED readerVars
  BY <1>7, LeaveKept
<1>8. CASE Closed
  BY <1>8, NothingKept DEF Closed
<1>9. CASE UNCHANGED vars
  BY <1>9, NothingKept
<1> QED BY <1>1, <1>2, <1>3, <1>4, <1>5, <1>6, <1>7, <1>8, <1>9 DEF Next

-----------------------------------------------------------------------------
(* What the invariant says *)

LEMMA CountsAre ==
  /\ \A mark, n : Count(mark, n) = CountIn(shown, mark, n)
  /\ \A n : InThink(n) = ThinkIn(shown, n) /\ InFence(n) = FenceIn(shown, n)
BY Zenon DEF Count, CountIn, InThink, InFence, ThinkIn, FenceIn

LEMMA MarkupIsWellFormed ==
  ASSUME MarkupInv
  PROVE  /\ MessageWellFormed
         /\ \A i \in 1..Len(shown) : shown[i][1] \in {"answer", "content", "stopped"} => InThink(i) = 0
<1>1. WellFormed(shown, thinking, fenced, heading)
  BY DEF MarkupInv
<1>2. Balanced
  <2>1. \A n \in 0..Len(shown) : InThink(n) \in {0, 1} /\ InFence(n) \in 0..InThink(n)
    BY <1>1, CountsAre, Zenon DEF WellFormed
  <2>2. reader = "returned" => InThink(Len(shown)) = 0
    <3>1. thinking \in BOOLEAN /\ InThink(Len(shown)) = One(thinking)
      BY <1>1, CountsAre, Zenon DEF WellFormed
    <3> QED BY <3>1 DEF MarkupInv, One
  <2> QED BY <2>1, <2>2 DEF Balanced
<1>3. ChunksUnderTheirHeading
  <2>1. \A i \in 1..Len(shown) : shown[i][1] = "heading" => InFence(i) = 0
    BY <1>1, CountsAre, Zenon DEF WellFormed
  <2>2. \A i \in 1..Len(shown) : shown[i][1] = "text" => Placed(shown, i)
    BY <1>1, Zenon DEF WellFormed
  <2> QED BY <2>1, <2>2, CountsAre, Zenon DEF ChunksUnderTheirHeading, Placed
<1>4. \A i \in 1..Len(shown) : shown[i][1] \in {"answer", "content", "stopped"} => InThink(i) = 0
  BY <1>1, CountsAre, Zenon DEF WellFormed
<1> QED BY <1>2, <1>3, <1>4 DEF MessageWellFormed

LEMMA AnswerIsInTheMessage ==
  ASSUME MarkupInv, MessageInv
  PROVE  AnswerIsTheMessage
BY MarkupIsWellFormed, CountsAre, Zenon DEF AnswerIsTheMessage, MessageInv

\* The queue's chunks, before what ends it.
LEMMA QueuedAre ==
  ASSUME StreamTypes, QueueInv
  PROVE  /\ Of({"delta"}, queue) \in Seq(ChunkType) /\ Len(Of({"delta"}, queue)) = Waiting
         /\ \A i \in 1..Waiting : Of({"delta"}, queue)[i] = sent[Len(Taken) + i]
<1> DEFINE n == Len(Taken)
           w == Waiting
           Upto(k) == Of({"delta"}, SubSeq(queue, 1, k))
           K == {k \in Nat : k <= w => /\ Upto(k) \in Seq(ChunkType) /\ Len(Upto(k)) = k
                                       /\ \A i \in 1..k : Upto(k)[i] = sent[n + i]}
<1>1. /\ sent \in Seq(ChunkType) /\ queue \in Seq(Items) /\ Taken \in Seq(ChunkType)
      /\ w \in Nat /\ w = Len(sent) - n /\ Len(queue) \in {w, w + 1}
      /\ \A i \in 1..w : queue[i] = <<"delta", sent[n + i]>>
      /\ Len(queue) = w + 1 => queue[Len(queue)] \in Outcomes
  BY DEF StreamTypes, QueueInv, Waiting
<1>2. n \in Nat /\ Len(sent) \in Nat /\ Len(queue) \in Nat
  BY <1>1
<1> HIDE DEF n, w
<1>3. 0 \in K
  <2>1. SubSeq(queue, 1, 0) = <<>>
    BY <1>1
  <2>2. Upto(0) = <<>>
    BY <2>1, OfEmpty, Zenon
  <2> HIDE DEF Upto
  <2>3. <<>> \in Seq(ChunkType) /\ Len(<<>>) = 0 /\ 1..0 = {} /\ 0 \in Nat
    OBVIOUS
  <2> QED BY <2>2, <2>3, Zenon
<1>4. ASSUME NEW k \in Nat, k \in K PROVE k + 1 \in K
  <2> SUFFICES ASSUME k + 1 <= w
               PROVE  /\ Upto(k + 1) \in Seq(ChunkType) /\ Len(Upto(k + 1)) = k + 1
                      /\ \A i \in 1..(k + 1) : Upto(k + 1)[i] = sent[n + i]
    OBVIOUS
  <2> DEFINE c == sent[n + (k + 1)]
             m == <<"delta", c>>
             s == SubSeq(queue, 1, k)
  <2>1. k <= w /\ k + 1 \in 1..w /\ k + 1 <= Len(queue) /\ n + (k + 1) \in 1..Len(sent)
    BY <1>1, <1>2
  <2>2. /\ Upto(k) \in Seq(ChunkType) /\ Len(Upto(k)) = k
        /\ \A i \in 1..k : Upto(k)[i] = sent[n + i]
    BY <1>4, <2>1
  <2>3. c \in ChunkType /\ queue[k + 1] = m
    BY <1>1, <2>1
  <2>4. s \in Seq(Items) /\ SubSeq(queue, 1, k + 1) = Append(s, m)
    BY <1>1, <2>1, <2>3
  <2> HIDE DEF c
  <2>5. m \in Items /\ m[1] = "delta" /\ m[2] = c
    BY <2>3 DEF Items
  <2> HIDE DEF m, s
  <2>6. Of({"delta"}, Append(s, m)) = Append(Of({"delta"}, s), m[2])
    BY <2>4, <2>5, OfAppend
  <2>7. Upto(k + 1) = Append(Upto(k), c)
    BY <2>4, <2>5, <2>6, Zenon DEF s
  <2> HIDE DEF Upto
  <2>8. /\ Upto(k + 1) \in Seq(ChunkType) /\ Len(Upto(k + 1)) = k + 1
        /\ \A i \in 1..k : Upto(k + 1)[i] = Upto(k)[i]
        /\ Upto(k + 1)[k + 1] = c
    BY <2>2, <2>3, <2>7
  <2>9. \A i \in 1..(k + 1) : Upto(k + 1)[i] = sent[n + i]
    <3> SUFFICES ASSUME NEW i \in 1..(k + 1) PROVE Upto(k + 1)[i] = sent[n + i]
      OBVIOUS
    <3>1. CASE i \in 1..k
      BY <2>2, <2>8, <3>1
    <3>2. CASE i = k + 1
      BY <2>8, <3>2 DEF c
    <3> QED BY <3>1, <3>2
  <2> QED BY <2>8, <2>9
<1> HIDE DEF K
<1>5. w \in K
  BY <1>1, <1>3, <1>4, SetInduction
<1>6. w <= w
  BY <1>1
<1>7. /\ Upto(w) \in Seq(ChunkType) /\ Len(Upto(w)) = w
      /\ \A i \in 1..w : Upto(w)[i] = sent[n + i]
  BY <1>5, <1>6, Zenon DEF K
<1>8. Of({"delta"}, queue) = Upto(w)
  <2>1. CASE Len(queue) = w
    <3>1. SubSeq(queue, 1, w) = queue
      BY <1>1, <2>1
    <3> QED BY <3>1, Zenon
  <2>2. CASE Len(queue) = w + 1
    <3> DEFINE s == SubSeq(queue, 1, w)
               m == queue[w + 1]
    <3>1. s \in Seq(Items) /\ m \in Items /\ queue = Append(s, m)
      BY <1>1, <2>2
    <3>2. m[1] # "delta"
      BY <1>1, <2>2, OutcomesAre
    <3> HIDE DEF s, m
    <3>3. Of({"delta"}, Append(s, m)) = Of({"delta"}, s)
      BY <3>1, <3>2, OfAppend
    <3> QED BY <3>1, <3>3 DEF s
  <2> QED BY <1>1, <2>1, <2>2
<1> HIDE DEF Upto
<1> QED BY <1>7, <1>8, Zenon DEF w, n

LEMMA QueueLosesNothing ==
  ASSUME StreamTypes, QueueInv
  PROVE  NothingLost
<1> DEFINE n == Len(Taken)
           w == Waiting
           q == Of({"delta"}, queue)
           arrived == Taken \o q
<1>1. /\ Taken \in Seq(ChunkType) /\ sent \in Seq(ChunkType) /\ w \in Nat /\ w = Len(sent) - n
      /\ \A i \in 1..n : Solid(Taken[i]) = Solid(sent[i])
  BY DEF StreamTypes, QueueInv, Waiting
<1>2. q \in Seq(ChunkType) /\ Len(q) = w /\ \A i \in 1..w : q[i] = sent[n + i]
  BY QueuedAre
<1>3. n \in Nat /\ Len(sent) \in Nat
  BY <1>1
<1> HIDE DEF q, w
<1>4. /\ Len(arrived) = n + w
      /\ \A i \in 1..(n + w) : arrived[i] = IF i <= n THEN Taken[i] ELSE q[i - n]
  <2>1. /\ Len(Taken \o q) = Len(Taken) + Len(q)
        /\ \A i \in 1..(Len(Taken) + Len(q)) : (Taken \o q)[i] = IF i <= Len(Taken) THEN Taken[i] ELSE q[i - Len(Taken)]
    BY <1>1, <1>2, ConcatIs, Zenon
  <2> QED BY <1>2, <2>1, Zenon
<1> HIDE DEF n
<1>5. NothingLost <=> [i \in 1..Len(arrived) |-> Solid(arrived[i])] = [i \in 1..Len(sent) |-> Solid(sent[i])]
  BY Zenon DEF NothingLost, q, Taken
<1> HIDE DEF arrived
<1>6. Len(arrived) = Len(sent)
  BY <1>1, <1>3, <1>4
<1>7. \A i \in 1..Len(sent) : Solid(arrived[i]) = Solid(sent[i])
  <2> SUFFICES ASSUME NEW i \in 1..Len(sent) PROVE Solid(arrived[i]) = Solid(sent[i])
    OBVIOUS
  <2>0. i \in 1..(n + w)
    BY <1>4, <1>6
  <2>1. CASE i <= n
    <3>1. i \in 1..n
      BY <1>3, <2>1
    <3> QED BY <1>1, <1>4, <2>0, <2>1, <3>1
  <2>2. CASE ~ (i <= n)
    <3>1. i - n \in 1..w /\ n + (i - n) = i
      BY <1>1, <1>3, <2>0, <2>2
    <3>2. arrived[i] = q[i - n]
      BY <1>4, <2>0, <2>2, Zenon
    <3>3. q[i - n] = sent[n + (i - n)]
      BY <1>2, <3>1, Zenon
    <3> QED BY <3>1, <3>2, <3>3
  <2> QED BY <2>1, <2>2
<1> QED BY <1>5, <1>6, <1>7

-----------------------------------------------------------------------------
(* The theorems *)

LEMMA StreamStays == Spec => []StreamInv
BY StreamBegins, StreamGoesOn, PTL DEF Spec

\* Whatever the models write, in whichever order parallel subtasks write it and however the
\* run ends, the text that stream_relay yields is well formed at every point: think blocks and
\* fences are balanced and every chunk stands under the heading of its step.
THEOREM MessageStaysWellFormed == Spec => []MessageWellFormed
<1>1. StreamInv => MessageWellFormed
  BY MarkupIsWellFormed DEF StreamInv
<1> QED BY <1>1, StreamStays, PTL

\* However the reply is cut into chunks, _read_stream streams as output what _split_thinking
\* returns as the answer, and streams as thinking what comes before the marker.
THEOREM StreamAgreesWithReply == Spec => []StreamedIsReturned
<1>1. StreamInv => StreamedIsReturned
  BY ReturnedIsStreamed DEF StreamInv
<1> QED BY <1>1, StreamStays, PTL

\* Between on_delta and the message the pipe's queue loses, doubles and reorders nothing: the
\* chunks shown and those queued are the chunks sent, but for line breaks.
THEOREM QueueKeepsEverything == Spec => []NothingLost
<1>1. StreamInv => NothingLost
  BY QueueLosesNothing DEF StreamInv
<1> QED BY <1>1, StreamStays, PTL

\* A message that ends without an error shows, outside the think block, the answer that the
\* final call returned, or the content of the result, once.
THEOREM MessageIsTheAnswer == Spec => []AnswerIsTheMessage
<1>1. StreamInv => AnswerIsTheMessage
  BY AnswerIsInTheMessage DEF StreamInv
<1> QED BY <1>1, StreamStays, PTL
=============================================================================
