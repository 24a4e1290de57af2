------------------------ MODULE RoutingTuningProofs -------------------------
(***************************************************************************)
(* What the tune command rests on, for every number of samples, every      *)
(* reply, every policy and every candidate: the probe reaches every local  *)
(* model unless it is cut off, and the replay of its record routes as the  *)
(* engine would, but for close calls.                                      *)
(*                                                                         *)
(* The engine rounds the score of exact values, the replay compares the    *)
(* score of rounded values.  Either is within half a ten-thousandth of the *)
(* exact score, so that they are on the same side of a threshold which is  *)
(* farther away.  Sums are bounded by induction on the number of terms,    *)
(* over the set of the numbers for which the bound holds.                  *)
(***************************************************************************)
EXTENDS RoutingTuning, FiniteSetTheorems, WellFoundedInduction, TLAPS

-----------------------------------------------------------------------------
(* Induction over the naturals, for sets *)

LEMMA LeastNat ==
  ASSUME NEW T, T \subseteq Nat, T # {}
  PROVE  \E m \in T : \A k \in T : m <= k
<1> DEFINE R == {ss \in Nat \X Nat : ss[1] < ss[2]}
<1>1. IsWellFoundedOn(OpToRel(<, Nat), Nat)
  BY NatLessThanWellFounded, Zenon
<1>2. OpToRel(<, Nat) = R
  BY Zenon DEF OpToRel
<1>3. IsWellFoundedOn(R, Nat)
  BY <1>1, <1>2, Zenon
<1>4. \A x, y \in Nat : y < x => <<y, x>> \in R
  OBVIOUS
<1> HIDE DEF R
<1>5. PICK x \in T : \A y \in T : ~ (<<y, x>> \in R)
  BY <1>3, WFMin
<1>6. \A y \in T : ~ (y < x)
  BY <1>4, <1>5, Zenon
<1>7. \A y \in T : x <= y
  BY <1>6
<1> QED BY <1>7

LEMMA SetInduction ==
  ASSUME NEW S, 0 \in S, \A n \in Nat : n \in S => n + 1 \in S
  PROVE  Nat \subseteq S
<1> SUFFICES ASSUME Nat \ S # {} PROVE FALSE
  OBVIOUS
<1>1. PICK m \in Nat \ S : \A k \in Nat \ S : m <= k
  BY LeastNat
<1>2. m # 0 /\ m - 1 \in Nat /\ m - 1 \in S /\ (m - 1) + 1 = m
  BY <1>1
<1> QED BY <1>2

-----------------------------------------------------------------------------
(* Totals and means *)

\* f adds up the first n numbers of s.
Adding(f, s, n) == f = [i \in 0..n |-> IF i = 0 THEN 0 ELSE f[i - 1] + s[i]]

LEMMA AddingExists ==
  ASSUME NEW s, NEW n \in Nat
  PROVE  \E f : Adding(f, s, n)
<1> DEFINE S == {k \in Nat : \E f : Adding(f, s, k)}
<1>1. 0 \in S
  <2>1. Adding([i \in 0..0 |-> 0], s, 0)
    BY DEF Adding
  <2> QED BY <2>1
<1>2. ASSUME NEW k \in Nat, k \in S PROVE k + 1 \in S
  <2>1. PICK f : Adding(f, s, k)
    BY <1>2
  <2> DEFINE g == [i \in 0..(k + 1) |-> IF i <= k THEN f[i] ELSE f[k] + s[k + 1]]
  <2>2. Adding(g, s, k + 1)
    <3>0. \A i \in 0..k : f[i] = IF i = 0 THEN 0 ELSE f[i - 1] + s[i]
      BY <2>1 DEF Adding
    <3>1. ASSUME NEW i \in 0..(k + 1)
          PROVE  g[i] = IF i = 0 THEN 0 ELSE g[i - 1] + s[i]
      <4>1. CASE i = 0
        BY <3>0, <4>1
      <4>2. CASE i # 0 /\ i <= k
        BY <3>0, <4>2
      <4>3. CASE i = k + 1
        BY <3>0, <4>3
      <4> QED BY <4>1, <4>2, <4>3
    <3> HIDE DEF g
    <3>2. g = [i \in 0..(k + 1) |-> g[i]]
      BY DEF g
    <3> QED BY <3>1, <3>2 DEF Adding
  <2> QED BY <2>2
<1> HIDE DEF S
<1>3. n \in S
  BY <1>1, <1>2, SetInduction
<1> QED BY <1>3 DEF S

LEMMA TotalIs ==
  ASSUME NEW s, Len(s) \in Nat
  PROVE  \E f : Adding(f, s, Len(s)) /\ Total(s) = f[Len(s)]
<1> DEFINE f == CHOOSE g : Adding(g, s, Len(s))
<1>1. Adding(f, s, Len(s))
  BY AddingExists
<1>2. Total(s) = f[Len(s)]
  BY Zenon DEF Total, Adding
<1> QED BY <1>1, <1>2

LEMMA FunctionIsSeq ==
  ASSUME NEW n \in Nat, NEW T, NEW f \in [1..n -> T]
  PROVE  f \in Seq(T) /\ Len(f) = n
OBVIOUS

LEMMA TotalType ==
  ASSUME NEW s \in Seq(Nat)
  PROVE  Total(s) \in Nat
<1> DEFINE n == Len(s)
<1>1. PICK f : Adding(f, s, n) /\ Total(s) = f[n]
  BY TotalIs
<1>2. \A i \in 0..n : f[i] = IF i = 0 THEN 0 ELSE f[i - 1] + s[i]
  BY <1>1 DEF Adding
<1> DEFINE K == {k \in Nat : k <= n => f[k] \in Nat}
<1>3. 0 \in K
  BY <1>2
<1>4. ASSUME NEW k \in Nat, k \in K PROVE k + 1 \in K
  <2> SUFFICES ASSUME k + 1 <= n PROVE f[k + 1] \in Nat
    OBVIOUS
  <2>1. f[k] \in Nat /\ k + 1 \in 0..n /\ k + 1 # 0 /\ (k + 1) - 1 = k /\ s[k + 1] \in Nat
    BY <1>4
  <2>2. f[k + 1] = f[k] + s[k + 1]
    BY <1>2, <2>1
  <2> QED BY <2>1, <2>2
<1> HIDE DEF K
<1>5. n \in K
  BY <1>3, <1>4, SetInduction
<1> QED BY <1>1, <1>5 DEF K

LEMMA Distributes == \A m, x, y \in Int : m * (x + y) = m * x + m * y /\ (x + y) * m = m * x + m * y
OBVIOUS

LEMMA Monotone == \A m \in Nat, x, y \in Int : x <= y => m * x <= m * y
OBVIOUS

LEMMA OneIs == One \in Nat /\ One # 0 /\ 0 \in Fractions /\ One \in Fractions /\ Fractions \subseteq Nat
BY GrainAssumption DEF One, Fractions

LEMMA AddingBound ==
  ASSUME NEW n \in Nat, NEW f, NEW s, NEW m \in Nat, \A i \in 1..n : s[i] \in 0..m,
         \A i \in 0..n : f[i] = IF i = 0 THEN 0 ELSE f[i - 1] + s[i]
  PROVE  f[n] \in Nat /\ f[n] <= m * n
<1> DEFINE K == {k \in Nat : k <= n => f[k] \in Nat /\ f[k] <= m * k}
<1>1. 0 \in K
  OBVIOUS
<1>2. ASSUME NEW k \in Nat, k \in K PROVE k + 1 \in K
  <2>0. CASE k + 1 <= n
    <3>1. k + 1 \in 0..n /\ k + 1 # 0 /\ (k + 1) - 1 = k /\ k <= n /\ k + 1 \in 1..n
      BY <2>0
    <3>2. f[k] \in Nat /\ f[k] <= m * k
      BY <1>2, <3>1
    <3>3. f[k + 1] = f[k] + s[k + 1]
      BY <3>1
    <3>4. s[k + 1] \in 0..m
      BY <3>1
    <3> DEFINE a == f[k]
               b == s[k + 1]
               c == f[k + 1]
               p == m * k
               q == m * (k + 1)
    <3>5. q = p + m
      BY Distributes
    <3>6. a \in Nat /\ a <= p /\ b \in 0..m /\ c = a + b /\ p \in Int
      BY <3>2, <3>3, <3>4
    <3> HIDE DEF a, b, c, p, q
    <3>7. c \in Nat /\ c <= q
      BY ONLY m \in Nat, <3>5, <3>6
    <3> QED BY <3>7 DEF c, q
  <2> QED BY <2>0
<1> HIDE DEF K
<1>3. n \in K
  BY <1>1, <1>2, SetInduction
<1> QED BY <1>3 DEF K

LEMMA TotalBound ==
  ASSUME NEW s \in Seq(Fractions)
  PROVE  Total(s) \in Nat /\ Total(s) <= One * Len(s)
<1> DEFINE n == Len(s)
<1>1. n \in Nat /\ \A i \in 1..n : s[i] \in Fractions
  OBVIOUS
<1>2. PICK f : Adding(f, s, n) /\ Total(s) = f[n]
  BY TotalIs
<1>3. \A i \in 0..n : f[i] = IF i = 0 THEN 0 ELSE f[i - 1] + s[i]
  BY <1>2 DEF Adding
<1> HIDE DEF n
<1>4. \A i \in 1..n : s[i] \in 0..One
  BY <1>1 DEF Fractions
<1>5. f[n] \in Nat /\ f[n] <= One * n
  BY <1>1, <1>3, <1>4, AddingBound, OneIs
<1> QED BY <1>2, <1>5, Zenon DEF n

\* x and y differ by at most half a ten-thousandth for each unit of weight z.
Near(x, y, z) == /\ x \in Int /\ y \in Int /\ z \in Int
                 /\ 2 * (x - y) <= Grain * z /\ 2 * (y - x) <= Grain * z

LEMMA NearAdds ==
  ASSUME NEW x, NEW y, NEW z, NEW u, NEW v, NEW w, Near(x, y, z), Near(u, v, w)
  PROVE  Near(x + u, y + v, z + w)
<1> DEFINE gz == Grain * z
           gw == Grain * w
<1>g. Grain \in Int
  BY GrainAssumption
<1>1. /\ x \in Int /\ y \in Int /\ z \in Int /\ u \in Int /\ v \in Int /\ w \in Int
      /\ 2 * (x - y) <= gz /\ 2 * (y - x) <= gz /\ 2 * (u - v) <= gw /\ 2 * (v - u) <= gw
  BY DEF Near
<1>2. gz \in Int /\ gw \in Int /\ Grain * (z + w) = gz + gw
  BY <1>1, <1>g, Distributes
<1> HIDE DEF gz, gw
<1>3. 2 * ((x + u) - (y + v)) <= gz + gw /\ 2 * ((y + v) - (x + u)) <= gz + gw
  BY <1>1, <1>2
<1>4. x + u \in Int /\ y + v \in Int /\ z + w \in Int
  BY <1>1
<1> QED BY <1>2, <1>3, <1>4 DEF Near

\* Two sums whose terms differ little differ little.
LEMMA TotalsNear ==
  ASSUME NEW a, NEW b, NEW c, NEW n \in Nat, Len(a) = n, Len(b) = n, Len(c) = n,
         \A i \in 1..n : Near(a[i], b[i], c[i])
  PROVE  Near(Total(a), Total(b), Total(c))
<1>1. PICK f : Adding(f, a, n) /\ Total(a) = f[n]
  BY TotalIs
<1>2. PICK g : Adding(g, b, n) /\ Total(b) = g[n]
  BY TotalIs
<1>3. PICK h : Adding(h, c, n) /\ Total(c) = h[n]
  BY TotalIs
<1>f. \A i \in 0..n : f[i] = IF i = 0 THEN 0 ELSE f[i - 1] + a[i]
  BY <1>1 DEF Adding
<1>e. \A i \in 0..n : g[i] = IF i = 0 THEN 0 ELSE g[i - 1] + b[i]
  BY <1>2 DEF Adding
<1>h. \A i \in 0..n : h[i] = IF i = 0 THEN 0 ELSE h[i - 1] + c[i]
  BY <1>3 DEF Adding
<1> DEFINE K == {k \in Nat : k <= n => Near(f[k], g[k], h[k])}
<1>4. 0 \in K
  <2>1. 0 \in 0..n
    OBVIOUS
  <2>2. f[0] = 0 /\ g[0] = 0 /\ h[0] = 0
    BY <1>f, <1>e, <1>h, <2>1
  <2>3. Near(0, 0, 0)
    BY GrainAssumption DEF Near
  <2> QED BY <2>2, <2>3
<1>5. ASSUME NEW k \in Nat, k \in K PROVE k + 1 \in K
  <2>0. CASE k + 1 <= n
    <3>1. Near(f[k], g[k], h[k]) /\ k + 1 \in 0..n /\ k + 1 # 0 /\ (k + 1) - 1 = k /\ k + 1 \in 1..n
      BY <1>5, <2>0
    <3>2. f[k + 1] = f[k] + a[k + 1]
      BY <1>f, <3>1
    <3>3. g[k + 1] = g[k] + b[k + 1]
      BY <1>e, <3>1
    <3>4. h[k + 1] = h[k] + c[k + 1]
      BY <1>h, <3>1
    <3>5. Near(a[k + 1], b[k + 1], c[k + 1])
      BY <3>1
    <3>6. Near(f[k + 1], g[k + 1], h[k + 1])
      BY <3>1, <3>2, <3>3, <3>4, <3>5, NearAdds
    <3> QED BY <3>6
  <2> QED BY <2>0
<1> HIDE DEF K
<1>6. n \in K
  BY <1>4, <1>5, SetInduction
<1>7. Near(f[n], g[n], h[n])
  BY <1>6 DEF K
<1> QED BY <1>1, <1>2, <1>3, <1>7

LEMMA MeanBound ==
  ASSUME NEW a \in Nat, NEW b \in Nat \ {0}, a <= One * b
  PROVE  a \div b \in Fractions
<1> DEFINE q == a \div b
<1>1. q \in Int /\ b * q <= a /\ a < b * q + b
  OBVIOUS
<1> HIDE DEF q
<1>2. q >= 0
  BY <1>1
<1>3. q <= One
  <2> SUFFICES ASSUME One + 1 <= q PROVE FALSE
    BY <1>1, OneIs
  <2>1. b * (One + 1) <= b * q
    BY <1>1, OneIs, Monotone
  <2>2. b * (One + 1) = One * b + b
    BY OneIs
  <2>3. One * b \in Int /\ b * q \in Int
    BY <1>1, OneIs
  <2> QED BY <1>1, <2>1, <2>2, <2>3
<1> QED BY <1>1, <1>2, <1>3, OneIs DEF q, Fractions

-----------------------------------------------------------------------------
(* Signals and scores *)

LEMMA FractionsAreNat == Fractions \subseteq Nat
BY OneIs

LEMMA TheMember ==
  ASSUME NEW S, S # {}
  PROVE  The(S) \in S
BY DEF The

LEMMA ClampType ==
  ASSUME NEW v \in Int
  PROVE  Clamp(v) \in Fractions
BY OneIs DEF Clamp, Fractions

\* Rounding moves a number by at most half a ten-thousandth.
LEMMA RoundedNear ==
  ASSUME NEW num \in Int, NEW den \in Nat \ {0}
  PROVE  /\ Rounded(num, den) \in Int
         /\ 2 * (Rounded(num, den) * den - num) <= Grain * den
         /\ 2 * (num - Rounded(num, den) * den) <= Grain * den
<1> DEFINE half == den * Grain
           sum == 2 * num + half
           q == sum \div (2 * half)
           r == sum % (2 * half)
           d == IF r = 0 /\ q % 2 = 1 THEN q - 1 ELSE q
<1>1. Rounded(num, den) = Grain * d
  BY Zenon DEF Rounded
<1>2. half \in Nat /\ half > 0
  BY GrainAssumption
<1> HIDE DEF half
<1>3. sum \in Int /\ 2 * half \in Nat /\ 2 * half > 0
  BY <1>2
<1>s. sum = 2 * num + half
  OBVIOUS
<1> HIDE DEF sum
<1>4. q \in Int /\ r \in 0..(2 * half - 1) /\ sum = (2 * half) * q + r
  BY <1>3
<1> HIDE DEF q, r
<1>5. d \in Int /\ (d = q \/ (r = 0 /\ d = q - 1))
  BY <1>4
<1> HIDE DEF d
<1> DEFINE x == half * q
           y == half * d
<1>6. x \in Int /\ y \in Int /\ sum = 2 * x + r /\ (y = x \/ (r = 0 /\ y = x - half))
  BY <1>2, <1>4, <1>5
<1>7. (Grain * d) * den = y /\ Grain * den = half /\ Grain * d \in Int
  BY <1>5, GrainAssumption DEF half
<1> HIDE DEF x, y
<1>8. 2 * (y - num) <= half /\ 2 * (num - y) <= half
  BY ONLY num \in Int, <1>2, <1>4, <1>s, <1>6
<1> QED BY <1>1, <1>7, <1>8

\* A fraction, or none.
Options == {{}} \cup {{v} : v \in Fractions}

\* judge_locally takes at least one sample; what it judges is in range.
LEMMA JudgmentFacts ==
  ASSUME NEW j \in Judgments
  PROVE  /\ j.samples \in Seq(Answers) /\ Len(j.samples) \in Nat \ {0}
         /\ j.disagree \in Fractions /\ j.critique.severity \in Fractions
<1>1. j.disagree \in Fractions
  BY TuningAssumption DEF Judgments
<1>2. j.critique.severity \in Fractions
  <2>1. One \in Fractions
    BY OneIs
  <2>2. j.critique \in Critiques \cup {[passed |-> FALSE, severity |-> One, skipped |-> TRUE]}
    BY DEF Judgments
  <2>3. \A c \in Critiques : c.severity \in Fractions
    BY TuningAssumption
  <2> QED BY <2>1, <2>2, <2>3
<1>3. j.samples \in UNION {[1..n -> Answers] : n \in 1..LocalSamples}
  BY DEF Judgments
<1>4. PICK n \in 1..LocalSamples : j.samples \in [1..n -> Answers]
  BY <1>3
<1>5. n \in Nat \ {0}
  BY TuningAssumption
<1>6. j.samples \in Seq(Answers) /\ Len(j.samples) = n
  BY <1>4, <1>5
<1> QED BY <1>1, <1>2, <1>5, <1>6

LEMMA SampleFacts ==
  ASSUME NEW a \in Answers
  PROVE  /\ a.confidence \in Fractions
         /\ \A t \in a.tokens : t.prob \in Fractions /\ t.hesitation \in Fractions
BY TuningAssumption DEF FourDigits

LEMMA TokenBound ==
  ASSUME NEW signal, NEW samples \in Seq(Answers)
  PROVE  TokenUncertainty(signal, samples) \in Options
<1> DEFINE n == Len(samples)
           known == {i \in DOMAIN samples : samples[i].tokens # {}}
           stat(t) == IF signal = "hesitation" THEN t.hesitation ELSE t.prob
           values == [i \in 1..n |-> IF i \in known THEN stat(The(samples[i].tokens)) ELSE 0]
           mean == Total(values) \div Cardinality(known)
<1>0. n \in Nat /\ DOMAIN samples = 1..n /\ \A i \in 1..n : samples[i] \in Answers
  OBVIOUS
<1>1. CASE known = {}
  BY <1>1 DEF TokenUncertainty, Options
<1>2. CASE known # {}
  <2>1. \A i \in 1..n : values[i] \in Nat
    <3> SUFFICES ASSUME NEW i \in 1..n PROVE values[i] \in Nat
      OBVIOUS
    <3>1. CASE i \notin known
      BY <3>1
    <3>2. CASE i \in known
      <4>1. samples[i] \in Answers /\ samples[i].tokens # {}
        BY <1>0, <3>2
      <4>2. The(samples[i].tokens) \in samples[i].tokens
        BY <4>1, TheMember
      <4>3. stat(The(samples[i].tokens)) \in Fractions
        BY <4>1, <4>2, SampleFacts
      <4> QED BY <3>2, <4>3, FractionsAreNat
    <3> QED BY <3>1, <3>2
  <2>2. values \in Seq(Nat)
    <3>1. values \in [1..n -> Nat]
      BY <2>1
    <3> HIDE DEF values
    <3> QED BY <1>0, <3>1
  <2>3. Total(values) \in Nat
    BY <2>2, TotalType
  <2>4. Cardinality(known) \in Nat /\ Cardinality(known) # 0
    <3>1. IsFiniteSet(1..n) /\ known \subseteq 1..n
      BY <1>0, FS_Interval
    <3>2. IsFiniteSet(known)
      BY <3>1, FS_Subset
    <3> HIDE DEF known
    <3> QED BY <1>2, <3>2, FS_CardinalityType, FS_EmptySet
  <2>5. mean \in Int
    <3> HIDE DEF values, known
    <3> QED BY <2>3, <2>4
  <2>6. TokenUncertainty(signal, samples) = {Clamp(IF signal = "hesitation" THEN mean ELSE One - mean)}
    BY <1>2, Zenon DEF TokenUncertainty
  <2> HIDE DEF mean
  <2>7. (IF signal = "hesitation" THEN mean ELSE One - mean) \in Int
    BY <2>5, OneIs
  <2> QED BY <2>6, <2>7, ClampType DEF Options
<1> QED BY <1>1, <1>2

LEMMA NamesFacts ==
  /\ Len(SignalNames) = 6
  /\ \A i \in 1..6 : SignalNames[i] \in Range(SignalNames)
  /\ Range(SignalNames) = {"self_uncertainty", "token_uncertainty", "inconsistency",
                           "critic_risk", "task_complexity", "explicit_escalation"}
<1>1. Len(SignalNames) = 6 /\ DOMAIN SignalNames = 1..6
  BY DEF SignalNames
<1>2. \A i \in 1..6 : SignalNames[i] \in Range(SignalNames)
  BY <1>1 DEF Range
<1>3. /\ SignalNames[1] = "self_uncertainty" /\ SignalNames[2] = "token_uncertainty"
      /\ SignalNames[3] = "inconsistency" /\ SignalNames[4] = "critic_risk"
      /\ SignalNames[5] = "task_complexity" /\ SignalNames[6] = "explicit_escalation"
  BY DEF SignalNames
<1>4. 1..6 = {1, 2, 3, 4, 5, 6}
  OBVIOUS
<1>5. Range(SignalNames) = {SignalNames[i] : i \in {1, 2, 3, 4, 5, 6}}
  BY <1>1, <1>4, Zenon DEF Range
<1> QED BY <1>1, <1>2, <1>3, <1>5

\* Every value is a fraction, or none.
LEMMA ValueBound ==
  ASSUME NEW signal, NEW complexity \in Fractions, NEW j \in Judgments
  PROVE  \A k \in Range(SignalNames) : Values(signal, complexity, j)[k] \in Options
<1> DEFINE samples == j.samples
           values == [i \in 1..Len(samples) |-> samples[i].confidence]
           mean == Total(values) \div Len(samples)
           vals == Values(signal, complexity, j)
<1>0. /\ samples \in Seq(Answers) /\ Len(samples) \in Nat \ {0}
      /\ j.disagree \in Fractions /\ j.critique.severity \in Fractions
  BY JudgmentFacts
<1>1. mean \in Fractions
  <2>1. \A i \in 1..Len(samples) : samples[i] \in Answers
    BY <1>0
  <2>2. values \in [1..Len(samples) -> Fractions]
    BY <2>1, SampleFacts
  <2>3. values \in Seq(Fractions) /\ Len(values) = Len(samples)
    <3> HIDE DEF values, samples
    <3> QED BY <1>0, <2>2
  <2> HIDE DEF values, samples
  <2>4. Total(values) \in Nat /\ Total(values) <= One * Len(samples)
    BY <2>3, TotalBound
  <2> QED BY <1>0, <2>4, MeanBound
<1>2. TokenUncertainty(signal, samples) \in Options
  BY <1>0, TokenBound
<1>3. 0 \in Fractions /\ One \in Fractions /\ \A v \in Fractions : One - v \in Fractions
  BY OneIs DEF Fractions
<1>4. vals = [self_uncertainty    |-> {One - mean},
             token_uncertainty   |-> TokenUncertainty(signal, samples),
             inconsistency       |-> {IF Len(samples) > 1 THEN j.disagree ELSE 0},
             critic_risk         |-> {j.critique.severity},
             task_complexity     |-> {complexity},
             explicit_escalation |-> {IF AnyNeeds(samples) THEN One ELSE 0}]
  BY Zenon DEF Values
<1> HIDE DEF vals, mean, samples
<1>5. /\ vals["self_uncertainty"] = {One - mean}
      /\ vals["token_uncertainty"] = TokenUncertainty(signal, samples)
      /\ vals["inconsistency"] = {IF Len(samples) > 1 THEN j.disagree ELSE 0}
      /\ vals["critic_risk"] = {j.critique.severity}
      /\ vals["task_complexity"] = {complexity}
      /\ vals["explicit_escalation"] = {IF AnyNeeds(samples) THEN One ELSE 0}
  BY <1>4
<1>6. One - mean \in Fractions
  BY <1>1, <1>3
<1>7. (IF Len(samples) > 1 THEN j.disagree ELSE 0) \in Fractions
  BY <1>0, <1>3, Zenon
<1>8. (IF AnyNeeds(samples) THEN One ELSE 0) \in Fractions
  BY <1>3, Zenon
<1>9. /\ vals["self_uncertainty"] \in Options /\ vals["token_uncertainty"] \in Options
      /\ vals["inconsistency"] \in Options /\ vals["critic_risk"] \in Options
      /\ vals["task_complexity"] \in Options /\ vals["explicit_escalation"] \in Options
  <2>1. \A v \in Fractions : {v} \in Options
    BY Zenon DEF Options
  <2>2. {One - mean} \in Options /\ {j.critique.severity} \in Options /\ {complexity} \in Options
    BY <1>0, <1>6, <2>1, Zenon
  <2>3. {IF Len(samples) > 1 THEN j.disagree ELSE 0} \in Options
    BY <1>7, <2>1, Zenon
  <2>4. {IF AnyNeeds(samples) THEN One ELSE 0} \in Options
    BY <1>8, <2>1, Zenon
  <2> QED BY <1>2, <1>5, <2>2, <2>3, <2>4, Zenon
<1>10. \A k \in Range(SignalNames) : vals[k] \in Options
  BY <1>9, NamesFacts, Zenon
<1> QED BY <1>10 DEF vals

LEMMA SignalIs ==
  ASSUME NEW signal, NEW complexity, NEW j, NEW k \in Range(SignalNames)
  PROVE  Signals(signal, complexity, j)[k] = {Rounded(v, 1) : v \in Values(signal, complexity, j)[k]}
BY Zenon DEF Signals

\* The engine's comparison, of a rounded score, and the replay's, of rounded signals, agree
\* unless the exact score is close to the threshold.
LEMMA SameScore ==
  ASSUME NEW weights \in [Range(SignalNames) -> Nat], NEW threshold \in Fractions, NEW values, NEW signals,
         \A k \in Range(SignalNames) : values[k] \in Options,
         \A k \in Range(SignalNames) : signals[k] = {Rounded(v, 1) : v \in values[k]},
         LET weight == Weight(weights, values)
             gap    == Weighted(weights, values) - threshold * weight
         IN  ~ (weight > 0 /\ 2 * gap <= Grain * weight /\ -2 * gap <= Grain * weight)
  PROVE  CombinedScore(weights, values) >= threshold <=> ScoreReaches(weights, signals, threshold)
<1> DEFINE names == 1..Len(SignalNames)
           a == [i \in names |-> IF signals[SignalNames[i]] = {} THEN 0
                                  ELSE weights[SignalNames[i]] * The(signals[SignalNames[i]])]
           b == [i \in names |-> IF values[SignalNames[i]] = {} THEN 0
                                  ELSE weights[SignalNames[i]] * The(values[SignalNames[i]])]
           c == [i \in names |-> IF values[SignalNames[i]] = {} THEN 0 ELSE weights[SignalNames[i]]]
           e == [i \in names |-> IF signals[SignalNames[i]] = {} THEN 0 ELSE weights[SignalNames[i]]]
<1>1. Len(SignalNames) \in Nat /\ \A i \in names : SignalNames[i] \in Range(SignalNames)
  BY NamesFacts
<1>g. Grain \in Nat /\ Grain # 0
  BY GrainAssumption
<1>2. \A k \in Range(SignalNames) :
        \/ values[k] = {} /\ signals[k] = {}
        \/ /\ values[k] # {} /\ signals[k] # {} /\ The(values[k]) \in Nat
           /\ The(signals[k]) = Rounded(The(values[k]), 1)
  <2> SUFFICES ASSUME NEW k \in Range(SignalNames), values[k] # {}
               PROVE  /\ values[k] # {} /\ signals[k] # {} /\ The(values[k]) \in Nat
                      /\ The(signals[k]) = Rounded(The(values[k]), 1)
    OBVIOUS
  <2>1. PICK v \in Fractions : values[k] = {v}
    BY DEF Options
  <2>2. signals[k] = {Rounded(v, 1)}
    BY <2>1
  <2>3. The(values[k]) = v /\ The(signals[k]) = Rounded(v, 1)
    BY <2>1, <2>2, TheMember
  <2> QED BY <2>1, <2>2, <2>3, FractionsAreNat
<1>3. e = c
  BY <1>1, <1>2
<1>4. \A i \in names : /\ a[i] \in Int /\ b[i] \in Nat /\ c[i] \in Nat
                        /\ 2 * (a[i] - b[i]) <= Grain * c[i] /\ 2 * (b[i] - a[i]) <= Grain * c[i]
  <2> SUFFICES ASSUME NEW i \in names
               PROVE  /\ a[i] \in Int /\ b[i] \in Nat /\ c[i] \in Nat
                      /\ 2 * (a[i] - b[i]) <= Grain * c[i] /\ 2 * (b[i] - a[i]) <= Grain * c[i]
    OBVIOUS
  <2> DEFINE k == SignalNames[i]
             w == weights[k]
             v == The(values[k])
             r == Rounded(v, 1)
  <2>1. k \in Range(SignalNames) /\ w \in Nat
    BY <1>1
  <2>2. CASE values[k] = {}
    <3>1. a[i] = 0 /\ b[i] = 0 /\ c[i] = 0
      BY <1>2, <2>1, <2>2
    <3> HIDE DEF a, b, c
    <3> QED BY <3>1, <1>g
  <2>3. CASE values[k] # {}
    <3>1. v \in Nat /\ a[i] = w * r /\ b[i] = w * v /\ c[i] = w
      BY <1>2, <2>1, <2>3
    <3>2. r \in Int /\ 2 * (r - v) <= Grain /\ 2 * (v - r) <= Grain
      <4>1. r \in Int /\ 2 * (r * 1 - v) <= Grain * 1 /\ 2 * (v - r * 1) <= Grain * 1
        BY <3>1, RoundedNear
      <4> HIDE DEF r, v
      <4> QED BY <4>1, <1>g
    <3> HIDE DEF a, b, c, k, w, v, r
    <3>3. w * (2 * (r - v)) <= w * Grain /\ w * (2 * (v - r)) <= w * Grain
      <4> DEFINE x == 2 * (r - v)
                 y == 2 * (v - r)
      <4>1. x \in Int /\ y \in Int /\ x <= Grain /\ y <= Grain /\ w \in Nat /\ Grain \in Int
        BY <2>1, <3>1, <3>2, <1>g
      <4> HIDE DEF x, y
      <4>2. w * x <= w * Grain /\ w * y <= w * Grain
        BY <4>1, Monotone
      <4> QED BY <4>2 DEF x, y
    <3>4. w * (2 * (r - v)) = 2 * (w * r - w * v) /\ w * (2 * (v - r)) = 2 * (w * v - w * r) /\ w * Grain = Grain * w
      BY <2>1, <3>1, <3>2, <1>g
    <3>5. w * r \in Int /\ w * v \in Nat
      BY <2>1, <3>1, <3>2
    <3> QED BY <2>1, <3>1, <3>3, <3>4, <3>5
  <2> QED BY <2>2, <2>3
<1> DEFINE num == Total(b)
           sum == Total(a)
           w == Total(c)
<1>5. /\ sum \in Int /\ num \in Int /\ w \in Int
      /\ 2 * (sum - num) <= Grain * w /\ 2 * (num - sum) <= Grain * w
  <2> DEFINE n == Len(SignalNames)
  <2>1. Len(a) = n /\ Len(b) = n /\ Len(c) = n
    <3>1. a \in [names -> Int] /\ b \in [names -> Int] /\ c \in [names -> Int]
      <4>1. a = [i \in names |-> a[i]] /\ b = [i \in names |-> b[i]] /\ c = [i \in names |-> c[i]]
        OBVIOUS
      <4> HIDE DEF a, b, c
      <4> QED BY <1>4, <4>1
    <3> HIDE DEF a, b, c
    <3> QED BY <1>1, <3>1, FunctionIsSeq
  <2>2. \A i \in 1..n : Near(a[i], b[i], c[i])
    <3> HIDE DEF a, b, c
    <3> QED BY <1>4 DEF Near
  <2> HIDE DEF a, b, c, n
  <2>3. Near(Total(a), Total(b), Total(c))
    BY <1>1, <2>1, <2>2, TotalsNear DEF n
  <2> QED BY <2>3 DEF Near
<1>6. num \in Nat /\ w \in Nat
  <2>1. b \in Seq(Nat) /\ c \in Seq(Nat)
    <3>1. b = [i \in names |-> b[i]] /\ c = [i \in names |-> c[i]]
      OBVIOUS
    <3> HIDE DEF b, c
    <3>2. b \in [names -> Nat] /\ c \in [names -> Nat]
      BY <1>4, <3>1
    <3> QED BY <1>1, <3>2, FunctionIsSeq
  <2> QED BY <2>1, TotalType
<1>7. /\ Weight(weights, values) = w /\ Weighted(weights, values) = num
      /\ Weight(weights, signals) = w /\ Weighted(weights, signals) = sum
  BY <1>3, Zenon DEF Weight, Weighted
<1> HIDE DEF num, sum, w
<1>t. threshold \in Nat /\ threshold <= One /\ One \in Nat
  BY OneIs DEF Fractions
<1>8. CASE w = 0
  <2>1. CombinedScore(weights, values) = 0 /\ (ScoreReaches(weights, signals, threshold) <=> threshold <= 0)
    BY <1>7, <1>8 DEF CombinedScore, ScoreReaches
  <2> QED BY <2>1, <1>t
<1>9. CASE w # 0
  <2> DEFINE r == Rounded(num, w)
             t == threshold * w
             gw == Grain * w
             rw == r * w
  <2>1. r \in Int /\ 2 * (rw - num) <= gw /\ 2 * (num - rw) <= gw
    BY <1>6, <1>9, RoundedNear
  <2>2. /\ CombinedScore(weights, values) = Clamp(r)
        /\ ScoreReaches(weights, signals, threshold) <=> sum >= t
    BY <1>7, <1>9 DEF CombinedScore, ScoreReaches
  <2>3. ~ (2 * (num - t) <= gw /\ -2 * (num - t) <= gw)
    BY <1>6, <1>7, <1>9
  <2>4. t \in Nat /\ gw \in Nat /\ rw \in Int
    BY <1>6, <1>g, <1>t, <2>1
  <2>5. (rw > t => r > threshold) /\ (rw < t => r < threshold)
    <3>1. r <= threshold => rw <= t
      <4>1. r <= threshold => w * r <= w * threshold
        BY <1>6, <1>t, <2>1, Monotone
      <4>2. w * r = rw /\ w * threshold = t
        BY <1>6, <1>t, <2>1
      <4> QED BY <4>1, <4>2
    <3>2. threshold <= r => t <= rw
      <4>1. threshold <= r => w * threshold <= w * r
        BY <1>6, <1>t, <2>1, Monotone
      <4>2. w * r = rw /\ w * threshold = t
        BY <1>6, <1>t, <2>1
      <4> QED BY <4>1, <4>2
    <3> HIDE DEF r, t, rw
    <3> QED BY <1>t, <2>1, <2>4, <3>1, <3>2
  <2>6. threshold = 0 => t = 0
    BY <1>6, <1>t
  <2>7. 2 * (sum - num) <= gw /\ 2 * (num - sum) <= gw /\ sum \in Int
    BY <1>5
  <2> HIDE DEF r, t, gw, rw
  <2>8. CASE 2 * (num - t) > gw
    <3>1. rw > t /\ sum >= t
      BY <1>6, <2>1, <2>4, <2>7, <2>8
    <3>2. Clamp(r) >= threshold
      BY <1>t, <2>1, <2>5, <3>1 DEF Clamp
    <3> QED BY <2>2, <3>1, <3>2
  <2>9. CASE 2 * (t - num) > gw
    <3>1. rw < t /\ ~ (sum >= t) /\ t > 0
      BY <1>6, <2>1, <2>4, <2>7, <2>9
    <3>2. ~ (Clamp(r) >= threshold)
      BY <1>t, <2>1, <2>5, <2>6, <3>1 DEF Clamp
    <3> QED BY <2>2, <3>1, <3>2
  <2>10. 2 * (num - t) > gw \/ 2 * (t - num) > gw
    BY <1>6, <2>3, <2>4
  <2> QED BY <2>8, <2>9, <2>10
<1> QED BY <1>8, <1>9

-----------------------------------------------------------------------------
(* The tune command *)

\* How many models the probe has asked, unless it was cut off, and the smallest n of them.
Reached == IF phase = "profiling" THEN rung - 1 ELSE Len(LocalTiers)

Smallest(n) == {LocalTiers[i] : i \in 1..n}

\* The engine's answer to whether a local model is trusted with a reply.
TrustsReply(tier, judgment) == ~Skipped(tier, Described.skipAbove) /\ ~Escalates(Described, tier, case, judgment)
Trusts(tier) == TrustsReply(tier, replies[tier])

\* What simulate returns.
Replayed ==
  LET trusted == {i \in DOMAIN LocalTiers : LocalTiers[i] \in DOMAIN prof /\ SimulateTrusts(LocalTiers[i])}
  IN  IF BigGoal(params, case.parts) \/ trusted = {} THEN "cloud" ELSE LocalTiers[Min(trusted)]

InputInv ==
  /\ case \in Cases /\ policy \in Deployed /\ params \in {Current(policy)} \cup Candidates
  /\ phase \in {"profiling", "replaying", "routing", "over"}
  /\ rung \in 1..Len(LocalTiers)

\* The profile has the models reached so far, with what they replied.
ProfileInv ==
  /\ DOMAIN prof \subseteq DOMAIN replies
  /\ \A t \in DOMAIN replies : replies[t] \in Judgments
  /\ \A t \in DOMAIN prof : prof[t] = Recorded(replies[t])
  /\ stopped \in BOOLEAN /\ (stopped => phase # "profiling")
  /\ \E n \in 0..Len(LocalTiers) : DOMAIN prof = Smallest(n) /\ (stopped \/ n = Reached)

\* How far the engine's loop has come.
RoutedInv ==
  /\ phase = "replaying" => rung = 1
  /\ phase \in {"routing", "over"} => simulated = Replayed
  /\ phase = "routing" => \A i \in 1..(rung - 1) : LocalTiers[i] \in DOMAIN replies /\ ~Trusts(LocalTiers[i])
  /\ phase = "over" =>
       \/ /\ \A i \in 1..Len(LocalTiers) : ~Trusts(LocalTiers[i])
          /\ routed = "cloud"
       \/ \E i \in 1..Len(LocalTiers) :
            /\ Trusts(LocalTiers[i]) /\ routed = LocalTiers[i]
            /\ \A k \in 1..(i - 1) : ~Trusts(LocalTiers[k])

TuneInv == InputInv /\ ProfileInv /\ RoutedInv

LEMMA TierFacts ==
  /\ Len(LocalTiers) \in Nat \ {0}
  /\ \A i \in 1..Len(LocalTiers) : LocalTiers[i] \in {"local", "mid"}
  /\ DOMAIN LocalTiers = 1..Len(LocalTiers)
  /\ \A i, j \in 1..Len(LocalTiers) : LocalTiers[i] = LocalTiers[j] => i = j
  /\ Range(LocalTiers) = Smallest(Len(LocalTiers))
<1>1. CASE LocalTiers = <<"local">>
  BY <1>1 DEF Range, Smallest
<1>2. CASE LocalTiers = <<"mid">>
  BY <1>2 DEF Range, Smallest
<1>3. CASE LocalTiers = <<"local", "mid">>
  BY <1>3 DEF Range, Smallest
<1> QED BY <1>1, <1>2, <1>3, TuningAssumption

LEMMA ProbeFacts ==
  ASSUME policy \in Deployed
  PROVE  /\ Probe.skipAbove = {} /\ Probe.tokenSignal = policy.tokenSignal
         /\ Probe.weights \in [Range(SignalNames) -> Nat]
         /\ \A t \in {"local", "mid"} : Probe.thresholds[t] = 0
BY TuningAssumption DEF Probe, PolicyType

LEMMA ScoreType ==
  ASSUME NEW weights \in [Range(SignalNames) -> Nat], NEW values,
         \A k \in Range(SignalNames) : values[k] \in Options
  PROVE  CombinedScore(weights, values) \in Fractions
<1> DEFINE names == 1..Len(SignalNames)
           b == [i \in names |-> IF values[SignalNames[i]] = {} THEN 0
                                  ELSE weights[SignalNames[i]] * The(values[SignalNames[i]])]
           c == [i \in names |-> IF values[SignalNames[i]] = {} THEN 0 ELSE weights[SignalNames[i]]]
<1>1. Len(SignalNames) \in Nat /\ \A i \in names : SignalNames[i] \in Range(SignalNames)
  BY NamesFacts
<1>2. \A i \in names : b[i] \in Nat /\ c[i] \in Nat
  <2> SUFFICES ASSUME NEW i \in names PROVE b[i] \in Nat /\ c[i] \in Nat
    OBVIOUS
  <2> DEFINE k == SignalNames[i]
  <2>1. k \in Range(SignalNames) /\ weights[k] \in Nat
    BY <1>1
  <2>2. CASE values[k] = {}
    BY <2>2
  <2>3. CASE values[k] # {}
    <3>1. The(values[k]) \in Nat
      BY <2>1, <2>3, TheMember, FractionsAreNat DEF Options
    <3>2. weights[k] * The(values[k]) \in Nat
      BY <2>1, <3>1
    <3> QED BY <2>1, <2>3, <3>2
  <2> QED BY <2>2, <2>3
<1>3. b \in Seq(Nat) /\ c \in Seq(Nat)
  <2>1. b = [i \in names |-> b[i]] /\ c = [i \in names |-> c[i]]
    OBVIOUS
  <2> HIDE DEF b, c
  <2>2. b \in [names -> Nat] /\ c \in [names -> Nat]
    BY <1>2, <2>1
  <2> QED BY <1>1, <2>2, FunctionIsSeq
<1>4. Weight(weights, values) = Total(c) /\ Weighted(weights, values) = Total(b)
  BY Zenon DEF Weight, Weighted
<1>5. Total(b) \in Nat /\ Total(c) \in Nat
  BY <1>3, TotalType
<1> DEFINE num == Weighted(weights, values)
           w == Weight(weights, values)
<1>6. num \in Nat /\ w \in Nat
  BY <1>4, <1>5
<1> HIDE DEF num, w
<1>7. CombinedScore(weights, values) = IF w = 0 THEN 0 ELSE Clamp(Rounded(num, w))
  BY Zenon DEF CombinedScore, num, w
<1>8. w # 0 => Rounded(num, w) \in Int
  BY <1>6, RoundedNear
<1> QED BY <1>6, <1>7, <1>8, ClampType, OneIs

\* Nothing but a call that does not return keeps the probe from asking the next model.
LEMMA ProbeEscalates ==
  ASSUME InputInv, NEW t \in {"local", "mid"}, NEW j \in Judgments
  PROVE  ~Skipped(t, Probe.skipAbove) /\ Escalates(Probe, t, case, j)
<1>0. policy \in Deployed /\ case.complexity \in Fractions
  BY TuningAssumption DEF InputInv
<1>1. ~Skipped(t, Probe.skipAbove)
  BY <1>0, ProbeFacts DEF Skipped, Skips
<1>2. Probe.thresholds[t] = 0 /\ Probe.weights \in [Range(SignalNames) -> Nat]
  BY <1>0, ProbeFacts
<1> DEFINE vals == Values(Probe.tokenSignal, case.complexity, j)
<1>3. \A k \in Range(SignalNames) : vals[k] \in Options
  BY <1>0, ValueBound
<1> HIDE DEF vals
<1>4. CombinedScore(Probe.weights, vals) \in Nat
  BY <1>2, <1>3, ScoreType, FractionsAreNat
<1>5. CombinedScore(Probe.weights, vals) >= Probe.thresholds[t]
  BY <1>2, <1>4
<1> QED BY <1>1, <1>5 DEF Escalates, vals

LEMMA InitTune == Init => TuneInv
<1> SUFFICES ASSUME Init PROVE TuneInv
  OBVIOUS
<1>1. InputInv
  BY TierFacts DEF Init, InputInv
<1>2. ProfileInv
  <2>1. Reached = 0 /\ Smallest(0) = {} /\ 0 \in 0..Len(LocalTiers)
    BY TierFacts DEF Init, Reached, Smallest
  <2>2. DOMAIN prof = {} /\ DOMAIN replies = {} /\ stopped = FALSE
    BY DEF Init
  <2> QED BY <2>1, <2>2 DEF ProfileInv
<1>3. RoutedInv
  BY DEF Init, RoutedInv
<1> QED BY <1>1, <1>2, <1>3 DEF TuneInv

\* What the engine and simulate decide depends on the input, the replies and the profile.
LEMMA SameTrusts ==
  ASSUME UNCHANGED input
  PROVE  \A t : Trusts(t)' <=> TrustsReply(t, replies'[t])
<1>1. Described' = Described /\ case' = case
  BY DEF Described, input
<1>2. \A t, j : TrustsReply(t, j)' <=> TrustsReply(t, j)
  BY <1>1 DEF TrustsReply, Skipped, Skips, Escalates
<1> QED BY <1>1 DEF Trusts, TrustsReply, Skipped, Skips, Escalates

LEMMA SameReplayed ==
  ASSUME UNCHANGED <<input, prof>>
  PROVE  Replayed' = Replayed
BY DEF Replayed, input, SimulateTrusts, SignalsOf, Skips

LEMMA SameRecorded ==
  ASSUME UNCHANGED input
  PROVE  \A j : Recorded(j)' = Recorded(j)
BY DEF Recorded, Probe, input

LEMMA ProfileTierTune ==
  ASSUME TuneInv, ProfileTier
  PROVE  TuneInv'
<1>0. InputInv /\ ProfileInv /\ RoutedInv /\ phase = "profiling" /\ UNCHANGED <<input, stopped>>
  BY DEF TuneInv, ProfileTier
<1> DEFINE tier == LocalTiers[rung]
           last == rung = Len(LocalTiers)
<1>1. tier \in {"local", "mid"} /\ rung \in 1..Len(LocalTiers) /\ policy \in Deployed /\ Len(LocalTiers) \in Nat
  BY <1>0, TierFacts DEF InputInv
<1>2. PICK j \in Judgments :
        LET skipped == Skipped(tier, Probe.skipAbove)
            over    == rung = Len(LocalTiers) \/ (~skipped /\ ~Escalates(Probe, tier, case, j))
        IN  /\ replies' = With(replies, tier, j)
            /\ prof' = IF skipped THEN prof ELSE With(prof, tier, Recorded(j))
            /\ phase' = IF over THEN "replaying" ELSE "profiling"
            /\ rung' = IF over THEN 1 ELSE rung + 1
  BY Zenon DEF ProfileTier
<1>3. ~Skipped(tier, Probe.skipAbove) /\ Escalates(Probe, tier, case, j)
  BY <1>0, <1>1, ProbeEscalates
<1>4. /\ replies' = With(replies, tier, j)
      /\ prof' = With(prof, tier, Recorded(j))
      /\ phase' = IF last THEN "replaying" ELSE "profiling"
      /\ rung' = IF last THEN 1 ELSE rung + 1
  BY <1>2, <1>3
<1>5. InputInv'
  BY <1>0, <1>1, <1>4 DEF InputInv, input, Current
<1>6. Reached = rung - 1 /\ Reached' = rung /\ Smallest(rung) = Smallest(rung - 1) \cup {tier}
  <2>1. Reached = rung - 1 /\ Reached' = rung
    BY <1>0, <1>1, <1>4 DEF Reached
  <2>2. 1..rung = 1..(rung - 1) \cup {rung}
    BY <1>1
  <2> QED BY <2>1, <2>2 DEF Smallest
<1>7. ProfileInv'
  <2>1. DOMAIN prof = Smallest(rung - 1) /\ DOMAIN prof \subseteq DOMAIN replies /\ stopped = FALSE
    BY <1>0, <1>6 DEF ProfileInv
  <2>2. /\ DOMAIN prof' = DOMAIN prof \cup {tier} /\ DOMAIN replies' = DOMAIN replies \cup {tier}
        /\ \A t \in DOMAIN replies' : replies'[t] = IF t = tier THEN j ELSE replies[t]
        /\ \A t \in DOMAIN prof' : prof'[t] = IF t = tier THEN Recorded(j) ELSE prof[t]
    <3> HIDE DEF tier
    <3> QED BY <1>4 DEF With
  <2>3. \A t \in DOMAIN replies' : replies'[t] \in Judgments
    BY <1>0, <2>2 DEF ProfileInv
  <2>4. \A t \in DOMAIN prof' : prof'[t] = Recorded(replies'[t])
    BY <1>0, <2>1, <2>2 DEF ProfileInv
  <2>5. \A t \in DOMAIN prof' : prof'[t] = Recorded(replies[t])'
    BY <1>0, <2>4 DEF Recorded, Probe, input
  <2>6. DOMAIN prof' = Smallest(rung) /\ rung \in 0..Len(LocalTiers) /\ DOMAIN prof' \subseteq DOMAIN replies'
    BY <1>1, <1>6, <2>1, <2>2
  <2>7. Smallest(rung)' = Smallest(rung') /\ \A n : Smallest(n)' = Smallest(n)
    BY DEF Smallest
  <2>8. \E n \in 0..Len(LocalTiers) : DOMAIN prof' = Smallest(n) /\ (stopped' \/ n = Reached')
    BY <1>6, <2>6
  <2> QED BY <1>0, <2>1, <2>3, <2>5, <2>6, <2>8 DEF ProfileInv, Smallest
<1>8. RoutedInv'
  BY <1>4 DEF RoutedInv
<1> QED BY <1>5, <1>7, <1>8 DEF TuneInv

LEMMA ProfileStopsTune ==
  ASSUME TuneInv, ProfileStops
  PROVE  TuneInv'
<1>0. /\ InputInv /\ ProfileInv /\ phase' = "replaying" /\ rung' = 1 /\ stopped' = TRUE
      /\ UNCHANGED <<input, replies, prof>>
  BY DEF TuneInv, ProfileStops
<1>1. InputInv'
  BY <1>0, TierFacts DEF InputInv, input, Current
<1>2. ProfileInv'
  BY <1>0, SameRecorded DEF ProfileInv, Smallest, Recorded, Probe, input
<1>3. RoutedInv'
  BY <1>0 DEF RoutedInv
<1> QED BY <1>1, <1>2, <1>3 DEF TuneInv

LEMMA SimulateTune ==
  ASSUME TuneInv, Simulate
  PROVE  TuneInv'
<1>0. /\ InputInv /\ ProfileInv /\ RoutedInv /\ phase = "replaying" /\ phase' = "routing"
      /\ UNCHANGED <<input, replies, prof, stopped, rung, routed>>
  BY DEF TuneInv, Simulate
<1>1. InputInv'
  BY <1>0 DEF InputInv, input, Current
<1>2. Reached' = Reached
  BY <1>0 DEF Reached
<1>3. ProfileInv'
  BY <1>0, <1>2, SameRecorded DEF ProfileInv, Smallest, Recorded, Probe, input
<1>4. simulated' = Replayed'
  <2>1. simulated' = Replayed
    BY Zenon DEF Simulate, Replayed
  <2> QED BY <1>0, <2>1, SameReplayed
<1>5. RoutedInv'
  BY <1>0, <1>4 DEF RoutedInv
<1> QED BY <1>1, <1>3, <1>5 DEF TuneInv

LEMMA RouteTierTune ==
  ASSUME TuneInv, RouteTier
  PROVE  TuneInv'
<1>0. /\ InputInv /\ ProfileInv /\ RoutedInv /\ phase = "routing"
      /\ UNCHANGED <<input, prof, stopped, simulated>>
  BY DEF TuneInv, RouteTier
<1>1. PICK r \in 1..Len(LocalTiers) : r = rung
  BY <1>0 DEF InputInv
<1> DEFINE tier == LocalTiers[r]
<1>2. PICK j \in IF tier \in DOMAIN replies THEN {replies[tier]} ELSE Judgments :
        LET trusted == TrustsReply(tier, j)
            over    == trusted \/ rung = Len(LocalTiers)
        IN  /\ replies' = With(replies, tier, j)
            /\ routed' = IF trusted THEN tier ELSE IF over THEN "cloud" ELSE "none"
            /\ phase' = IF over THEN "over" ELSE "routing"
            /\ rung' = IF over THEN rung ELSE rung + 1
  BY <1>1, Zenon DEF RouteTier, TrustsReply
<1> DEFINE ok == TrustsReply(tier, j)
           over == ok \/ r = Len(LocalTiers)
<1>3. /\ replies' = With(replies, tier, j)
      /\ routed' = IF ok THEN tier ELSE IF over THEN "cloud" ELSE "none"
      /\ phase' = IF over THEN "over" ELSE "routing"
      /\ rung' = IF over THEN r ELSE r + 1
  BY <1>1, <1>2, Zenon
<1>4. Len(LocalTiers) \in Nat
  BY TierFacts
<1>5. /\ DOMAIN replies' = DOMAIN replies \cup {tier} /\ replies'[tier] = j
      /\ \A t \in DOMAIN replies : replies'[t] = replies[t]
      /\ \A t \in DOMAIN replies' : replies'[t] \in Judgments
  <2>1. /\ DOMAIN replies' = DOMAIN replies \cup {tier}
        /\ \A t \in DOMAIN replies \cup {tier} : replies'[t] = IF t = tier THEN j ELSE replies[t]
    <3> HIDE DEF tier
    <3> QED BY <1>3 DEF With
  <2>2. tier \in DOMAIN replies => j = replies[tier]
    BY <1>2
  <2>3. tier \notin DOMAIN replies => j \in Judgments
    BY <1>2
  <2> HIDE DEF tier
  <2> QED BY <1>0, <2>1, <2>2, <2>3 DEF ProfileInv
<1>6. Trusts(tier)' <=> ok
  BY <1>0, <1>5, SameTrusts
<1>7. \A i \in 1..(r - 1) : LocalTiers[i] \in DOMAIN replies' /\ ~Trusts(LocalTiers[i])'
  <2>1. \A i \in 1..(r - 1) : LocalTiers[i] \in DOMAIN replies /\ ~Trusts(LocalTiers[i])
    BY <1>0, <1>1 DEF RoutedInv
  <2>2. \A t \in DOMAIN replies : Trusts(t)' <=> Trusts(t)
    BY <1>0, <1>5, SameTrusts DEF Trusts
  <2> QED BY <1>5, <2>1, <2>2
<1> HIDE DEF ok, over
<1>8. InputInv'
  BY <1>0, <1>1, <1>3, <1>4 DEF InputInv, input, Current, over
<1>9. ProfileInv'
  <2>1. \A t \in DOMAIN prof : prof'[t] = Recorded(replies[t])'
    <3>1. \A t \in DOMAIN prof : prof'[t] = Recorded(replies'[t])
      BY <1>0, <1>5 DEF ProfileInv
    <3> QED BY <1>0, <3>1 DEF Recorded, Probe, input
  <2>2. Reached' = Reached /\ DOMAIN prof' = DOMAIN prof /\ DOMAIN prof' \subseteq DOMAIN replies'
    BY <1>0, <1>3, <1>5 DEF Reached, ProfileInv
  <2>3. stopped' \in BOOLEAN /\ (stopped' => phase' # "profiling")
    BY <1>0, <1>3 DEF ProfileInv
  <2>4. \E n \in 0..Len(LocalTiers) : DOMAIN prof' = Smallest(n) /\ (stopped' \/ n = Reached')
    BY <1>0, <2>2 DEF ProfileInv
  <2> QED BY <1>0, <1>5, <2>1, <2>2, <2>3, <2>4 DEF ProfileInv, Smallest
<1>10. simulated' = Replayed'
  BY <1>0, SameReplayed DEF RoutedInv
<1>11. RoutedInv'
  <2>1. CASE ok
    <3>1. phase' = "over" /\ routed' = tier /\ Trusts(tier)'
      BY <1>3, <1>6, <2>1 DEF over
    <3>2. \E i \in 1..Len(LocalTiers) : /\ Trusts(LocalTiers[i])' /\ routed' = LocalTiers[i]
                                         /\ \A k \in 1..(i - 1) : ~Trusts(LocalTiers[k])'
      BY <1>7, <3>1
    <3> QED BY <1>10, <3>1, <3>2 DEF RoutedInv
  <2>2. CASE ~ok /\ r = Len(LocalTiers)
    <3>1. \A i \in 1..Len(LocalTiers) : i \in 1..(r - 1) \/ i = r
      BY <1>4, <2>2
    <3>2. \A i \in 1..Len(LocalTiers) : ~Trusts(LocalTiers[i])'
      BY <1>6, <1>7, <2>2, <3>1
    <3>3. phase' = "over" /\ routed' = "cloud"
      BY <1>3, <2>2 DEF over
    <3> QED BY <1>10, <3>2, <3>3 DEF RoutedInv
  <2>3. CASE ~ok /\ r # Len(LocalTiers)
    <3>1. rung' = r + 1 /\ phase' = "routing"
      BY <1>3, <2>3 DEF over
    <3>2. \A i \in 1..(rung' - 1) : i \in 1..(r - 1) \/ i = r
      BY <1>4, <3>1
    <3>3. \A i \in 1..(rung' - 1) : LocalTiers[i] \in DOMAIN replies' /\ ~Trusts(LocalTiers[i])'
      BY <1>5, <1>6, <1>7, <2>3, <3>2
    <3> QED BY <1>10, <3>1, <3>3 DEF RoutedInv
  <2> QED BY <2>1, <2>2, <2>3
<1> QED BY <1>8, <1>9, <1>11 DEF TuneInv

LEMMA StutterTune ==
  ASSUME TuneInv, UNCHANGED vars
  PROVE  TuneInv'
<1>0. /\ InputInv /\ ProfileInv /\ RoutedInv
      /\ UNCHANGED <<input, replies, prof, stopped, phase, rung, simulated, routed>>
  BY DEF TuneInv, vars
<1>1. InputInv'
  BY <1>0 DEF InputInv, input, Current
<1>2. Reached' = Reached
  BY <1>0 DEF Reached
<1>3. ProfileInv'
  BY <1>0, <1>2, SameRecorded DEF ProfileInv, Smallest, Recorded, Probe, input
<1>4. Replayed' = Replayed /\ \A t : Trusts(t)' <=> Trusts(t)
  BY <1>0, SameReplayed, SameTrusts DEF Trusts
<1>5. RoutedInv'
  BY <1>0, <1>4 DEF RoutedInv
<1> QED BY <1>1, <1>3, <1>5 DEF TuneInv

LEMMA Tune == Spec => []TuneInv
<1>1. TuneInv /\ [Next]_vars => TuneInv'
  BY ProfileTierTune, ProfileStopsTune, SimulateTune, RouteTierTune, StutterTune DEF Next, Over
<1> QED BY <1>1, InitTune, PTL DEF Spec

-----------------------------------------------------------------------------
(* The replay and the engine *)

\* Only the token statistic depends on which one the policy uses.
LEMMA SignalsDiffer ==
  ASSUME NEW a, NEW b, NEW c, NEW j, NEW k \in Range(SignalNames), k # "token_uncertainty"
  PROVE  Signals(a, c, j)[k] = Signals(b, c, j)[k]
<1>1. Values(a, c, j)[k] = Values(b, c, j)[k]
  <2> DEFINE Rec(A, B, C, D, E, F) == [self_uncertainty |-> A, token_uncertainty |-> B, inconsistency |-> C,
                                       critic_risk |-> D, task_complexity |-> E, explicit_escalation |-> F]
             A == {One - (Total([i \in 1..Len(j.samples) |-> j.samples[i].confidence]) \div Len(j.samples))}
             C == {IF Len(j.samples) > 1 THEN j.disagree ELSE 0}
             D == {j.critique.severity}
             F == {IF AnyNeeds(j.samples) THEN One ELSE 0}
  <2>1. \A s : Values(s, c, j) = Rec(A, TokenUncertainty(s, j.samples), C, D, {c}, F)
    BY Zenon DEF Values
  <2> HIDE DEF A, C, D, F
  <2>2. \A X, Y : Rec(A, X, C, D, {c}, F)[k] = Rec(A, Y, C, D, {c}, F)[k]
    BY NamesFacts
  <2> HIDE DEF Rec
  <2> QED BY <2>1, <2>2, Zenon
<1>2. Signals(a, c, j)[k] = {Rounded(v, 1) : v \in Values(a, c, j)[k]}
  BY SignalIs
<1>3. Signals(b, c, j)[k] = {Rounded(v, 1) : v \in Values(b, c, j)[k]}
  BY SignalIs
<1> QED BY <1>1, <1>2, <1>3, Zenon

\* With the same token statistic the replay sees the signals that the policy would see.
LEMMA SameSignals ==
  ASSUME TuneInv, NEW t \in DOMAIN prof, params = Current(policy) \/ SameStatistic, NEW k \in Range(SignalNames)
  PROVE  SignalsOf(t)[k] = Signals(Described.tokenSignal, case.complexity, replies[t])[k]
<1> DEFINE R == Signals(policy.tokenSignal, case.complexity, replies[t])
<1>0. policy \in Deployed /\ prof[t] = Recorded(replies[t])
  BY DEF TuneInv, InputInv, ProfileInv
<1>1. prof[t].signals = R
  BY <1>0, ProbeFacts DEF Recorded
<1>2. CASE params = Current(policy)
  <2>1. params.tokenSignal = {}
    BY <1>2 DEF Current
  <2>2. Described.tokenSignal = policy.tokenSignal
    BY <2>1 DEF Described
  <2>3. {} # {"mean"}
    OBVIOUS
  <2> HIDE DEF R
  <2>4. SignalsOf(t) = R
    BY <1>1, <2>1, <2>3, Zenon DEF SignalsOf
  <2> QED BY <2>2, <2>4, Zenon DEF R
<1>3. CASE SameStatistic
  <2>1. SignalsOf(t)["token_uncertainty"]
          = Signals(Described.tokenSignal, case.complexity, replies[t])["token_uncertainty"]
    BY <1>3 DEF SameStatistic
  <2> DEFINE X == {One - m.prob : m \in prof[t].tokenStats}
  <2>2. SignalsOf(t) = R \/ SignalsOf(t) = [R EXCEPT !.token_uncertainty = X]
    <3> HIDE DEF R
    <3> QED BY <1>1, Zenon DEF SignalsOf
  <2>3. DOMAIN R = Range(SignalNames)
    BY Zenon DEF Signals
  <2> HIDE DEF R, X
  <2>4. k # "token_uncertainty" => SignalsOf(t)[k] = R[k]
    BY <2>2, <2>3
  <2>5. k # "token_uncertainty" => R[k] = Signals(Described.tokenSignal, case.complexity, replies[t])[k]
    BY SignalsDiffer DEF R
  <2> QED BY <2>1, <2>4, <2>5
<1> QED BY <1>2, <1>3

LEMMA ParamsFacts ==
  ASSUME InputInv
  PROVE  /\ params.weights \in [Range(SignalNames) -> Nat]
         /\ params.thresholds \in [{"local", "mid"} -> Fractions]
         /\ params.bulkParts = {}
<1>1. CASE params = Current(policy)
  BY <1>1, TuningAssumption DEF InputInv, Current, PolicyType
<1>2. CASE params \in Candidates
  BY <1>2, TuningAssumption
<1> QED BY <1>1, <1>2 DEF InputInv

\* simulate trusts whom the engine trusts, but may not skip the smallest model if it is
\* the only one in the profile.
LEMMA SameDecision ==
  ASSUME TuneInv, NEW t \in DOMAIN prof, params = Current(policy) \/ SameStatistic, ~BigGoal(policy, case.parts),
         ~CloseCall(t)
  PROVE  /\ Trusts(t) => SimulateTrusts(t)
         /\ SimulateTrusts(t) /\ (Range(LocalTiers) \ {t} # {} => DOMAIN prof \ {t} # {}) => Trusts(t)
<1> DEFINE j == replies[t]
           vals == Values(Described.tokenSignal, case.complexity, j)
           sig == Signals(Described.tokenSignal, case.complexity, j)
           rep == SignalsOf(t)
<1>0. /\ prof[t] = Recorded(j) /\ j \in Judgments /\ InputInv /\ case.complexity \in Fractions
  BY TuningAssumption DEF TuneInv, InputInv, ProfileInv
<1>1. t \in Range(LocalTiers) /\ DOMAIN prof \subseteq Range(LocalTiers) /\ t \in {"local", "mid"}
  BY TierFacts DEF TuneInv, ProfileInv, Smallest
<1>2. \A k \in Range(SignalNames) : rep[k] = sig[k] /\ vals[k] \in Options /\ sig[k] = {Rounded(v, 1) : v \in vals[k]}
  BY <1>0, SameSignals, ValueBound, SignalIs
<1>3. /\ Described.weights = params.weights /\ Described.thresholds = params.thresholds
      /\ Described.criticMin = params.criticMin /\ Described.skipAbove = params.skipAbove
      /\ Described.tokenMax = params.tokenMax /\ Described.tokenMinLength = params.tokenMinLength
      /\ Described.rules = TRUE /\ Described.bulkParts = policy.bulkParts
  BY DEF Described
<1>4. /\ prof[t].answerTokens = AnswerTokens(j.samples) /\ prof[t].requested = AnyNeeds(j.samples)
      /\ prof[t].empty = j.samples[1].empty /\ prof[t].critic = j.critique
  BY <1>0 DEF Recorded
<1>5. ~BigGoal(Described, case.parts)
  BY <1>3 DEF BigGoal
<1> DEFINE reaches == ScoreReaches(params.weights, rep, params.thresholds[t])
<1>6. CombinedScore(params.weights, vals) >= params.thresholds[t] <=> reaches
  <2>1. params.weights \in [Range(SignalNames) -> Nat] /\ params.thresholds[t] \in Fractions
    BY <1>0, <1>1, ParamsFacts
  <2>2. LET weight == Weight(params.weights, vals)
            gap    == Weighted(params.weights, vals) - params.thresholds[t] * weight
        IN  ~ (weight > 0 /\ 2 * gap <= Grain * weight /\ -2 * gap <= Grain * weight)
    BY Zenon DEF CloseCall
  <2>3. \A k \in Range(SignalNames) : vals[k] \in Options /\ rep[k] = {Rounded(v, 1) : v \in vals[k]}
    BY <1>2
  <2> HIDE DEF vals, rep
  <2> QED BY <2>1, <2>2, <2>3, SameScore
<1>7. rep.token_uncertainty = sig.token_uncertainty
  BY <1>2, NamesFacts
<1>8. TokensTooUncertain(Described, t, sig.token_uncertainty, AnswerTokens(j.samples))
        <=> TokensTooUncertain(params, t, rep.token_uncertainty, AnswerTokens(j.samples))
  BY <1>3, <1>7 DEF TokensTooUncertain
<1>9. Escalates(Described, t, case, j)
        <=> \/ BigGoal(Described, case.parts)
            \/ Forced(Described, t, sig, j)
            \/ CombinedScore(params.weights, vals) >= params.thresholds[t]
  BY <1>3 DEF Escalates
<1>10. Forced(Described, t, sig, j)
         <=> \/ AnyNeeds(j.samples)
             \/ j.samples[1].empty
             \/ CriticRejects(params.criticMin, j.critique)
             \/ TokensTooUncertain(params, t, rep.token_uncertainty, AnswerTokens(j.samples))
  BY <1>3, <1>8 DEF Forced
<1>11. SimulateTrusts(t)
         <=> /\ ~Skips(t, DOMAIN prof, params.skipAbove)
             /\ ~AnyNeeds(j.samples) /\ ~j.samples[1].empty
             /\ ~CriticRejects(params.criticMin, j.critique)
             /\ ~TokensTooUncertain(params, t, rep.token_uncertainty, AnswerTokens(j.samples))
             /\ ~reaches
  BY <1>4 DEF SimulateTrusts
<1>12. /\ Skips(t, DOMAIN prof, params.skipAbove) => Skipped(t, params.skipAbove)
       /\ Skipped(t, params.skipAbove) /\ (Range(LocalTiers) \ {t} # {} => DOMAIN prof \ {t} # {})
            => Skips(t, DOMAIN prof, params.skipAbove)
  BY <1>1 DEF Skipped, Skips
<1>13. Trusts(t) <=> ~Skipped(t, params.skipAbove) /\ ~Escalates(Described, t, case, j)
  BY <1>3 DEF Trusts, TrustsReply
<1> HIDE DEF reaches, sig, j, vals, rep
<1> QED BY <1>5, <1>6, <1>9, <1>10, <1>11, <1>12, <1>13

LEMMA ReplayAgrees == TuneInv => ReplayFollowsPolicy
<1> SUFFICES ASSUME TuneInv, phase = "over", ~BigGoal(policy, case.parts),
                    params = Current(policy) \/ SameStatistic,
                    \A t \in DOMAIN prof : ~CloseCall(t),
                    stopped => routed \in DOMAIN prof
             PROVE  simulated = routed
  BY DEF ReplayFollowsPolicy
<1> DEFINE n == Len(LocalTiers)
           trusted == {i \in DOMAIN LocalTiers : LocalTiers[i] \in DOMAIN prof /\ SimulateTrusts(LocalTiers[i])}
<1>0. InputInv /\ ProfileInv /\ RoutedInv
  BY DEF TuneInv
<1>1. n \in Nat /\ DOMAIN LocalTiers = 1..n /\ \A i, k \in 1..n : LocalTiers[i] = LocalTiers[k] => i = k
  BY TierFacts
<1>2. \A i \in 1..n : i \in trusted <=> LocalTiers[i] \in DOMAIN prof /\ SimulateTrusts(LocalTiers[i])
  BY <1>1
<1>3. ~BigGoal(params, case.parts)
  BY <1>0, ParamsFacts DEF BigGoal
<1>4. simulated = IF trusted = {} THEN "cloud" ELSE LocalTiers[Min(trusted)]
  BY <1>0, <1>3, Zenon DEF RoutedInv, Replayed
<1>5. trusted \subseteq 1..n
  BY <1>1
<1> HIDE DEF trusted
<1>6. CASE (\A i \in 1..n : ~Trusts(LocalTiers[i])) /\ routed = "cloud"
  <2>1. DOMAIN prof = Range(LocalTiers)
    <3>1. "cloud" \notin DOMAIN prof
      BY <1>0, TierFacts DEF ProfileInv, Smallest
    <3>2. ~stopped
      BY <1>6, <3>1
    <3> QED BY <1>0, <3>2, TierFacts DEF ProfileInv, Reached
  <2>2. \A i \in trusted : Trusts(LocalTiers[i])
    BY <1>2, <1>5, <2>1, SameDecision
  <2>3. trusted = {}
    BY <1>5, <1>6, <2>2
  <2> QED BY <1>4, <1>6, <2>3
<1>7. ASSUME NEW i \in 1..n, Trusts(LocalTiers[i]), routed = LocalTiers[i],
             \A k \in 1..(i - 1) : ~Trusts(LocalTiers[k])
      PROVE  simulated = routed
  <2>1. LocalTiers[i] \in DOMAIN prof
    <3>1. CASE stopped
      BY <1>7, <3>1
    <3>2. CASE ~stopped
      BY <1>0, <3>2 DEF ProfileInv, Reached, Smallest
    <3> QED BY <3>1, <3>2
  <2>2. i \in trusted
    BY <1>2, <1>7, <2>1, SameDecision
  <2>3. \A k \in trusted : i <= k
    <3> SUFFICES ASSUME NEW k \in trusted, ~(i <= k) PROVE FALSE
      OBVIOUS
    <3>1. k \in 1..(i - 1) /\ k \in 1..n /\ k # i
      BY <1>1, <1>5
    <3>2. LocalTiers[i] \in DOMAIN prof \ {LocalTiers[k]}
      BY <1>1, <2>1, <3>1
    <3>3. LocalTiers[k] \in DOMAIN prof /\ SimulateTrusts(LocalTiers[k])
      BY <1>2, <3>1
    <3>4. Trusts(LocalTiers[k])
      BY <3>2, <3>3, SameDecision
    <3> QED BY <1>7, <3>1, <3>4
  <2>4. \A k \in trusted : (\A m \in trusted : k <= m) => k = i
    BY <1>1, <1>5, <2>2, <2>3
  <2>5. Min(trusted) = i
    BY <2>2, <2>3, <2>4 DEF Min
  <2> QED BY <1>4, <1>7, <2>2, <2>5
<1> QED BY <1>0, <1>6, <1>7 DEF RoutedInv

-----------------------------------------------------------------------------
\* The probe reaches every local model unless a call or the run takes too long: whatever
\* policy it is derived from and whatever the models reply, profile_case records a verdict
\* of each of them, or of those smaller than the one at which it was cut off.
THEOREM ProbeReachesEveryModel == Spec => []EveryModelIsProfiled
<1>1. TuneInv => EveryModelIsProfiled
  <2> SUFFICES ASSUME TuneInv, phase # "profiling"
               PROVE  /\ ~stopped => DOMAIN prof = Range(LocalTiers)
                      /\ \A i \in DOMAIN LocalTiers : LocalTiers[i] \in DOMAIN prof =>
                           \A k \in 1..i : LocalTiers[k] \in DOMAIN prof
    BY DEF EveryModelIsProfiled
  <2>1. PICK n \in 0..Len(LocalTiers) : DOMAIN prof = Smallest(n) /\ (stopped \/ n = Len(LocalTiers))
    BY DEF TuneInv, ProfileInv, Reached
  <2>m. Len(LocalTiers) \in Nat
    BY TierFacts
  <2>n. n \in Nat /\ n <= Len(LocalTiers)
    BY <2>m
  <2>2. ASSUME NEW i \in 1..Len(LocalTiers), LocalTiers[i] \in DOMAIN prof PROVE i <= n
    <3>1. PICK k \in 1..n : LocalTiers[i] = LocalTiers[k]
      BY <2>1, <2>2 DEF Smallest
    <3>2. k \in 1..Len(LocalTiers)
      BY <2>m, <2>n
    <3>3. i = k
      BY <3>1, <3>2, TierFacts
    <3> QED BY <2>1, <3>3
  <2>3. \A k \in 1..n : LocalTiers[k] \in DOMAIN prof
    BY <2>1, Zenon DEF Smallest
  <2>4. ~stopped => DOMAIN prof = Range(LocalTiers)
    BY <2>1, TierFacts, Zenon
  <2>5. ASSUME NEW i \in DOMAIN LocalTiers, LocalTiers[i] \in DOMAIN prof, NEW k \in 1..i
        PROVE  LocalTiers[k] \in DOMAIN prof
    <3>1. i \in 1..Len(LocalTiers)
      BY TierFacts, Zenon
    <3>2. i <= n
      BY <2>2, <2>5, <3>1
    <3>3. k \in 1..n
      BY <2>n, <3>1, <3>2
    <3> QED BY <2>3, <3>3
  <2> QED BY <2>4, <2>5
<1> QED BY <1>1, Tune, PTL

\* simulate returns the tier to which the engine routes the same replies under the same
\* parameters, where it sees the policy's token statistic, the goal is not a big one and
\* no exact score is within half a ten-thousandth of its threshold; of a profile that was
\* cut off, where the engine trusts a model that is in it.
THEOREM ReplayRoutesAsTheEngine == Spec => []ReplayFollowsPolicy
BY ReplayAgrees, Tune, PTL
=============================================================================
