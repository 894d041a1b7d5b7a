-------------------------- MODULE FuzzyLogicProofs --------------------------
(***************************************************************************)
(* The control law is total: for every temperature and every change, the   *)
(* weights of the rules are proper, one of them is positive, and the duty  *)
(* cycle lies between 0 and 100 percent.  And it falls with the            *)
(* temperature, up to the sterile range.                                   *)
(***************************************************************************)
EXTENDS FuzzyLogic, WellFoundedInduction, TLAPS

-----------------------------------------------------------------------------
(***************************************************************************)
(* Sums: a loop that adds proper weights up stays within its bounds.  What *)
(* fails for some number of summands fails for a least one.                *)
(***************************************************************************)
\* Every set of numbers that is not empty has a least one.
LEMMA Least ==
  ASSUME NEW S \in SUBSET Nat, S # {}
  PROVE  \E m \in S : \A k \in S : m <= k
<1>. DEFINE R == {ij \in Nat \X Nat : ij[1] < ij[2]}
<1>1. IsWellFoundedOn(R, Nat)
  BY NatLessThanWellFounded DEF OpToRel
<1>2. PICK m \in S : \A k \in S : ~(<<k, m>> \in R)
  BY <1>1, WFMin
<1>3. ASSUME NEW k \in S PROVE m <= k
  <2>1. k \in Nat /\ m \in Nat /\ <<k, m>> \in Nat \X Nat
    OBVIOUS
  <2>2. ~(k < m)
    <3>1. k < m => <<k, m>> \in R
      BY <2>1
    <3>. QED  BY <1>2, <3>1
  <2>. QED  BY <2>1, <2>2
<1>. QED  BY <1>3

Partial(s, w, n) ==
  s = [i \in 0 .. n |-> IF i = 0 THEN 0 ELSE s[i - 1] + w[i]]

LEMMA PartialExists ==
  ASSUME NEW w, NEW n \in Nat
  PROVE  \E s : Partial(s, w, n)
<1>. DEFINE S == {k \in Nat : ~ \E s : Partial(s, w, k)}
<1>1. SUFFICES ASSUME S # {} PROVE FALSE
  OBVIOUS
<1>2. PICK m \in S : \A k \in S : m <= k
  BY <1>1, Least
<1>3. m # 0
  <2>1. Partial([i \in 0 .. 0 |-> 0], w, 0)
    BY DEF Partial
  <2>. QED  BY <1>2, <2>1
<1>4. PICK s : Partial(s, w, m - 1)
  <2>1. m - 1 \in Nat /\ m - 1 \notin S
    BY <1>2, <1>3
  <2>. QED  BY <2>1
<1>5. Partial([i \in 0 .. m |-> IF i = m THEN s[m - 1] + w[m] ELSE s[i]], w, m)
  BY <1>2, <1>3, <1>4 DEF Partial
<1>. QED  BY <1>2, <1>5

LEMMA SumIsPartial ==
  ASSUME NEW w, NEW n \in Nat
  PROVE  \E s : Partial(s, w, n) /\ Sum(w, n) = s[n]
<1>. DEFINE sum == CHOOSE s : Partial(s, w, n)
<1>1. Partial(sum, w, n)
  BY PartialExists
<1>2. Sum(w, n) = sum[n]
  BY DEF Sum, Partial
<1>. QED  BY <1>1, <1>2

Summable(w, n) == \A i \in 1 .. n : w[i] \in Int

LEMMA PartialStep ==
  ASSUME NEW w, NEW n \in Nat, NEW s, Partial(s, w, n)
  PROVE  /\ s[0] = 0
         /\ \A i \in 1 .. n : s[i] = s[i - 1] + w[i]
BY DEF Partial

LEMMA PartialInt ==
  ASSUME NEW w, NEW n \in Nat, Summable(w, n), NEW s, Partial(s, w, n)
  PROVE  \A i \in 0 .. n : s[i] \in Int
<1>. DEFINE S == {i \in 0 .. n : s[i] \notin Int}
<1>1. SUFFICES ASSUME S # {} PROVE FALSE
  OBVIOUS
<1>2. PICK m \in S : \A k \in S : m <= k
  <2>1. S \in SUBSET Nat
    OBVIOUS
  <2>. HIDE DEF S
  <2>. QED  BY <1>1, <2>1, Least
<1>3. m # 0
  BY PartialStep
<1>4. s[m - 1] \in Int /\ w[m] \in Int /\ s[m] = s[m - 1] + w[m]
  BY <1>2, <1>3, PartialStep DEF Summable
<1>. QED  BY <1>2, <1>4

\* If each v[i] is at most k times w[i] and e, so are the sums.
LEMMA SumLinear ==
  ASSUME NEW n \in Nat, NEW v, NEW w, Summable(v, n), Summable(w, n),
         NEW k \in Int, NEW e \in Int,
         \A i \in 1 .. n : v[i] <= k * w[i] + e
  PROVE  Sum(v, n) <= k * Sum(w, n) + n * e
<1>1. PICK s : Partial(s, v, n) /\ Sum(v, n) = s[n]
  BY SumIsPartial
<1>2. PICK t : Partial(t, w, n) /\ Sum(w, n) = t[n]
  BY SumIsPartial
<1>3. \A i \in 0 .. n : s[i] \in Int /\ t[i] \in Int
  BY <1>1, <1>2, PartialInt
<1>. DEFINE S == {i \in 0 .. n : ~(s[i] <= k * t[i] + i * e)}
<1>4. ASSUME S # {} PROVE FALSE
  <2>1. PICK m \in S : \A j \in S : m <= j
    <3>1. S \in SUBSET Nat
      OBVIOUS
    <3>. HIDE DEF S
    <3>. QED  BY <1>4, <3>1, Least
  <2>2. m # 0
    BY <1>1, <1>2, PartialStep
  <2>3. s[m - 1] <= k * t[m - 1] + (m - 1) * e
    BY <2>1, <2>2
  <2>4. s[m] = s[m - 1] + v[m] /\ t[m] = t[m - 1] + w[m]
    BY <1>1, <1>2, <2>2, PartialStep
  <2>. QED  BY <1>3, <2>1, <2>2, <2>3, <2>4 DEF Summable
<1>. QED  BY <1>1, <1>2, <1>4

LEMMA SumInt ==
  ASSUME NEW n \in Nat, NEW w, Summable(w, n)
  PROVE  Sum(w, n) \in Int
BY SumIsPartial, PartialInt

\* A sum of numbers that are not negative is at least each of them.
LEMMA SumAtLeast ==
  ASSUME NEW n \in Nat, NEW w, Summable(w, n),
         \A i \in 1 .. n : w[i] >= 0,
         NEW r \in 1 .. n
  PROVE  Sum(w, n) >= w[r]
<1>1. PICK s : Partial(s, w, n) /\ Sum(w, n) = s[n]
  BY SumIsPartial
<1>2. \A i \in 0 .. n : s[i] \in Int
  BY <1>1, PartialInt
<1>. DEFINE Good(i) == s[i] >= 0 /\ (i >= r => s[i] >= w[r])
            S       == {i \in 0 .. n : ~Good(i)}
<1>3. ASSUME S # {} PROVE FALSE
  <2>1. PICK m \in S : \A j \in S : m <= j
    <3>1. S \in SUBSET Nat
      OBVIOUS
    <3>. HIDE DEF S
    <3>. QED  BY <1>3, <3>1, Least
  <2>2. m # 0
    BY <1>1, PartialStep
  <2>3. Good(m - 1)
    BY <2>1, <2>2
  <2>4. s[m] = s[m - 1] + w[m]
    BY <1>1, <2>2, PartialStep
  <2>. QED  BY <1>2, <2>1, <2>2, <2>3, <2>4 DEF Summable
<1>. QED  BY <1>1, <1>3

-----------------------------------------------------------------------------
(***************************************************************************)
(* The memberships, the rules and the duty cycle.                          *)
(***************************************************************************)
Proper(w) == w \in Int /\ 0 <= w /\ w <= Unit

LEMMA TempMemberships ==
  ASSUME NEW t \in Int
  PROVE  /\ Proper(Melting(t)) /\ (t < 9600 => Melting(t) > 0)
         /\ Proper(Cold(t))    /\ (8320 < t /\ t < 10880 => Cold(t) > 0)
         /\ Proper(Medium(t))  /\ (9600 < t /\ t < 14848 => Medium(t) > 0)
         /\ Proper(Hot(t))     /\ (t > 10880 => Hot(t) > 0)
         /\ Proper(Sterile(t))
<1>1. Proper(Melting(t)) /\ (t < 9600 => Melting(t) > 0)
  BY DEF Proper, Fraction, Melting, HalfTrapeze, Falling, Mf, Unit
<1>2. Proper(Cold(t)) /\ (8320 < t /\ t < 10880 => Cold(t) > 0)
  BY DEF Proper, Fraction, Cold, Triangle, Mf, Unit
<1>3. Proper(Medium(t)) /\ (9600 < t /\ t < 14848 => Medium(t) > 0)
  BY DEF Proper, Fraction, Medium, Triangle, Mf, Unit
<1>4. Proper(Hot(t)) /\ (t > 10880 => Hot(t) > 0)
  BY DEF Proper, Fraction, Hot, HalfTrapeze, Rising, Mf, Unit
<1>5. Proper(Sterile(t))
  BY DEF Proper, Sterile, Trapeze, Mf, Unit
<1>. QED  BY <1>1, <1>2, <1>3, <1>4, <1>5

LEMMA DTempMemberships ==
  ASSUME NEW d \in Int
  PROVE  /\ Proper(Neg(d))  /\ (d < 0 => Neg(d) > 0)
         /\ Proper(Zero(d)) /\ (d = 0 \/ d = 1 => Zero(d) > 0)
         /\ Proper(Spos(d)) /\ (d = 2 \/ d = 3 => Spos(d) > 0)
         /\ Proper(Pos(d))  /\ (d = 4 \/ d = 5 => Pos(d) > 0)
         /\ Proper(Vpos(d)) /\ (d >= 6 => Vpos(d) > 0)
<1>1. Proper(Neg(d)) /\ (d < 0 => Neg(d) > 0)
  BY DEF Proper, Fraction, Neg, HalfTrapeze, Falling, Mf, Unit
<1>2. Proper(Zero(d)) /\ (d = 0 \/ d = 1 => Zero(d) > 0)
  BY DEF Proper, Fraction, Zero, Triangle, Mf, Unit
<1>3. Proper(Spos(d)) /\ (d = 2 \/ d = 3 => Spos(d) > 0)
  BY DEF Proper, Fraction, Spos, Triangle, Mf, Unit
<1>4. Proper(Pos(d)) /\ (d = 4 \/ d = 5 => Pos(d) > 0)
  BY DEF Proper, Fraction, Pos, Triangle, Mf, Unit
<1>5. Proper(Vpos(d)) /\ (d >= 6 => Vpos(d) > 0)
  BY DEF Proper, Fraction, Vpos, HalfTrapeze, Rising, Mf, Unit
<1>. QED  BY <1>1, <1>2, <1>3, <1>4, <1>5

LEMMA NoRuleError ==
  ASSUME NEW t \in Int, NEW d \in Int
  PROVE  ~RuleError(t, d)
<1>1. \A m : Proper(m) => m # WrongValue
  BY DEF Proper, Unit, WrongValue
<1>. QED  BY <1>1, TempMemberships, DTempMemberships DEF RuleError

LEMMA BothProper ==
  ASSUME NEW a, NEW b, Proper(a), Proper(b)
  PROVE  Proper(Both(a, b))
BY DEF Both, Proper

\* The weight of every rule is proper, and some rule fires.
LEMMA SomeRuleFires ==
  ASSUME NEW t \in Int, NEW d \in Int
  PROVE  /\ \A r \in 1 .. FUZZY_RULES_NUM : Proper(Rules(t, d)[r][1])
         /\ \E r \in 1 .. FUZZY_RULES_NUM : Rules(t, d)[r][1] > 0
<1>1. \A r \in 1 .. FUZZY_RULES_NUM : Proper(Rules(t, d)[r][1])
  BY TempMemberships, DTempMemberships, BothProper DEF Rules, FUZZY_RULES_NUM
<1>2. CASE t < 9600
  BY <1>1, <1>2, TempMemberships DEF Rules, FUZZY_RULES_NUM
<1>3. CASE 9600 <= t /\ t < 10880
  BY <1>1, <1>3, TempMemberships, DTempMemberships DEF Rules, FUZZY_RULES_NUM, Both, Proper, Unit
<1>4. CASE t = 10880
  BY <1>1, <1>4, TempMemberships, DTempMemberships DEF Rules, FUZZY_RULES_NUM, Both, Proper, Unit
<1>5. CASE t > 10880
  BY <1>1, <1>5, TempMemberships DEF Rules, FUZZY_RULES_NUM
<1>. QED  BY <1>1, <1>2, <1>3, <1>4, <1>5

LEMMA Points ==
  ASSUME NEW t, NEW d, NEW r \in 1 .. FUZZY_RULES_NUM
  PROVE  Rules(t, d)[r][2] \in {0, 25, 50, 75, 100}
BY DEF Rules, FUZZY_RULES_NUM

-----------------------------------------------------------------------------
(***************************************************************************)
(* The weighted mean of percents is a percent.                             *)
(***************************************************************************)
LEMMA Percents ==
  ASSUME NEW w \in Int, w >= 0, NEW p \in {0, 25, 50, 75, 100}
  PROVE  w * p \in Int /\ 0 <= w * p /\ w * p <= 100 * w
OBVIOUS

LEMMA QuotientBounded ==
  ASSUME NEW a \in Int, NEW b \in Int, b > 0, 0 <= a, a <= 100 * b
  PROVE  a \div b \in 0 .. 100
<1>. DEFINE q == a \div b
<1>1. q \in Int /\ b * q <= a /\ a < b * q + b
  OBVIOUS
<1>. HIDE DEF q
<1>2. q >= 0
  <2>1. SUFFICES ASSUME q <= -1 PROVE FALSE
    BY <1>1
  <2>2. b * q <= b * (-1)
    BY <1>1, <2>1
  <2>. QED  BY <1>1, <2>2
<1>3. q <= 100
  <2>1. SUFFICES ASSUME q >= 101 PROVE FALSE
    BY <1>1
  <2>2. b * q >= b * 101
    BY <1>1, <2>1
  <2>. QED  BY <1>1, <2>2
<1>. QED  BY <1>1, <1>2, <1>3 DEF q

\* The division of defuzzyfication: never by zero.
LEMMA DutyDefined ==
  ASSUME NEW t \in Int, NEW d \in Int
  PROVE  /\ SumWeight(Rules(t, d)) \in Int
         /\ SumWeight(Rules(t, d)) > 0
         /\ SumMaximums(Rules(t, d)) \in Int
         /\ 0 <= SumMaximums(Rules(t, d))
         /\ SumMaximums(Rules(t, d)) <= 100 * SumWeight(Rules(t, d))
<1>. DEFINE rules == Rules(t, d)
            w     == [r \in 1 .. FUZZY_RULES_NUM |-> rules[r][1]]
            v     == [r \in 1 .. FUZZY_RULES_NUM |-> rules[r][1] * rules[r][2]]
<1>1. \A r \in 1 .. FUZZY_RULES_NUM : rules[r][1] \in Int /\ rules[r][1] >= 0
  BY SomeRuleFires DEF Proper
<1>2. \A r \in 1 .. FUZZY_RULES_NUM : w[r] \in Int /\ w[r] >= 0
  BY <1>1
<1>3. \E r \in 1 .. FUZZY_RULES_NUM : w[r] > 0
  BY SomeRuleFires
<1>4. \A r \in 1 .. FUZZY_RULES_NUM : /\ v[r] \in Int /\ w[r] \in Int
                         /\ 0 <= v[r] /\ v[r] <= 100 * w[r]
  <2>. TAKE r \in 1 .. FUZZY_RULES_NUM
  <2>. DEFINE a == rules[r][1]
              p == rules[r][2]
  <2>1. a \in Int /\ a >= 0
    BY <1>1
  <2>2. p \in {0, 25, 50, 75, 100}
    BY Points
  <2>3. v[r] = a * p /\ w[r] = a
    OBVIOUS
  <2>. HIDE DEF a, p
  <2>. QED  BY <2>1, <2>2, <2>3, Percents
<1>. HIDE DEF v, w
<1>. DEFINE N == FUZZY_RULES_NUM
<1>5. N \in Nat
  BY DEF FUZZY_RULES_NUM
<1>. HIDE DEF N
<1>6. Summable(w, N) /\ Summable(v, N)
  BY <1>2, <1>4 DEF Summable, N
<1>7. Sum(w, N) \in Int /\ Sum(v, N) \in Int
  BY <1>5, <1>6, SumInt
<1>8. Sum(w, N) > 0
  <2>1. PICK r \in 1 .. N : w[r] > 0
    BY <1>3 DEF N
  <2>2. Sum(w, N) >= w[r] /\ w[r] \in Int
    BY <1>2, <1>5, <1>6, SumAtLeast DEF N
  <2>. QED  BY <1>7, <2>1, <2>2
<1>9. Sum(v, N) >= 0
  <2>1. 1 \in 1 .. N /\ \A i \in 1 .. N : v[i] \in Int /\ v[i] >= 0
    BY <1>4 DEF N, FUZZY_RULES_NUM
  <2>2. Sum(v, N) >= v[1]
    BY <1>5, <1>6, <2>1, SumAtLeast
  <2>. QED  BY <1>7, <2>1, <2>2
<1>10. Sum(v, N) <= 100 * Sum(w, N)
  <2>1. \A i \in 1 .. N : v[i] <= 100 * w[i] + 0
    BY <1>4 DEF N
  <2>2. Sum(v, N) <= 100 * Sum(w, N) + N * 0
    BY <1>5, <1>6, <2>1, SumLinear
  <2>. QED  BY <1>5, <1>7, <2>2
<1>. QED  BY <1>7, <1>8, <1>9, <1>10 DEF SumWeight, SumMaximums, v, w, N

\* m/w is a mean of percents, and k a percent near it.
IsMean(m, w) == m \in Nat /\ w \in Nat /\ w > 0 /\ m <= 100 * w
NearMean(k, m, w) ==
  /\ k \in 0 .. 100
  /\ 1000 * (k * w) <= 1000 * m + w
  /\ 1000 * m <= 1000 * (k * w) + 1001 * w

\* What the cut of a mean between 0 and 100 may make of it.
LEMMA CutBounded ==
  ASSUME NEW m, NEW w, IsMean(m, w)
  PROVE  /\ Cut(m, w) # {}
         /\ \A k \in Cut(m, w) : NearMean(k, m, w)
<1>0. m \in Int /\ w \in Int /\ w > 0 /\ 0 <= m /\ m <= 100 * w
  BY DEF IsMean
<1>. DEFINE q == m \div w
            r == m % w
<1>1. q \in 0 .. 100
  BY <1>0, QuotientBounded
<1>2. r \in Int /\ m = q * w + r /\ 0 <= r /\ r < w
  BY <1>0
<1>3. Cut(m, w) = {q} \cup (IF q > 0 /\ 1000 * r <= w THEN {q - 1} ELSE {})
                      \cup (IF 1000 * (w - r) <= w THEN {q + 1} ELSE {})
  BY DEF Cut
<1>. HIDE DEF q, r
<1>4. ASSUME NEW k \in Cut(m, w)
      PROVE  NearMean(k, m, w)
  <2>. USE DEF NearMean
  <2>1. q * w \in Int
    BY <1>0, <1>1
  <2>2. CASE k = q
    BY <1>0, <1>1, <1>2, <2>1, <2>2
  <2>3. CASE k = q - 1 /\ q > 0 /\ 1000 * r <= w
    <3>1. k * w = q * w - w
      BY <1>0, <1>1, <2>3
    <3>. QED  BY <1>0, <1>1, <1>2, <2>1, <2>3, <3>1
  <2>4. CASE k = q + 1 /\ 1000 * (w - r) <= w
    <3>1. k * w = q * w + w
      BY <1>0, <1>1, <2>4
    <3>2. q # 100
      <4>1. SUFFICES ASSUME q = 100 PROVE FALSE
        OBVIOUS
      <4>2. q * w = 100 * w
        BY <4>1
      <4>3. r <= 0
        BY <1>0, <1>2, <2>1, <4>2
      <4>. QED  BY <1>0, <1>2, <2>4, <4>3
    <3>. QED  BY <1>0, <1>1, <1>2, <2>1, <2>4, <3>1, <3>2
  <2>. QED  BY <1>3, <2>2, <2>3, <2>4
<1>. QED  BY <1>3, <1>4

LEMMA DutyIsMean ==
  ASSUME NEW t \in Int, NEW d \in Int
  PROVE  IsMean(SumMaximums(Rules(t, d)), SumWeight(Rules(t, d)))
<1>. DEFINE m == SumMaximums(Rules(t, d))
            w == SumWeight(Rules(t, d))
<1>1. m \in Int /\ w \in Int /\ w > 0 /\ 0 <= m /\ m <= 100 * w
  BY DutyDefined
<1>. HIDE DEF m, w
<1>2. IsMean(m, w)
  BY <1>1 DEF IsMean
<1>. QED  BY <1>2 DEF m, w

\* For every temperature and every change of it, a rule fires, none has wrong
\* values, and the duty cycle is a percentage, however the floats are rounded
\* (regulator.c 265-317).
THEOREM DutyIsAPercentage ==
  ASSUME NEW t \in Int, NEW d \in Int
  PROVE  /\ ~RuleError(t, d)
         /\ SumWeight(Rules(t, d)) > 0
         /\ defuzzyfication(t, d) # {}
         /\ \A x \in defuzzyfication(t, d) :
              \E percent \in 0 .. 100 : x = percent * PWM_STEP
<1>. DEFINE m == SumMaximums(Rules(t, d))
            w == SumWeight(Rules(t, d))
<1>1. IsMean(m, w)
  BY DutyIsMean
<1>2. defuzzyfication(t, d) = {percent * PWM_STEP : percent \in Cut(m, w)}
  BY DEF defuzzyfication
<1>. HIDE DEF m, w
<1>3. Cut(m, w) # {} /\ \A k \in Cut(m, w) : k \in 0 .. 100
  BY <1>1, CutBounded DEF NearMean
<1>4. defuzzyfication(t, d) # {}
  BY <1>2, <1>3, Zenon
<1>5. \A x \in defuzzyfication(t, d) : \E percent \in 0 .. 100 : x = percent * PWM_STEP
  BY <1>2, <1>3, Zenon
<1>. QED  BY <1>4, <1>5, NoRuleError, DutyDefined

-----------------------------------------------------------------------------
(***************************************************************************)
(* The rules written out: the weights that the temperature alone decides,  *)
(* and those that the change decides too.                                  *)
(***************************************************************************)
LEMMA SumOfRules ==
  ASSUME NEW w, Summable(w, FUZZY_RULES_NUM)
  PROVE  Sum(w, FUZZY_RULES_NUM) =
           w[1] + w[2] + w[3] + w[4] + w[5] + w[6] + w[7] + w[8] + w[9]
             + w[10] + w[11] + w[12] + w[13] + w[14]
<1>1. FUZZY_RULES_NUM \in Nat /\ FUZZY_RULES_NUM = 14
  BY DEF FUZZY_RULES_NUM
<1>2. PICK s : Partial(s, w, 14) /\ Sum(w, 14) = s[14]
  BY <1>1, SumIsPartial
<1>3. s[0] = 0 /\ \A i \in 1 .. 14 : s[i] = s[i - 1] + w[i]
  BY <1>2, PartialStep
<1>4. /\ s[1] = s[0] + w[1]   /\ s[2] = s[1] + w[2]   /\ s[3] = s[2] + w[3]
      /\ s[4] = s[3] + w[4]   /\ s[5] = s[4] + w[5]   /\ s[6] = s[5] + w[6]
      /\ s[7] = s[6] + w[7]   /\ s[8] = s[7] + w[8]   /\ s[9] = s[8] + w[9]
      /\ s[10] = s[9] + w[10] /\ s[11] = s[10] + w[11]
      /\ s[12] = s[11] + w[12] /\ s[13] = s[12] + w[13]
      /\ s[14] = s[13] + w[14]
  BY <1>3
<1>5. /\ w[1] \in Int /\ w[2] \in Int /\ w[3] \in Int /\ w[4] \in Int
      /\ w[5] \in Int /\ w[6] \in Int /\ w[7] \in Int /\ w[8] \in Int
      /\ w[9] \in Int /\ w[10] \in Int /\ w[11] \in Int /\ w[12] \in Int
      /\ w[13] \in Int /\ w[14] \in Int
  BY <1>1 DEF Summable
<1>. QED  BY <1>1, <1>2, <1>3, <1>4, <1>5

\* The weights of the five rules on the change for a weight x of "cold" or
\* "medium", and what they add to the mean.
ByChange(x, d) ==
  Both(x, Neg(d)) + Both(x, Zero(d)) + Both(x, Spos(d)) + Both(x, Pos(d))
    + Both(x, Vpos(d))
ColdPoints(x, d) ==
  100 * Both(x, Neg(d)) + 100 * Both(x, Zero(d)) + 75 * Both(x, Spos(d))
    + 50 * Both(x, Pos(d)) + 25 * Both(x, Vpos(d))
MediumPoints(x, d) ==
  100 * Both(x, Neg(d)) + 75 * Both(x, Zero(d)) + 50 * Both(x, Spos(d))
    + 25 * Both(x, Pos(d))

LEMMA RulesExpanded ==
  ASSUME NEW t \in Int, NEW d \in Int
  PROVE  /\ SumWeight(Rules(t, d)) =
              Melting(t) + ByChange(Cold(t), d) + ByChange(Medium(t), d)
                + Hot(t) + Both(Sterile(t), Neg(d)) + Both(Sterile(t), Zero(d))
         /\ SumMaximums(Rules(t, d)) =
              100 * Melting(t) + ColdPoints(Cold(t), d)
                + MediumPoints(Medium(t), d)
                + 75 * Both(Sterile(t), Neg(d)) + 25 * Both(Sterile(t), Zero(d))
<1>. DEFINE N == FUZZY_RULES_NUM
            rules == Rules(t, d)
            w == [r \in 1 .. N |-> rules[r][1]]
            v == [r \in 1 .. N |-> rules[r][1] * rules[r][2]]
<1>0. N = 14
  BY DEF FUZZY_RULES_NUM
<1>1. \A r \in 1 .. N : w[r] \in Int /\ v[r] \in Int
  <2>. TAKE r \in 1 .. N
  <2>. DEFINE a == rules[r][1]
              p == rules[r][2]
  <2>1. a \in Int
    BY SomeRuleFires DEF Proper
  <2>2. p \in {0, 25, 50, 75, 100}
    BY Points
  <2>3. w[r] = a /\ v[r] = a * p
    OBVIOUS
  <2>. HIDE DEF a, p, w, v
  <2>. QED  BY <2>1, <2>2, <2>3
<1>2. /\ w[1] = Melting(t)
      /\ w[2] = Both(Cold(t), Neg(d))    /\ w[3] = Both(Cold(t), Zero(d))
      /\ w[4] = Both(Cold(t), Spos(d))   /\ w[5] = Both(Cold(t), Pos(d))
      /\ w[6] = Both(Cold(t), Vpos(d))
      /\ w[7] = Both(Medium(t), Neg(d))  /\ w[8] = Both(Medium(t), Zero(d))
      /\ w[9] = Both(Medium(t), Spos(d)) /\ w[10] = Both(Medium(t), Pos(d))
      /\ w[11] = Both(Medium(t), Vpos(d))
      /\ w[12] = Hot(t)
      /\ w[13] = Both(Sterile(t), Neg(d)) /\ w[14] = Both(Sterile(t), Zero(d))
  BY <1>0 DEF Rules
<1>3. /\ v[1] = w[1] * 100 /\ v[2] = w[2] * 100 /\ v[3] = w[3] * 100
      /\ v[4] = w[4] * 75 /\ v[5] = w[5] * 50 /\ v[6] = w[6] * 25
      /\ v[7] = w[7] * 100 /\ v[8] = w[8] * 75 /\ v[9] = w[9] * 50
      /\ v[10] = w[10] * 25 /\ v[11] = w[11] * 0 /\ v[12] = w[12] * 0
      /\ v[13] = w[13] * 75 /\ v[14] = w[14] * 25
  <2>1. \A r \in 1 .. N : v[r] = w[r] * rules[r][2]
    OBVIOUS
  <2>2. /\ rules[1][2] = 100 /\ rules[2][2] = 100 /\ rules[3][2] = 100
        /\ rules[4][2] = 75 /\ rules[5][2] = 50 /\ rules[6][2] = 25
        /\ rules[7][2] = 100 /\ rules[8][2] = 75 /\ rules[9][2] = 50
        /\ rules[10][2] = 25 /\ rules[11][2] = 0 /\ rules[12][2] = 0
        /\ rules[13][2] = 75 /\ rules[14][2] = 25
    BY DEF Rules
  <2>3. \A r \in 1 .. 14 : v[r] = w[r] * rules[r][2]
    BY <1>0, <2>1
  <2>. HIDE DEF v, w, rules, N
  <2>. QED  BY <2>2, <2>3
<1>4. SumWeight(rules) = Sum(w, N) /\ SumMaximums(rules) = Sum(v, N)
  BY DEF SumWeight, SumMaximums
<1>. HIDE DEF w, v, rules
<1>5. Summable(w, N) /\ Summable(v, N)
  BY <1>1 DEF Summable
<1>. HIDE DEF N
<1>6. /\ Sum(w, N) = w[1] + w[2] + w[3] + w[4] + w[5] + w[6] + w[7] + w[8]
                       + w[9] + w[10] + w[11] + w[12] + w[13] + w[14]
      /\ Sum(v, N) = v[1] + v[2] + v[3] + v[4] + v[5] + v[6] + v[7] + v[8]
                       + v[9] + v[10] + v[11] + v[12] + v[13] + v[14]
  BY <1>5, SumOfRules DEF N
<1>7. /\ w[1] \in Int /\ w[2] \in Int /\ w[3] \in Int /\ w[4] \in Int
      /\ w[5] \in Int /\ w[6] \in Int /\ w[7] \in Int /\ w[8] \in Int
      /\ w[9] \in Int /\ w[10] \in Int /\ w[11] \in Int /\ w[12] \in Int
      /\ w[13] \in Int /\ w[14] \in Int
  BY <1>0, <1>1
<1>8. Sum(w, N) =
        w[1] + (w[2] + w[3] + w[4] + w[5] + w[6])
          + (w[7] + w[8] + w[9] + w[10] + w[11]) + w[12] + w[13] + w[14]
  BY <1>6, <1>7
<1>9. Sum(v, N) =
        100 * w[1]
          + (100 * w[2] + 100 * w[3] + 75 * w[4] + 50 * w[5] + 25 * w[6])
          + (100 * w[7] + 75 * w[8] + 50 * w[9] + 25 * w[10])
          + 75 * w[13] + 25 * w[14]
  <2>1. v[11] = 0 /\ v[12] = 0
    BY <1>3, <1>7
  <2>2. /\ v[1] = 100 * w[1] /\ v[2] = 100 * w[2] /\ v[3] = 100 * w[3]
        /\ v[4] = 75 * w[4] /\ v[5] = 50 * w[5] /\ v[6] = 25 * w[6]
    BY <1>3, <1>7
  <2>3. /\ v[7] = 100 * w[7] /\ v[8] = 75 * w[8] /\ v[9] = 50 * w[9]
        /\ v[10] = 25 * w[10] /\ v[13] = 75 * w[13] /\ v[14] = 25 * w[14]
    BY <1>3, <1>7
  <2>. QED  BY <1>6, <1>7, <2>1, <2>2, <2>3
<1>. QED  BY <1>2, <1>4, <1>8, <1>9
          DEF ByChange, ColdPoints, MediumPoints, rules

-----------------------------------------------------------------------------
(***************************************************************************)
(* The change of the temperature enters through one membership: that of    *)
(* the rules that fire for it.                                             *)
(***************************************************************************)
ClassAt(x, d, lim, n, c, m) ==
  /\ ByChange(x, d) = n * Both(x, lim)
  /\ ColdPoints(x, d) = c * Both(x, lim)
  /\ MediumPoints(x, d) = m * Both(x, lim)
ClassOf(d, lim, n, c, m) ==
  /\ m <= c /\ c <= 100 * n
  /\ \A x : Proper(x) => ClassAt(x, d, lim, n, c, m)

LEMMA BothValues ==
  ASSUME NEW x, Proper(x)
  PROVE  Both(x, 0) = 0 /\ Both(x, 19840) \in Int /\ Both(x, Unit) \in Int
BY DEF Both, Proper, Unit

\* With one rule of weight lim (an even change), or with two neighbours of
\* half the weight (an odd one).
LEMMA OneOrTwoRules ==
  ASSUME NEW d \in Int
  PROVE  \E lim \in {Unit, 19840}, n \in {1, 2}, c \in Nat, m \in Nat :
           ClassOf(d, lim, n, c, m)
<1>1. CASE d <= -1
  <2>1. Neg(d) = Unit /\ Zero(d) = 0 /\ Spos(d) = 0 /\ Pos(d) = 0 /\ Vpos(d) = 0
    BY <1>1 DEF Fraction, Neg, Zero, Spos, Pos, Vpos, HalfTrapeze, Falling,
                Rising, Triangle, Mf, Unit
  <2>2. ASSUME NEW x, Proper(x) PROVE ClassAt(x, d, Unit, 1, 100, 100)
    <3>1. Both(x, 0) = 0 /\ Both(x, Unit) \in Int
      BY <2>2, BothValues
    <3>. QED  BY <2>1, <3>1 DEF ClassAt, ByChange, ColdPoints, MediumPoints
  <2>3. ClassOf(d, Unit, 1, 100, 100)
    BY <2>2 DEF ClassOf
  <2>. WITNESS Unit \in {Unit, 19840}, 1 \in {1, 2}, 100 \in Nat, 100 \in Nat
  <2>. QED  BY <2>3
<1>2. CASE d = 0
  <2>1. Neg(d) = 0 /\ Zero(d) = Unit /\ Spos(d) = 0 /\ Pos(d) = 0 /\ Vpos(d) = 0
    BY <1>2 DEF Fraction, Neg, Zero, Spos, Pos, Vpos, HalfTrapeze, Falling,
                Rising, Triangle, Mf, Unit
  <2>2. ASSUME NEW x, Proper(x) PROVE ClassAt(x, d, Unit, 1, 100, 75)
    <3>1. Both(x, 0) = 0 /\ Both(x, Unit) \in Int
      BY <2>2, BothValues
    <3>. QED  BY <2>1, <3>1 DEF ClassAt, ByChange, ColdPoints, MediumPoints
  <2>3. ClassOf(d, Unit, 1, 100, 75)
    BY <2>2 DEF ClassOf
  <2>. WITNESS Unit \in {Unit, 19840}, 1 \in {1, 2}, 100 \in Nat, 75 \in Nat
  <2>. QED  BY <2>3
<1>3. CASE d = 1
  <2>1. Neg(d) = 0 /\ Zero(d) = 19840 /\ Spos(d) = 19840 /\ Pos(d) = 0 /\ Vpos(d) = 0
    BY <1>3 DEF Fraction, Neg, Zero, Spos, Pos, Vpos, HalfTrapeze, Falling,
                Rising, Triangle, Mf, Unit
  <2>2. ASSUME NEW x, Proper(x) PROVE ClassAt(x, d, 19840, 2, 175, 125)
    <3>1. Both(x, 0) = 0 /\ Both(x, 19840) \in Int
      BY <2>2, BothValues
    <3>. QED  BY <2>1, <3>1 DEF ClassAt, ByChange, ColdPoints, MediumPoints
  <2>3. ClassOf(d, 19840, 2, 175, 125)
    BY <2>2 DEF ClassOf
  <2>. WITNESS 19840 \in {Unit, 19840}, 2 \in {1, 2}, 175 \in Nat, 125 \in Nat
  <2>. QED  BY <2>3
<1>4. CASE d = 2
  <2>1. Neg(d) = 0 /\ Zero(d) = 0 /\ Spos(d) = Unit /\ Pos(d) = 0 /\ Vpos(d) = 0
    BY <1>4 DEF Fraction, Neg, Zero, Spos, Pos, Vpos, HalfTrapeze, Falling,
                Rising, Triangle, Mf, Unit
  <2>2. ASSUME NEW x, Proper(x) PROVE ClassAt(x, d, Unit, 1, 75, 50)
    <3>1. Both(x, 0) = 0 /\ Both(x, Unit) \in Int
      BY <2>2, BothValues
    <3>. QED  BY <2>1, <3>1 DEF ClassAt, ByChange, ColdPoints, MediumPoints
  <2>3. ClassOf(d, Unit, 1, 75, 50)
    BY <2>2 DEF ClassOf
  <2>. WITNESS Unit \in {Unit, 19840}, 1 \in {1, 2}, 75 \in Nat, 50 \in Nat
  <2>. QED  BY <2>3
<1>5. CASE d = 3
  <2>1. Neg(d) = 0 /\ Zero(d) = 0 /\ Spos(d) = 19840 /\ Pos(d) = 19840 /\ Vpos(d) = 0
    BY <1>5 DEF Fraction, Neg, Zero, Spos, Pos, Vpos, HalfTrapeze, Falling,
                Rising, Triangle, Mf, Unit
  <2>2. ASSUME NEW x, Proper(x) PROVE ClassAt(x, d, 19840, 2, 125, 75)
    <3>1. Both(x, 0) = 0 /\ Both(x, 19840) \in Int
      BY <2>2, BothValues
    <3>. QED  BY <2>1, <3>1 DEF ClassAt, ByChange, ColdPoints, MediumPoints
  <2>3. ClassOf(d, 19840, 2, 125, 75)
    BY <2>2 DEF ClassOf
  <2>. WITNESS 19840 \in {Unit, 19840}, 2 \in {1, 2}, 125 \in Nat, 75 \in Nat
  <2>. QED  BY <2>3
<1>6. CASE d = 4
  <2>1. Neg(d) = 0 /\ Zero(d) = 0 /\ Spos(d) = 0 /\ Pos(d) = Unit /\ Vpos(d) = 0
    BY <1>6 DEF Fraction, Neg, Zero, Spos, Pos, Vpos, HalfTrapeze, Falling,
                Rising, Triangle, Mf, Unit
  <2>2. ASSUME NEW x, Proper(x) PROVE ClassAt(x, d, Unit, 1, 50, 25)
    <3>1. Both(x, 0) = 0 /\ Both(x, Unit) \in Int
      BY <2>2, BothValues
    <3>. QED  BY <2>1, <3>1 DEF ClassAt, ByChange, ColdPoints, MediumPoints
  <2>3. ClassOf(d, Unit, 1, 50, 25)
    BY <2>2 DEF ClassOf
  <2>. WITNESS Unit \in {Unit, 19840}, 1 \in {1, 2}, 50 \in Nat, 25 \in Nat
  <2>. QED  BY <2>3
<1>7. CASE d = 5
  <2>1. Neg(d) = 0 /\ Zero(d) = 0 /\ Spos(d) = 0 /\ Pos(d) = 19840 /\ Vpos(d) = 19840
    BY <1>7 DEF Fraction, Neg, Zero, Spos, Pos, Vpos, HalfTrapeze, Falling,
                Rising, Triangle, Mf, Unit
  <2>2. ASSUME NEW x, Proper(x) PROVE ClassAt(x, d, 19840, 2, 75, 25)
    <3>1. Both(x, 0) = 0 /\ Both(x, 19840) \in Int
      BY <2>2, BothValues
    <3>. QED  BY <2>1, <3>1 DEF ClassAt, ByChange, ColdPoints, MediumPoints
  <2>3. ClassOf(d, 19840, 2, 75, 25)
    BY <2>2 DEF ClassOf
  <2>. WITNESS 19840 \in {Unit, 19840}, 2 \in {1, 2}, 75 \in Nat, 25 \in Nat
  <2>. QED  BY <2>3
<1>8. CASE d >= 6
  <2>1. Neg(d) = 0 /\ Zero(d) = 0 /\ Spos(d) = 0 /\ Pos(d) = 0 /\ Vpos(d) = Unit
    BY <1>8 DEF Fraction, Neg, Zero, Spos, Pos, Vpos, HalfTrapeze, Falling,
                Rising, Triangle, Mf, Unit
  <2>2. ASSUME NEW x, Proper(x) PROVE ClassAt(x, d, Unit, 1, 25, 0)
    <3>1. Both(x, 0) = 0 /\ Both(x, Unit) \in Int
      BY <2>2, BothValues
    <3>. QED  BY <2>1, <3>1 DEF ClassAt, ByChange, ColdPoints, MediumPoints
  <2>3. ClassOf(d, Unit, 1, 25, 0)
    BY <2>2 DEF ClassOf
  <2>. WITNESS Unit \in {Unit, 19840}, 1 \in {1, 2}, 25 \in Nat, 0 \in Nat
  <2>. QED  BY <2>3
<1>. QED  BY <1>1, <1>2, <1>3, <1>4, <1>5, <1>6, <1>7, <1>8

-----------------------------------------------------------------------------
(***************************************************************************)
(* Two rules that hand over to each other: when the weight of the one that *)
(* asks for more goes down and that of the other up, the mean goes down.   *)
(***************************************************************************)
\* a2/b2 <= a1/b1
NoMore(a2, b2, a1, b1) == a2 * b1 <= a1 * b2

LEMMA NoMoreIsTransitive ==
  ASSUME NEW a1 \in Nat, NEW b1 \in Nat, NEW a2 \in Nat, NEW b2 \in Nat,
         NEW a3 \in Nat, NEW b3 \in Nat, b2 > 0,
         NoMore(a2, b2, a1, b1), NoMore(a3, b3, a2, b2)
  PROVE  NoMore(a3, b3, a1, b1)
<1>1. (a3 * b2) * b1 <= (a2 * b3) * b1
  BY DEF NoMore
<1>2. (a2 * b1) * b3 <= (a1 * b2) * b3
  BY DEF NoMore
<1>. DEFINE x == a3 * b1
            y == a1 * b3
<1>3. x \in Nat /\ y \in Nat
  OBVIOUS
<1>4. /\ (a3 * b2) * b1 = b2 * x /\ (a2 * b3) * b1 = (a2 * b1) * b3
      /\ (a1 * b2) * b3 = b2 * y
  OBVIOUS
<1>. HIDE DEF x, y
<1>5. b2 * x <= b2 * y
  BY <1>1, <1>2, <1>3, <1>4
<1>6. x <= y
  <2>1. SUFFICES ASSUME y + 1 <= x PROVE FALSE
    BY <1>3
  <2>2. b2 * (y + 1) <= b2 * x
    BY <1>3, <2>1
  <2>3. b2 * (y + 1) = b2 * y + b2 /\ b2 * y \in Int /\ b2 * x \in Int
    BY <1>3
  <2>. QED  BY <1>5, <2>2, <2>3
<1>. QED  BY <1>6 DEF NoMore, x, y

HandOver(p, u, q, v, a1, b1, a2, b2) ==
  /\ p \in Nat /\ u \in Nat /\ q \in Nat /\ v \in Nat
  /\ a1 \in Nat /\ b1 \in Nat /\ a2 \in Nat /\ b2 \in Nat
  /\ q * u <= p * v /\ a2 <= a1 /\ b1 <= b2
  /\ u * a1 + v * b1 > 0 /\ u * a2 + v * b2 > 0

LEMMA MixedMean ==
  ASSUME NEW p, NEW u, NEW q, NEW v, NEW a1, NEW b1, NEW a2, NEW b2,
         HandOver(p, u, q, v, a1, b1, a2, b2)
  PROVE  NoMore(p * a2 + q * b2, u * a2 + v * b2, p * a1 + q * b1, u * a1 + v * b1)
<1>. USE DEF HandOver
<1>. DEFINE e == p * v - q * u
            f == a1 * b2 - a2 * b1
<1>1. e \in Int /\ e >= 0
  OBVIOUS
<1>2. f \in Int /\ f >= 0
  <2>1. a2 * b1 <= a1 * b1
    OBVIOUS
  <2>2. a1 * b1 <= a1 * b2
    OBVIOUS
  <2>. QED  BY <2>1, <2>2
<1>3. e * f >= 0
  <2>. HIDE DEF e, f
  <2>. QED  BY <1>1, <1>2
<1>4. (p * a1 + q * b1) * (u * a2 + v * b2)
        = (p * a2 + q * b2) * (u * a1 + v * b1) + e * f
  OBVIOUS
<1>. DEFINE n1 == p * a1 + q * b1
            d1 == u * a1 + v * b1
            n2 == p * a2 + q * b2
            d2 == u * a2 + v * b2
<1>5. n1 \in Nat /\ d1 \in Nat /\ n2 \in Nat /\ d2 \in Nat /\ d1 > 0 /\ d2 > 0
  OBVIOUS
<1>6. e * f \in Int
  BY <1>1, <1>2
<1>7. n1 * d2 = n2 * d1 + e * f
  BY <1>4
<1>. HIDE DEF n1, d1, n2, d2, e, f
<1>8. n2 * d1 <= n1 * d2
  BY <1>3, <1>5, <1>6, <1>7
<1>. QED  BY <1>8 DEF NoMore, n1, d1, n2, d2

-----------------------------------------------------------------------------
(***************************************************************************)
(* Below the sterile range the rules hand over at 9600 (75 degrees) and at *)
(* 10880 (85 degrees): between two of these points two rules fire, and the *)
(* weight moves from the one that asks for more to the other.              *)
(***************************************************************************)
LEMMA Slopes ==
  ASSUME NEW s \in Int, NEW t \in Int, s <= t
  PROVE  /\ Melting(t) <= Melting(s)
         /\ t <= 9600 => Cold(s) <= Cold(t)
         /\ 9600 <= s => Cold(t) <= Cold(s)
         /\ t <= 10880 => Medium(s) <= Medium(t)
         /\ 10880 <= s => Medium(t) <= Medium(s)
         /\ Hot(s) <= Hot(t)
<1>1. Melting(t) <= Melting(s)
  BY DEF Fraction, Melting, HalfTrapeze, Falling, Mf, Unit
<1>2. /\ t <= 9600 => Cold(s) <= Cold(t)
      /\ 9600 <= s => Cold(t) <= Cold(s)
  BY DEF Fraction, Cold, Triangle, Mf, Unit
<1>3. /\ t <= 10880 => Medium(s) <= Medium(t)
      /\ 10880 <= s => Medium(t) <= Medium(s)
  BY DEF Fraction, Medium, Triangle, Mf, Unit
<1>4. Hot(s) <= Hot(t)
  BY DEF Fraction, Hot, HalfTrapeze, Rising, Mf, Unit
<1>. QED  BY <1>1, <1>2, <1>3, <1>4

LEMMA NoOtherRules ==
  ASSUME NEW t \in Int
  PROVE  /\ t < 14592 => Sterile(t) = 0
         /\ t <= 9600 => Medium(t) = 0
         /\ t <= 10880 => Hot(t) = 0
         /\ t >= 9600 => Melting(t) = 0
         /\ t >= 10880 => Cold(t) = 0
<1>1. (t < 14592 => Sterile(t) = 0) /\ (t <= 9600 => Medium(t) = 0)
  BY DEF Fraction, Sterile, Trapeze, Medium, Triangle, Mf, Unit
<1>2. (t <= 10880 => Hot(t) = 0) /\ (t >= 9600 => Melting(t) = 0)
  BY DEF Fraction, Hot, Melting, HalfTrapeze, Rising, Falling, Mf, Unit
<1>3. t >= 10880 => Cold(t) = 0
  BY DEF Fraction, Cold, Triangle, Mf, Unit
<1>. QED  BY <1>1, <1>2, <1>3

LEMMA BothOrdered ==
  ASSUME NEW a, NEW b, NEW l, Proper(a), Proper(b), Proper(l), a <= b
  PROVE  Both(a, l) <= Both(b, l) /\ Both(a, l) \in Nat /\ Both(b, l) \in Nat
BY DEF Both, Proper, Unit

LEMMA BothZero ==
  ASSUME NEW l, Proper(l)
  PROVE  Both(0, l) = 0
BY DEF Both, Proper

\* The sums of the rules below the sterile range, for a class of changes.
LEMMA SumsBelowSterile ==
  ASSUME NEW t \in Int, t < 14592, NEW d \in Int,
         NEW lim \in {Unit, 19840}, NEW n \in Nat, NEW c \in Nat, NEW m \in Nat,
         ClassOf(d, lim, n, c, m)
  PROVE  /\ SumWeight(Rules(t, d)) =
              Melting(t) + n * Both(Cold(t), lim) + n * Both(Medium(t), lim)
                + Hot(t)
         /\ SumMaximums(Rules(t, d)) =
              100 * Melting(t) + c * Both(Cold(t), lim)
                + m * Both(Medium(t), lim)
<1>. DEFINE x == Both(Cold(t), lim)
            y == Both(Medium(t), lim)
<1>1. Proper(lim) /\ Proper(Cold(t)) /\ Proper(Medium(t))
  BY TempMemberships DEF Proper, Unit
<1>2. Proper(x) /\ Proper(y)
  BY <1>1, BothProper
<1>3. /\ ByChange(Cold(t), d) = n * x /\ ByChange(Medium(t), d) = n * y
      /\ ColdPoints(Cold(t), d) = c * x /\ MediumPoints(Medium(t), d) = m * y
  BY <1>1 DEF ClassOf, ClassAt
<1>4. Both(Sterile(t), Neg(d)) = 0 /\ Both(Sterile(t), Zero(d)) = 0
  BY NoOtherRules, DTempMemberships, BothZero
<1>5. Melting(t) \in Int /\ Hot(t) \in Int
  BY TempMemberships DEF Proper
<1>. HIDE DEF x, y
<1>6. /\ n * x \in Int /\ n * y \in Int /\ c * x \in Int /\ m * y \in Int
  BY <1>2 DEF Proper
<1>7. SumWeight(Rules(t, d)) = Melting(t) + n * x + n * y + Hot(t) + 0 + 0
  BY <1>3, <1>4, RulesExpanded
<1>8. SumMaximums(Rules(t, d)) = 100 * Melting(t) + c * x + m * y + 75 * 0 + 25 * 0
  BY <1>3, <1>4, RulesExpanded
<1>. QED  BY <1>5, <1>6, <1>7, <1>8 DEF x, y

\* The mean of the rules at t is not more than the mean at s.
MeanFalls(s, t, d) ==
  NoMore(SumMaximums(Rules(t, d)), SumWeight(Rules(t, d)),
         SumMaximums(Rules(s, d)), SumWeight(Rules(s, d)))

\* Wax that melts: from "melting", which asks for 100, to "cold".
LEMMA MeanFallsWhileMelting ==
  ASSUME NEW s \in Int, NEW t \in Int, s <= t, t <= 9600, NEW d \in Int
  PROVE  MeanFalls(s, t, d)
<1>1. PICK lim \in {Unit, 19840}, n \in {1, 2}, c \in Nat, m \in Nat :
        ClassOf(d, lim, n, c, m)
  BY OneOrTwoRules
<1>. DEFINE A(r) == Melting(r)
            B(r) == Both(Cold(r), lim)
<1>2. Proper(lim)
  BY DEF Proper, Unit
<1>3. A(t) <= A(s) /\ A(s) \in Nat /\ A(t) \in Nat
  BY Slopes, TempMemberships DEF Proper
<1>4. B(s) <= B(t) /\ B(s) \in Nat /\ B(t) \in Nat
  BY <1>2, Slopes, TempMemberships, BothOrdered
<1>5. \A r \in {s, t} : /\ SumWeight(Rules(r, d)) = 1 * A(r) + n * B(r)
                        /\ SumMaximums(Rules(r, d)) = 100 * A(r) + c * B(r)
  <2>. TAKE r \in {s, t}
  <2>1. r \in Int /\ r < 14592 /\ r <= 9600
    OBVIOUS
  <2>2. Both(Medium(r), lim) = 0 /\ Hot(r) = 0
    BY <1>2, <2>1, NoOtherRules, BothZero
  <2>3. A(r) \in Nat /\ B(r) \in Nat
    BY <1>3, <1>4
  <2>4. /\ SumWeight(Rules(r, d)) = A(r) + n * B(r) + n * 0 + 0
        /\ SumMaximums(Rules(r, d)) = 100 * A(r) + c * B(r) + m * 0
    BY <1>1, <2>1, <2>2, SumsBelowSterile
  <2>. HIDE DEF A, B
  <2>. QED  BY <2>3, <2>4
<1>6. SumWeight(Rules(s, d)) > 0 /\ SumWeight(Rules(t, d)) > 0
  BY DutyDefined
<1>7. c * 1 <= 100 * n /\ n \in Nat
  BY <1>1 DEF ClassOf
<1>. HIDE DEF A, B
<1>8. HandOver(100, 1, c, n, A(s), B(s), A(t), B(t))
  <2>1. 1 * A(s) + n * B(s) > 0 /\ 1 * A(t) + n * B(t) > 0
    BY <1>5, <1>6
  <2>. QED  BY <1>3, <1>4, <1>7, <2>1 DEF HandOver
<1>9. NoMore(100 * A(t) + c * B(t), 1 * A(t) + n * B(t),
             100 * A(s) + c * B(s), 1 * A(s) + n * B(s))
  BY <1>8, MixedMean
<1>. QED  BY <1>5, <1>9 DEF MeanFalls

\* Melted wax: from "cold" to "medium", whose rules ask for no more.
LEMMA MeanFallsWhileCold ==
  ASSUME NEW s \in Int, NEW t \in Int, s <= t, 9600 <= s, t <= 10880,
         NEW d \in Int
  PROVE  MeanFalls(s, t, d)
<1>1. PICK lim \in {Unit, 19840}, n \in {1, 2}, c \in Nat, m \in Nat :
        ClassOf(d, lim, n, c, m)
  BY OneOrTwoRules
<1>. DEFINE A(r) == Both(Cold(r), lim)
            B(r) == Both(Medium(r), lim)
<1>2. Proper(lim)
  BY DEF Proper, Unit
<1>3. A(t) <= A(s) /\ A(s) \in Nat /\ A(t) \in Nat
  BY <1>2, Slopes, TempMemberships, BothOrdered
<1>4. B(s) <= B(t) /\ B(s) \in Nat /\ B(t) \in Nat
  BY <1>2, Slopes, TempMemberships, BothOrdered
<1>5. \A r \in {s, t} : /\ SumWeight(Rules(r, d)) = n * A(r) + n * B(r)
                        /\ SumMaximums(Rules(r, d)) = c * A(r) + m * B(r)
  <2>. TAKE r \in {s, t}
  <2>1. r \in Int /\ r < 14592 /\ 9600 <= r /\ r <= 10880
    OBVIOUS
  <2>2. Melting(r) = 0 /\ Hot(r) = 0
    BY <2>1, NoOtherRules
  <2>3. A(r) \in Nat /\ B(r) \in Nat
    BY <1>3, <1>4
  <2>4. /\ SumWeight(Rules(r, d)) = 0 + n * A(r) + n * B(r) + 0
        /\ SumMaximums(Rules(r, d)) = 100 * 0 + c * A(r) + m * B(r)
    BY <1>1, <2>1, <2>2, SumsBelowSterile
  <2>. HIDE DEF A, B
  <2>. QED  BY <2>3, <2>4
<1>6. SumWeight(Rules(s, d)) > 0 /\ SumWeight(Rules(t, d)) > 0
  BY DutyDefined
<1>7. m * n <= c * n /\ n \in Nat
  BY <1>1 DEF ClassOf
<1>. HIDE DEF A, B
<1>8. HandOver(c, n, m, n, A(s), B(s), A(t), B(t))
  <2>1. n * A(s) + n * B(s) > 0 /\ n * A(t) + n * B(t) > 0
    BY <1>5, <1>6
  <2>. QED  BY <1>3, <1>4, <1>7, <2>1 DEF HandOver
<1>9. NoMore(c * A(t) + m * B(t), n * A(t) + n * B(t),
             c * A(s) + m * B(s), n * A(s) + n * B(s))
  BY <1>8, MixedMean
<1>. QED  BY <1>5, <1>9 DEF MeanFalls

\* Hot wax: from "medium" to "hot", which asks for nothing.
LEMMA MeanFallsWhileMedium ==
  ASSUME NEW s \in Int, NEW t \in Int, s <= t, 10880 <= s, t < 14592,
         NEW d \in Int
  PROVE  MeanFalls(s, t, d)
<1>1. PICK lim \in {Unit, 19840}, n \in {1, 2}, c \in Nat, m \in Nat :
        ClassOf(d, lim, n, c, m)
  BY OneOrTwoRules
<1>. DEFINE A(r) == Both(Medium(r), lim)
            B(r) == Hot(r)
<1>2. Proper(lim)
  BY DEF Proper, Unit
<1>3. A(t) <= A(s) /\ A(s) \in Nat /\ A(t) \in Nat
  BY <1>2, Slopes, TempMemberships, BothOrdered
<1>4. B(s) <= B(t) /\ B(s) \in Nat /\ B(t) \in Nat
  BY Slopes, TempMemberships DEF Proper
<1>5. \A r \in {s, t} : /\ SumWeight(Rules(r, d)) = n * A(r) + 1 * B(r)
                        /\ SumMaximums(Rules(r, d)) = m * A(r) + 0 * B(r)
  <2>. TAKE r \in {s, t}
  <2>1. r \in Int /\ r < 14592 /\ r >= 9600 /\ r >= 10880
    OBVIOUS
  <2>2. Melting(r) = 0 /\ Both(Cold(r), lim) = 0
    BY <1>2, <2>1, NoOtherRules, BothZero
  <2>3. A(r) \in Nat /\ B(r) \in Nat
    BY <1>3, <1>4
  <2>4. /\ SumWeight(Rules(r, d)) = 0 + n * 0 + n * A(r) + B(r)
        /\ SumMaximums(Rules(r, d)) = 100 * 0 + c * 0 + m * A(r)
    BY <1>1, <2>1, <2>2, SumsBelowSterile
  <2>. HIDE DEF A, B
  <2>. QED  BY <2>3, <2>4
<1>6. SumWeight(Rules(s, d)) > 0 /\ SumWeight(Rules(t, d)) > 0
  BY DutyDefined
<1>7. 0 * n <= m * 1 /\ n \in Nat
  OBVIOUS
<1>. HIDE DEF A, B
<1>8. HandOver(m, n, 0, 1, A(s), B(s), A(t), B(t))
  <2>1. n * A(s) + 1 * B(s) > 0 /\ n * A(t) + 1 * B(t) > 0
    BY <1>5, <1>6
  <2>. QED  BY <1>3, <1>4, <1>7, <2>1 DEF HandOver
<1>9. NoMore(m * A(t) + 0 * B(t), n * A(t) + 1 * B(t),
             m * A(s) + 0 * B(s), n * A(s) + 1 * B(s))
  BY <1>8, MixedMean
<1>. QED  BY <1>5, <1>9 DEF MeanFalls

\* Two cuts of means of which the second is not more: it is at most one
\* percent above the first.
LEMMA CutsOrdered ==
  ASSUME NEW m1 \in Nat, NEW w1 \in Nat, NEW m2 \in Nat, NEW w2 \in Nat,
         w1 > 0, w2 > 0, NoMore(m2, w2, m1, w1),
         NEW k, NEW l, NearMean(k, m1, w1), NearMean(l, m2, w2)
  PROVE  l <= k + 1
<1>0. /\ k \in Int /\ 1000 * m1 <= 1000 * (k * w1) + 1001 * w1
      /\ l \in Int /\ 1000 * (l * w2) <= 1000 * m2 + w2
  BY DEF NearMean
<1>1. SUFFICES ASSUME k + 2 <= l PROVE FALSE
  BY <1>0
<1>. DEFINE x == k * w1
            y == l * w2
            e == w1 * w2
<1>2. x \in Int /\ y \in Int /\ e \in Int /\ e > 0
  BY <1>0
<1>3. (k + 2) * e <= l * e
  BY <1>0, <1>1, <1>2
<1>4. l * e = w1 * y /\ (k + 2) * e = w2 * x + 2 * e
  BY <1>0, <1>2
<1>5. w1 * (1000 * y) <= w1 * (1000 * m2 + w2)
  BY <1>0
<1>6. w2 * (1000 * m1) <= w2 * (1000 * x + 1001 * w1)
  BY <1>0
<1>7. m2 * w1 <= m1 * w2
  BY DEF NoMore
<1>8. /\ w1 * (1000 * y) = 1000 * (w1 * y)
      /\ w1 * (1000 * m2 + w2) = 1000 * (m2 * w1) + e
      /\ w2 * (1000 * m1) = 1000 * (m1 * w2)
      /\ w2 * (1000 * x + 1001 * w1) = 1000 * (w2 * x) + 1001 * e
  BY <1>2
<1>9. /\ w1 * y \in Int /\ w2 * x \in Int /\ m2 * w1 \in Int /\ m1 * w2 \in Int
  BY <1>2
<1>10. 1000 * (w1 * y) <= 1000 * (w2 * x) + 1002 * e
  <2>. HIDE DEF x, y, e
  <2>. QED  BY <1>2, <1>5, <1>6, <1>7, <1>8, <1>9
<1>11. w2 * x + 2 * e <= w1 * y
  BY <1>3, <1>4
<1>. HIDE DEF x, y, e
<1>. QED  BY <1>2, <1>9, <1>10, <1>11

\* Below 114 degrees, where "sterile" begins to heat again, hotter wax is
\* never heated more, for any change of the temperature, but for the percent
\* that the rounding of the floats can cost at the cut (regulator.c 265-317).
THEOREM HotterNeedsLess ==
  ASSUME NEW s \in Int, NEW t \in Int, s <= t, t < 14592, NEW d \in Int,
         NEW x \in defuzzyfication(s, d), NEW y \in defuzzyfication(t, d)
  PROVE  y <= x + PWM_STEP
<1>2. ASSUME NEW a \in Int, NEW b \in Int, a <= b, b < 14592,
             \/ b <= 9600
             \/ 9600 <= a /\ b <= 10880
             \/ 10880 <= a
      PROVE  MeanFalls(a, b, d)
  BY <1>2, MeanFallsWhileMelting, MeanFallsWhileCold, MeanFallsWhileMedium
<1>3. ASSUME NEW a \in Int, NEW b \in Int, NEW c \in Int,
             MeanFalls(a, b, d), MeanFalls(b, c, d)
      PROVE  MeanFalls(a, c, d)
  <2>. DEFINE ma == SumMaximums(Rules(a, d))
              wa == SumWeight(Rules(a, d))
              mb == SumMaximums(Rules(b, d))
              wb == SumWeight(Rules(b, d))
              mc == SumMaximums(Rules(c, d))
              wc == SumWeight(Rules(c, d))
  <2>1. NoMore(mb, wb, ma, wa) /\ NoMore(mc, wc, mb, wb)
    BY <1>3 DEF MeanFalls
  <2>2. IsMean(ma, wa) /\ IsMean(mb, wb) /\ IsMean(mc, wc)
    BY DutyIsMean
  <2>3. NoMore(mc, wc, ma, wa) => MeanFalls(a, c, d)
    BY DEF MeanFalls
  <2>. HIDE DEF ma, wa, mb, wb, mc, wc
  <2>4. /\ ma \in Nat /\ wa \in Nat /\ mb \in Nat /\ wb \in Nat /\ wb > 0
        /\ mc \in Nat /\ wc \in Nat
    BY <2>2 DEF IsMean
  <2>. QED  BY <2>1, <2>3, <2>4, NoMoreIsTransitive
<1>4. MeanFalls(s, t, d)
  <2>1. CASE t <= 9600 \/ (9600 <= s /\ t <= 10880) \/ 10880 <= s
    BY <1>2, <2>1
  <2>2. CASE s <= 9600 /\ 9600 <= t /\ t <= 10880
    <3>1. MeanFalls(s, 9600, d) /\ MeanFalls(9600, t, d)
      BY <1>2, <2>2
    <3>. QED  BY <1>3, <3>1
  <2>3. CASE s <= 9600 /\ 10880 <= t
    <3>1. /\ MeanFalls(s, 9600, d) /\ MeanFalls(9600, 10880, d)
          /\ MeanFalls(10880, t, d)
      BY <1>2, <2>3
    <3>2. MeanFalls(s, 10880, d)
      BY <1>3, <3>1
    <3>. QED  BY <1>3, <3>1, <3>2
  <2>4. CASE 9600 <= s /\ s <= 10880 /\ 10880 <= t
    <3>1. MeanFalls(s, 10880, d) /\ MeanFalls(10880, t, d)
      BY <1>2, <2>4
    <3>. QED  BY <1>3, <3>1
  <2>. QED  BY <2>1, <2>2, <2>3, <2>4
<1>. DEFINE m1 == SumMaximums(Rules(s, d))
            w1 == SumWeight(Rules(s, d))
            m2 == SumMaximums(Rules(t, d))
            w2 == SumWeight(Rules(t, d))
<1>5. PICK k \in Cut(m1, w1) : x = k * PWM_STEP
  BY DEF defuzzyfication
<1>6. PICK l \in Cut(m2, w2) : y = l * PWM_STEP
  BY DEF defuzzyfication
<1>7. NoMore(m2, w2, m1, w1) /\ IsMean(m1, w1) /\ IsMean(m2, w2)
  BY <1>4, DutyIsMean DEF MeanFalls
<1>. HIDE DEF m1, w1, m2, w2
<1>8. NearMean(k, m1, w1) /\ NearMean(l, m2, w2)
  BY <1>7, CutBounded
<1>9. /\ m1 \in Nat /\ w1 \in Nat /\ w1 > 0
      /\ m2 \in Nat /\ w2 \in Nat /\ w2 > 0
  BY <1>7 DEF IsMean
<1>10. l <= k + 1
  BY <1>7, <1>8, <1>9, CutsOrdered
<1>11. k \in Int /\ l \in Int
  BY <1>8 DEF NearMean
<1>. QED  BY <1>5, <1>6, <1>10, <1>11 DEF PWM_STEP

\* Solid wax (up to 65 degrees) is heated with full power (or with the 99
\* percent that the bound on the rounding leaves possible), and wax above 116
\* degrees is not heated, however the temperature changes (regulator.c
\* 265-317).
THEOREM DutyAtTheEnds ==
  ASSUME NEW t \in Int, NEW d \in Int
  PROVE  /\ t <= 8320 =>
              defuzzyfication(t, d) \subseteq {99 * PWM_STEP, 100 * PWM_STEP}
         /\ t > 14848 => defuzzyfication(t, d) = {0}
<1>1. ASSUME t <= 8320
      PROVE  defuzzyfication(t, d) \subseteq {99 * PWM_STEP, 100 * PWM_STEP}
  <2>1. Melting(t) = Unit /\ Cold(t) = 0 /\ Medium(t) = 0 /\ Hot(t) = 0
    BY <1>1 DEF Fraction, Melting, Cold, Medium, Hot, HalfTrapeze, Falling,
                Rising, Triangle, Mf, Unit
  <2>2. PICK lim \in {Unit, 19840}, n \in {1, 2}, c \in Nat, m \in Nat :
          ClassOf(d, lim, n, c, m)
    BY OneOrTwoRules
  <2>3. Both(0, lim) = 0
    BY BothZero DEF Proper, Unit
  <2>4. /\ SumWeight(Rules(t, d)) = Unit + n * 0 + n * 0 + 0
        /\ SumMaximums(Rules(t, d)) = 100 * Unit + c * 0 + m * 0
    BY <1>1, <2>1, <2>2, <2>3, SumsBelowSterile
  <2>5. SumWeight(Rules(t, d)) = 39680 /\ SumMaximums(Rules(t, d)) = 3968000
    BY <2>4 DEF Unit
  <2>6. Cut(3968000, 39680) \subseteq {99, 100}
    BY DEF Cut
  <2>. QED  BY <2>5, <2>6 DEF defuzzyfication
<1>2. ASSUME t > 14848 PROVE defuzzyfication(t, d) = {0}
  <2>1. /\ Melting(t) = 0 /\ Cold(t) = 0 /\ Medium(t) = 0 /\ Hot(t) = Unit
        /\ Sterile(t) = 0
    BY <1>2 DEF Fraction, Melting, Cold, Medium, Hot, Sterile, HalfTrapeze,
                Falling, Rising, Triangle, Trapeze, Mf, Unit
  <2>2. /\ Both(0, Neg(d)) = 0 /\ Both(0, Zero(d)) = 0 /\ Both(0, Spos(d)) = 0
        /\ Both(0, Pos(d)) = 0 /\ Both(0, Vpos(d)) = 0
    BY DTempMemberships, BothZero
  <2>3. /\ ByChange(0, d) = 0 /\ ColdPoints(0, d) = 0 /\ MediumPoints(0, d) = 0
    BY <2>2 DEF ByChange, ColdPoints, MediumPoints
  <2>4. /\ SumWeight(Rules(t, d)) = 0 + 0 + 0 + Unit + 0 + 0
        /\ SumMaximums(Rules(t, d)) = 100 * 0 + 0 + 0 + 75 * 0 + 25 * 0
    BY <2>1, <2>2, <2>3, RulesExpanded
  <2>5. SumWeight(Rules(t, d)) = 39680 /\ SumMaximums(Rules(t, d)) = 0
    BY <2>4 DEF Unit
  <2>6. Cut(0, 39680) = {0}
    BY DEF Cut
  <2>. QED  BY <2>5, <2>6 DEF defuzzyfication, PWM_STEP
<1>. QED  BY <1>1, <1>2
=============================================================================
