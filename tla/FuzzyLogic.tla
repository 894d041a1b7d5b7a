----------------------------- MODULE FuzzyLogic -----------------------------
(***************************************************************************)
(* The fuzzy controller of the regulator as pure operators: memberships of *)
(* a temperature and of its change, 14 rules, and the duty cycle as the    *)
(* weighted mean of the output points of the rules.                        *)
(*                                                                         *)
(* A membership between 0.0 and 1.0 is a number between 0 and Unit.  Unit  *)
(* is a multiple of the width of every slope in appconf.h, so that the     *)
(* memberships are exact.  The code computes with floats of 24 bits, whose *)
(* rounding can be seen only where the mean is cut to whole percents.      *)
(***************************************************************************)
EXTENDS Integers, Sums

Unit == 39680

\* What a membership function returns for wrong values, 2.0 in the code.
WrongValue == 2 * Unit

\* n/width, for a width that divides Unit.
Fraction(n, width) == n * (Unit \div width)

Triangle(mf, x) ==
  IF x < mf.rangefrom \/ x > mf.rangeto THEN 0
  ELSE IF x <= mf.maxfrom
       THEN Fraction(x - mf.rangefrom, mf.maxfrom - mf.rangefrom)
       ELSE Fraction(mf.rangeto - x, mf.rangeto - mf.maxfrom)

Falling(mf, x) ==
  IF x < mf.rangefrom THEN Unit
  ELSE IF x > mf.rangeto THEN 0
  ELSE Fraction(mf.rangeto - x, mf.rangeto - mf.rangefrom)

Rising(mf, x) ==
  IF x < mf.rangefrom THEN 0
  ELSE IF x > mf.rangeto THEN Unit
  ELSE Fraction(x - mf.rangefrom, mf.rangeto - mf.rangefrom)

\* A half trapeze falls if it begins with its maximum, and rises if it ends
\* with it.
HalfTrapeze(mf, x) ==
  IF mf.rangefrom = mf.maxfrom THEN Falling(mf, x)
  ELSE IF mf.rangeto = mf.maxfrom THEN Rising(mf, x)
  ELSE WrongValue

Trapeze(mf, x) ==
  IF x < mf.rangefrom \/ x > mf.rangeto THEN 0
  ELSE IF x < mf.maxfrom
       THEN Fraction(x - mf.rangefrom, mf.maxfrom - mf.rangefrom)
  ELSE IF x <= mf.maxto THEN Unit
  ELSE Fraction(mf.rangeto - x, mf.rangeto - mf.maxto)

Mf(from, to, max, end) ==
  [rangefrom |-> from, rangeto |-> to, maxfrom |-> max, maxto |-> end]

\* The memberships of a temperature, in units of 1/128 degree.
Melting(t) == HalfTrapeze(Mf(8320, 9600, 8320, 8320), t)
Cold(t)    == Triangle(Mf(8320, 10880, 9600, 9600), t)
Medium(t)  == Triangle(Mf(9600, 14848, 10880, 10880), t)
Hot(t)     == HalfTrapeze(Mf(10880, 14848, 14848, 14848), t)
Sterile(t) == Trapeze(Mf(14592, 14848, 14592, 14848), t)

\* The memberships of the change of the temperature since the last sample.
Neg(d)  == HalfTrapeze(Mf(-1, 0, -1, -1), d)
Zero(d) == Triangle(Mf(-1, 2, 0, 0), d)
Spos(d) == Triangle(Mf(0, 4, 2, 2), d)
Pos(d)  == Triangle(Mf(2, 6, 4, 4), d)
Vpos(d) == HalfTrapeze(Mf(4, 6, 6, 6), d)

Both(a, b) == IF a < b THEN a ELSE b

\* Mutant: the last rule for a cold temperature is that of "pos" again.
RulesWithoutColdVpos(t, d) == <<
  <<Melting(t),                100>>,
  <<Both(Cold(t), Neg(d)),     100>>, <<Both(Cold(t), Zero(d)),   100>>,
  <<Both(Cold(t), Spos(d)),    75>>,  <<Both(Cold(t), Pos(d)),    50>>,
  <<Both(Cold(t), Pos(d)),     25>>,
  <<Both(Medium(t), Neg(d)),   100>>, <<Both(Medium(t), Zero(d)), 75>>,
  <<Both(Medium(t), Spos(d)),  50>>,  <<Both(Medium(t), Pos(d)),  25>>,
  <<Both(Medium(t), Vpos(d)),  0>>,
  <<Hot(t),                    0>>,
  <<Both(Sterile(t), Neg(d)),  75>>,  <<Both(Sterile(t), Zero(d)), 25>> >>

\* Mutant: cold wax whose temperature does not change is heated half.
RulesWithWeakCold(t, d) == <<
  <<Melting(t),                100>>,
  <<Both(Cold(t), Neg(d)),     100>>, <<Both(Cold(t), Zero(d)),   50>>,
  <<Both(Cold(t), Spos(d)),    75>>,  <<Both(Cold(t), Pos(d)),    50>>,
  <<Both(Cold(t), Vpos(d)),    25>>,
  <<Both(Medium(t), Neg(d)),   100>>, <<Both(Medium(t), Zero(d)), 75>>,
  <<Both(Medium(t), Spos(d)),  50>>,  <<Both(Medium(t), Pos(d)),  25>>,
  <<Both(Medium(t), Vpos(d)),  0>>,
  <<Hot(t),                    0>>,
  <<Both(Sterile(t), Neg(d)),  75>>,  <<Both(Sterile(t), Zero(d)), 25>> >>

\* The rules: how far the condition of each holds of a temperature and its
\* change, and the output it asks for, in percent.
Rules(t, d) == <<
  <<Melting(t),                100>>,
  <<Both(Cold(t), Neg(d)),     100>>, <<Both(Cold(t), Zero(d)),   100>>,
  <<Both(Cold(t), Spos(d)),    75>>,  <<Both(Cold(t), Pos(d)),    50>>,
  <<Both(Cold(t), Vpos(d)),    25>>,
  <<Both(Medium(t), Neg(d)),   100>>, <<Both(Medium(t), Zero(d)), 75>>,
  <<Both(Medium(t), Spos(d)),  50>>,  <<Both(Medium(t), Pos(d)),  25>>,
  <<Both(Medium(t), Vpos(d)),  0>>,
  <<Hot(t),                    0>>,
  <<Both(Sterile(t), Neg(d)),  75>>,  <<Both(Sterile(t), Zero(d)), 25>> >>

\* A membership function with wrong values is an error of evaluation_rules.
RuleError(t, d) ==
  WrongValue \in {Melting(t), Cold(t), Medium(t), Hot(t), Sterile(t),
                  Neg(d), Zero(d), Spos(d), Pos(d), Vpos(d)}

FUZZY_RULES_NUM == 14

SumWeight(rules) ==
  Sum([r \in 1 .. FUZZY_RULES_NUM |-> rules[r][1]], FUZZY_RULES_NUM)

SumMaximums(rules) ==
  Sum([r \in 1 .. FUZZY_RULES_NUM |-> rules[r][1] * rules[r][2]],
      FUZZY_RULES_NUM)

PWM_STEP == 100

\* m/w cut to whole percents.  The floats may come out above or below the
\* mean, by less than a thousandth of a percent: some 30 roundings, each of
\* at most 2^(-24) of a value, and none of a difference.  So a mean that near
\* to a whole percent may be cut to the percent on the other side.
Cut(m, w) ==
  LET q == m \div w
      r == m % w
  IN  {q} \cup (IF q > 0 /\ 1000 * r <= w THEN {q - 1} ELSE {})
          \cup (IF 1000 * (w - r) <= w THEN {q + 1} ELSE {})

\* The duty cycles that may come out.
defuzzyfication(t, d) ==
  {percent * PWM_STEP :
     percent \in Cut(SumMaximums(Rules(t, d)), SumWeight(Rules(t, d)))}
=============================================================================
