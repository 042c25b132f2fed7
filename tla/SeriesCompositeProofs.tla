----------------------- MODULE SeriesCompositeProofs -----------------------
(* What SeriesComposite keeps for every data type, width of the counter,       *)
(* valid range and order of the tiles.                                         *)
EXTENDS SeriesComposite, TLAPS

\* Integer division of a natural number.
LEMMA Division ==
  ASSUME NEW n \in Nat, NEW b \in Nat \ {0}
  PROVE  /\ n \div b \in Nat
         /\ b * (n \div b) <= n
         /\ n < b * (n \div b) + b
<1>1. n \div b \in Int /\ b * (n \div b) <= n /\ n < b * (n \div b) + b
  BY Z3
<1>2. n \div b >= 0
  <2>1. SUFFICES ASSUME n \div b <= -1 PROVE FALSE
    BY <1>1
  <2>2. b * (n \div b) <= -b
    BY <1>1, <2>1
  <2> QED BY <1>1, <2>2
<1> QED BY <1>1, <1>2

\* Cutting off the fraction of a quotient loses less than the divisor.
LEMMA CutOff ==
  ASSUME NEW a \in Int, NEW b \in Nat \ {0}
  PROVE  /\ IntegerPart(a, b) \in Int
         /\ Abs(IntegerPart(a, b) * b - a) < b
<1> DEFINE q == Abs(a) \div b
           r == Abs(a) - b * q
<1>1. Abs(a) \in Nat /\ Abs(b) = b
  BY DEF Abs
<1>2. q \in Int /\ r \in Int /\ 0 <= r /\ r < b /\ Abs(a) = b * q + r
  BY <1>1, Division
<1>3. IntegerPart(a, b) = IF a >= 0 THEN q ELSE -q
  BY <1>1 DEF IntegerPart
<1> HIDE DEF q, r
<1>4. b * q = q * b
  BY <1>2
<1>5. CASE a >= 0
  <2>1. q * b - a = -r
    BY <1>2, <1>4, <1>5 DEF Abs
  <2> QED BY <2>1, <1>2, <1>3, <1>5 DEF Abs
<1>6. CASE ~(a >= 0)
  <2>1. (-q) * b = -(q * b)
    BY <1>2
  <2>2. (-q) * b - a = r
    BY <2>1, <1>2, <1>4, <1>6 DEF Abs
  <2> QED BY <2>2, <1>2, <1>3, <1>6 DEF Abs
<1> QED BY <1>5, <1>6

\* The integer part of a quotient that lies between two integers lies between
\* them too.
LEMMA BetweenCut ==
  ASSUME NEW a \in Int, NEW b \in Nat \ {0}, NEW lo \in Int, NEW hi \in Int,
         lo * b <= a, a <= hi * b
  PROVE  lo <= IntegerPart(a, b) /\ IntegerPart(a, b) <= hi
<1> DEFINE q == Abs(a) \div b
           r == Abs(a) - b * q
<1>1. Abs(a) \in Nat /\ Abs(b) = b
  BY DEF Abs
<1>2. q \in Nat /\ r \in Int /\ 0 <= r /\ r < b /\ Abs(a) = b * q + r
  BY <1>1, Division
<1>3. IntegerPart(a, b) = IF a >= 0 THEN q ELSE -q
  BY <1>1 DEF IntegerPart
<1> HIDE DEF q, r
<1>4. CASE a >= 0
  <2>1. a = b * q + r
    BY <1>2, <1>4 DEF Abs
  <2>2. lo <= q
    <3>1. SUFFICES ASSUME lo >= q + 1 PROVE FALSE
      BY <1>2
    <3>2. lo * b >= (q + 1) * b
      BY <3>1, <1>2
    <3>3. (q + 1) * b = b * q + b
      BY <1>2
    <3> QED BY <3>2, <3>3, <2>1, <1>2
  <2>3. q <= hi
    <3>1. SUFFICES ASSUME q >= hi + 1 PROVE FALSE
      BY <1>2
    <3>2. q * b >= (hi + 1) * b
      BY <3>1, <1>2
    <3>3. (hi + 1) * b = hi * b + b /\ q * b = b * q
      BY <1>2
    <3> QED BY <3>2, <3>3, <2>1, <1>2
  <2> QED BY <2>2, <2>3, <1>3, <1>4
<1>5. CASE ~(a >= 0)
  <2>1. -a = b * q + r
    BY <1>2, <1>5 DEF Abs
  <2>2. lo <= -q
    <3>1. SUFFICES ASSUME lo >= 1 - q PROVE FALSE
      BY <1>2
    <3>2. lo * b >= (1 - q) * b
      BY <3>1, <1>2
    <3>3. (1 - q) * b = b - b * q
      BY <1>2
    <3> QED BY <3>2, <3>3, <2>1, <1>2
  <2>3. -q <= hi
    <3>1. SUFFICES ASSUME -q >= hi + 1 PROVE FALSE
      BY <1>2
    <3>2. (-q) * b >= (hi + 1) * b
      BY <3>1, <1>2
    <3>3. (hi + 1) * b = hi * b + b /\ (-q) * b = -(b * q)
      BY <1>2
    <3> QED BY <3>2, <3>3, <2>1, <1>2
  <2> QED BY <2>2, <2>3, <1>3, <1>5
<1> QED BY <1>4, <1>5

-----------------------------------------------------------------------------
(* The invariant. *)

LEMMA InitIInv == Init => IInv
BY SeriesAssumption
   DEF Init, IInv, TypeOK, CounterInv, NothingSeen, ExtremeExact, MeanBounded,
       DriftBounded, Vals, Abs

\* The values a merge may leave are values of the data type.
LEMMA MergedType ==
  ASSUME TypeOK, NEW v \in Vals
  PROVE  Merged(v) \subseteq Vals
BY DEF TypeOK, Merged, RunningMean, Cast, Lesser, Greater

\* While the counter counts, a running mean of valid values is the integer part of
\* the weighted mean, which lies between the values and so in the data type.
LEMMA MeanStep ==
  ASSUME IInv, NEW v \in Vals, NEW t \in Merged(v),
         method \notin {-1, 1}, num \in 1..CntMax
  PROVE  /\ t = IntegerPart(target * num + v, num + 1)
         /\ \E a, b \in seen \cup {v} : a <= t /\ t <= b
<1>1. cnt = num /\ num \in Nat \ {0} /\ num <= CntMax /\ CntMax \in Nat
  BY SeriesAssumption DEF IInv, TypeOK, CounterInv
<1>2. t \in RunningMean(v)
  BY <1>1 DEF Merged
<1> DEFINE q == IntegerPart(target * num + v, num + 1)
<1>3. t \in Cast(q)
  BY <1>1, <1>2 DEF RunningMean
<1>4. Vals \subseteq Int /\ target \in Int /\ v \in Int /\ seen \subseteq Int
  BY SeriesAssumption DEF Vals, IInv, TypeOK
<1>5. PICK a \in seen, b \in seen : a <= target /\ target <= b
  BY <1>1 DEF IInv, MeanBounded
<1>6. PICK lo \in seen \cup {v}, hi \in seen \cup {v} :
        lo <= target /\ lo <= v /\ target <= hi /\ v <= hi
  <2>1. \E lo \in seen \cup {v} : lo <= target /\ lo <= v
    BY <1>4, <1>5
  <2>2. \E hi \in seen \cup {v} : target <= hi /\ v <= hi
    BY <1>4, <1>5
  <2> QED BY <2>1, <2>2
<1>7. lo \in Int /\ hi \in Int /\ lo \in Vals /\ hi \in Vals
  BY <1>4 DEF IInv, TypeOK
<1>8. lo * (num + 1) <= target * num + v /\ target * num + v <= hi * (num + 1)
  <2>1. lo * num <= target * num /\ target * num <= hi * num
    BY <1>1, <1>4, <1>6, <1>7
  <2>2. lo * (num + 1) = lo * num + lo /\ hi * (num + 1) = hi * num + hi
    BY <1>1, <1>7
  <2>3. lo * num \in Int /\ target * num \in Int /\ hi * num \in Int
    BY <1>1, <1>4, <1>7
  <2> QED BY <2>1, <2>2, <2>3, <1>4, <1>6, <1>7
<1>9. target * num + v \in Int /\ num + 1 \in Nat \ {0}
  BY <1>1, <1>4
<1>10. lo <= q /\ q <= hi /\ q \in Int
  BY <1>7, <1>8, <1>9, BetweenCut, CutOff
<1>11. q \in Vals
  BY <1>7, <1>10, SeriesAssumption DEF Vals
<1>12. t = q
  BY <1>3, <1>11 DEF Cast
<1> QED BY <1>6, <1>10, <1>12

\* One rounding adds less than the number of values to target * num - total.
LEMMA DriftStep ==
  ASSUME NEW n \in Nat \ {0}, NEW t \in Int, NEW s \in Int, NEW v \in Int,
         2 * Abs(t * n - s) <= n * (n - 1)
  PROVE  2 * Abs(IntegerPart(t * n + v, n + 1) * (n + 1) - (s + v)) <= (n + 1) * n
<1> DEFINE a == t * n + v
           q == IntegerPart(a, n + 1)
<1>1. a \in Int /\ n + 1 \in Nat \ {0}
  OBVIOUS
<1>2. q \in Int /\ Abs(q * (n + 1) - a) < n + 1
  BY <1>1, CutOff
<1>3. q * (n + 1) - (s + v) = (q * (n + 1) - a) + (t * n - s)
  BY <1>1, <1>2
<1>4. (n + 1) * n = n * (n - 1) + 2 * n
  OBVIOUS
<1> DEFINE x == q * (n + 1) - a
           y == t * n - s
<1>5. x \in Int /\ y \in Int /\ n * (n - 1) \in Int
  BY <1>1, <1>2
<1>6. x + y \in Int /\ Abs(x) <= n /\ 2 * Abs(y) <= n * (n - 1)
  BY <1>2, <1>5 DEF Abs
<1> HIDE DEF x, y, q, a
<1>7. Abs(x + y) <= Abs(x) + Abs(y) /\ Abs(x) \in Int /\ Abs(y) \in Int /\ Abs(x + y) \in Int
  BY <1>5 DEF Abs
<1>8. 2 * Abs(x + y) <= n * (n - 1) + 2 * n
  BY <1>5, <1>6, <1>7
<1> QED BY <1>3, <1>4, <1>8 DEF x, y, q, a

\* A valid value is merged.
LEMMA MergeStep ==
  ASSUME IInv, NEW v \in Vals, Valid(v), CombineData(v)
  PROVE  IInv'
<1>1. /\ target' \in Merged(v) /\ cnt' = ToShort(cnt + 1)
      /\ seen' = seen \cup {v} /\ num' = num + 1 /\ total' = total + v
      /\ tiles' = tiles + 1 /\ method' = method /\ range' = range
  BY DEF CombineData, args
<1>2. /\ CntMax \in Nat \ {0} /\ Vals \subseteq Int /\ v \in Int /\ TypeOK
      /\ num \in Nat /\ cnt \in (-CntMax - 1)..CntMax /\ target \in Int /\ total \in Int
      /\ seen \subseteq Int
  BY SeriesAssumption DEF IInv, TypeOK, Vals
<1>3. TypeOK'
  <2>1. target' \in Vals
    BY <1>1, <1>2, MergedType
  <2>2. cnt' \in (-CntMax - 1)..CntMax
    BY <1>1, <1>2 DEF ToShort
  <2> QED BY <1>1, <1>2, <2>1, <2>2 DEF TypeOK
<1>4. CounterInv'
  BY <1>1, <1>2 DEF IInv, CounterInv, ToShort
<1>5. NothingSeen'
  BY <1>1, <1>2 DEF NothingSeen
\* The first valid value, or the first after the counter has gone round.
<1>6. ASSUME num = 0
      PROVE  seen' = {v} /\ num' = 1 /\ total' = v /\ target' = v
  <2>1. cnt = 0 /\ seen = {} /\ total = 0
    BY <1>2, <1>6 DEF IInv, CounterInv, NothingSeen
  <2> QED BY <1>1, <1>2, <1>6, <2>1 DEF Merged
<1>7. ExtremeExact'
  <2>1. SUFFICES ASSUME method \in {-1, 1}, num + 1 \in 1..(2 * (CntMax + 1))
                 PROVE  /\ target' \in seen'
                        /\ \A w \in seen' : IF method = -1 THEN target' <= w ELSE w <= target'
    BY <1>1 DEF ExtremeExact
  <2>2. CASE num = 0
    BY <1>2, <1>6, <2>2
  <2>3. CASE num > 0
    <3>1. num \in 1..(2 * (CntMax + 1)) /\ cnt # 0
      BY <1>2, <2>1, <2>3 DEF IInv, CounterInv
    <3>2. target' = IF method = -1 THEN Lesser(target, v) ELSE Greater(target, v)
      BY <1>1, <2>1, <3>1 DEF Merged
    <3>3. target \in seen
      BY <2>1, <3>1 DEF IInv, ExtremeExact
    <3>4. \A w \in seen : IF method = -1 THEN target <= w ELSE w <= target
      BY <2>1, <3>1 DEF IInv, ExtremeExact
    <3>5. target' \in seen \cup {v}
      BY <3>2, <3>3 DEF Lesser, Greater
    <3>6. CASE method = -1
      <4>1. target' <= target /\ target' <= v /\ target' \in Int
        BY <1>2, <3>2, <3>6 DEF Lesser
      <4> QED BY <1>1, <1>2, <3>4, <3>5, <3>6, <4>1
    <3>7. CASE method # -1
      <4>1. target <= target' /\ v <= target' /\ target' \in Int
        BY <1>2, <3>2, <3>7 DEF Greater
      <4> QED BY <1>1, <1>2, <3>4, <3>5, <3>7, <4>1
    <3> QED BY <3>6, <3>7
  <2> QED BY <1>2, <2>2, <2>3
<1>8. MeanBounded'
  <2>1. SUFFICES ASSUME method \notin {-1, 1}, num + 1 \in 1..(CntMax + 1)
                 PROVE  \E a, b \in seen' : a <= target' /\ target' <= b
    BY <1>1 DEF MeanBounded
  <2>2. CASE num = 0
    BY <1>2, <1>6, <2>2
  <2>3. CASE num > 0
    <3>1. num \in 1..CntMax
      BY <1>2, <2>1, <2>3
    <3> QED BY <1>1, <2>1, <3>1, MeanStep
  <2> QED BY <1>2, <2>2, <2>3
<1>9. DriftBounded'
  <2>1. SUFFICES ASSUME method \notin {-1, 1}, num + 1 \in 1..(CntMax + 1)
                 PROVE  2 * Abs(target' * (num + 1) - (total + v)) <= (num + 1) * num
    BY <1>1, <1>2 DEF DriftBounded
  <2>2. CASE num = 0
    <3>1. target' * (num + 1) - (total + v) = 0
      BY <1>1, <1>2, <1>6, <2>2 DEF IInv, NothingSeen
    <3> QED BY <2>2, <3>1 DEF Abs
  <2>3. CASE num > 0
    <3>1. num \in 1..CntMax /\ num \in Nat \ {0} /\ num \in 1..(CntMax + 1)
      BY <1>2, <2>1, <2>3
    <3>2. target' = IntegerPart(target * num + v, num + 1)
      BY <1>1, <2>1, <3>1, MeanStep
    <3>3. 2 * Abs(target * num - total) <= num * (num - 1)
      BY <2>1, <3>1 DEF IInv, DriftBounded
    <3> QED BY <1>2, <3>1, <3>2, <3>3, DriftStep
  <2> QED BY <1>2, <2>2, <2>3
<1> QED BY <1>3, <1>4, <1>5, <1>7, <1>8, <1>9 DEF IInv

\* The first tile is assigned.
LEMMA AssignStep ==
  ASSUME IInv, NEW v \in Vals, AssignData(v)
  PROVE  IInv'
<1>1. CntMax \in Nat \ {0} /\ Vals \subseteq Int /\ TypeOK
  BY SeriesAssumption DEF IInv, Vals
<1>2. CASE Valid(v)
  <2>1. /\ target' = v /\ cnt' = 1 /\ seen' = {v} /\ num' = 1 /\ total' = v
        /\ tiles' = 1 /\ method' = method /\ range' = range
    BY <1>2 DEF AssignData, args
  <2>2. TypeOK' /\ CounterInv' /\ NothingSeen'
    BY <1>1, <2>1 DEF TypeOK, CounterInv, NothingSeen
  <2>3. ExtremeExact' /\ MeanBounded'
    BY <1>1, <2>1 DEF ExtremeExact, MeanBounded
  <2>4. DriftBounded'
    <3>1. target' * num' - total' = 0 /\ num' * (num' - 1) = 0
      BY <1>1, <2>1
    <3> QED BY <3>1 DEF DriftBounded, Abs
  <2> QED BY <2>2, <2>3, <2>4 DEF IInv
<1>3. CASE ~Valid(v)
  <2>1. /\ target' = v /\ cnt' = 0 /\ seen' = {} /\ num' = 0 /\ total' = 0
        /\ tiles' = 1 /\ method' = method /\ range' = range
    BY <1>3 DEF AssignData, args
  <2> QED BY <1>1, <2>1 DEF IInv, TypeOK, CounterInv, NothingSeen, ExtremeExact,
                            MeanBounded, DriftBounded
<1> QED BY <1>2, <1>3

\* A tile whose value is not valid, a call that fails, and a stuttering step.
LEMMA IdleStep ==
  ASSUME IInv, UNCHANGED <<args, target, cnt, hist>>, tiles' \in Nat
  PROVE  IInv'
BY DEF IInv, TypeOK, CounterInv, NothingSeen, ExtremeExact, MeanBounded,
       DriftBounded, args, hist

\* All of IInv holds in every reachable state.
THEOREM SeriesInvariant == Spec => []IInv
<1>1. IInv /\ [Next]_vars => IInv'
  <2> SUFFICES ASSUME IInv, [Next]_vars PROVE IInv'
    OBVIOUS
  <2>1. ASSUME NEW v \in Vals, AssignData(v) PROVE IInv'
    BY <2>1, AssignStep
  <2>2. ASSUME NEW v \in Vals, CombineData(v) PROVE IInv'
    <3>1. CASE Valid(v)
      BY <2>2, <3>1, MergeStep
    <3>2. CASE ~Valid(v)
      BY <2>2, <3>2, IdleStep DEF CombineData, IInv, TypeOK
    <3> QED BY <3>1, <3>2
  <2>3. CASE CallFails
    BY <2>3, IdleStep DEF CallFails, IInv, TypeOK
  <2>4. CASE UNCHANGED vars
    BY <2>4, IdleStep DEF vars, IInv, TypeOK
  <2> QED BY <2>1, <2>2, <2>3, <2>4 DEF Next
<1> QED BY <1>1, InitIInv, PTL DEF Spec

\* The pixel stays in its data type and the counter a short, whatever overflows.
THEOREM TypeCorrect == Spec => []TypeOK
<1>1. IInv => TypeOK
  BY DEF IInv
<1> QED BY <1>1, SeriesInvariant, PTL

\* Minimum and maximum do not depend on the order of the tiles.
THEOREM ExtremesAreExact == Spec => []ExtremeExact
<1>1. IInv => ExtremeExact
  BY DEF IInv
<1> QED BY <1>1, SeriesInvariant, PTL

\* A running average stays among its values.
THEOREM MeansAreBounded == Spec => []MeanBounded
<1>1. IInv => MeanBounded
  BY DEF IInv
<1> QED BY <1>1, SeriesInvariant, PTL

\* The roundings of a running average add up to at most half the number of values.
THEOREM DriftIsBounded == Spec => []DriftBounded
<1>1. IInv => DriftBounded
  BY DEF IInv
<1> QED BY <1>1, SeriesInvariant, PTL

=============================================================================
