--------------------------- MODULE SeriesComposite ---------------------------
(***************************************************************************)
(* The compositing of a time series of tiles by the Java side, which hands *)
(* the library jni_zonalstat/CppZonalStat.cpp one tile after another:      *)
(* assignDataBytes starts a result, combineDataBytes merges a tile into    *)
(* it.  Between the calls only the result tile and an array of shorts that *)
(* counts the valid values of each pixel are kept, so an average has to be *)
(* a running one, rounded to the type of the tile at every step.           *)
(*                                                                         *)
(* The module follows one pixel of a tile of integers Lo..Hi.              *)
(***************************************************************************)
EXTENDS Integers

CONSTANTS
  Lo, Hi,     \* the range of the tile's data type
  Methods,    \* combineDataBytes: -1 minimum, 1 maximum, all others average
  Ranges,     \* the valid ranges that may be asked for, [vmin, vmax]
  CntMax,     \* the largest short (32767)
  MaxTiles    \* how many tiles are combined (a bound, for TLC)

Vals == Lo..Hi

ASSUME SeriesAssumption ==
  /\ Lo \in Int /\ Hi \in Int /\ Lo <= 0 /\ 0 <= Hi
  /\ Methods \subseteq Int
  /\ Ranges \subseteq [vmin : Int, vmax : Int]
  /\ CntMax \in Nat \ {0}
  /\ MaxTiles \in Nat

VARIABLES
  method, range,   \* the arguments of the calls
  target,          \* targetdata[it]
  cnt,             \* validpxcntdata[it]
  tiles,           \* how many tiles have been handed in
  seen, num, total \* history: the valid values, how many, and their sum

args == <<method, range>>
hist == <<seen, num, total>>
vars == <<args, target, cnt, tiles, hist>>

Valid(v) == range.vmin <= v /\ v <= range.vmax

\* validpxcntdata[it] += 1, converted back to a short.
ToShort_Slip(c) == c
ToShort(c) == IF c > CntMax THEN c - 2 * (CntMax + 1) ELSE c

\* tsum / (cnt + 1) cast to the type: the fraction is cut off; what the type
\* cannot hold, and the infinity after a division by zero, become any value.
Abs(a) == IF a >= 0 THEN a ELSE -a
IntegerPart(a, b) ==
  IF (a >= 0) <=> (b > 0) THEN Abs(a) \div Abs(b) ELSE -(Abs(a) \div Abs(b))
Cast(q) == IF q \in Vals THEN {q} ELSE Vals

RunningMean_Slip(v) == Cast(IntegerPart(target + v, 2))
Divisor_Slip(v) == IF cnt = 0 THEN Vals ELSE Cast(IntegerPart(target * cnt + v, cnt))
RunningMean(v) ==
  IF cnt = -1 THEN Vals ELSE Cast(IntegerPart(target * cnt + v, cnt + 1))

Lesser(a, b)  == IF b < a THEN b ELSE a
Greater(a, b) == IF a < b THEN b ELSE a

Merged_Slip(v) ==
  CASE method = -1 -> {Lesser(target, v)}
    [] method = 1 -> {Greater(target, v)}
    [] OTHER -> RunningMean(v)

\* The values the pixel may have after a valid v is merged into it.
Merged(v) ==
  CASE cnt = 0 -> {v}
    [] cnt # 0 /\ method = -1 -> {Lesser(target, v)}
    [] cnt # 0 /\ method = 1 -> {Greater(target, v)}
    [] OTHER -> RunningMean(v)

\* The Java caller starts from a new result tile, zeroed.
Init ==
  /\ method \in Methods
  /\ range \in Ranges
  /\ target = 0
  /\ cnt = 0
  /\ tiles = 0
  /\ seen = {} /\ num = 0 /\ total = 0

AssignData(v) ==
  /\ tiles = 0
  /\ tiles' = 1
  /\ target' = v
  /\ IF Valid(v)
     THEN cnt' = 1 /\ seen' = {v} /\ num' = 1 /\ total' = v
     ELSE cnt' = 0 /\ seen' = {} /\ num' = 0 /\ total' = 0
  /\ UNCHANGED args

CombineData(v) ==
  /\ tiles < MaxTiles
  /\ tiles' = tiles + 1
  /\ IF Valid(v)
     THEN /\ target' \in Merged(v)
          /\ cnt' = ToShort(cnt + 1)
          /\ seen' = seen \cup {v}
          /\ num' = num + 1
          /\ total' = total + v
     ELSE UNCHANGED <<target, cnt, hist>>
  /\ UNCHANGED args

\* A call that cannot get at one of its arrays returns early; the tile is skipped
\* and nothing tells the caller.
CallFails ==
  /\ tiles < MaxTiles
  /\ tiles' = tiles + 1
  /\ UNCHANGED <<args, target, cnt, hist>>

Next == (\E v \in Vals : AssignData(v) \/ CombineData(v)) \/ CallFails

Spec == Init /\ [][Next]_vars

-----------------------------------------------------------------------------

\* Every variable stays in its domain: the pixel in its type, the counter a short.
TypeOK ==
  /\ method \in Methods
  /\ range \in Ranges
  /\ target \in Vals
  /\ cnt \in (-CntMax - 1)..CntMax
  /\ tiles \in Nat
  /\ seen \subseteq Vals
  /\ num \in Nat
  /\ total \in Int

\* A minimum or maximum is that of the valid values of all the tiles handed in,
\* in whatever order they came, up to the 2^16 valid values after which the
\* counter is back at 0 and the pixel passes for empty (CppZonalStat.cpp:257-271).
ExtremeExact ==
  method \in {-1, 1} /\ num \in 1..(2 * (CntMax + 1)) =>
    /\ target \in seen
    /\ \A v \in seen : IF method = -1 THEN target <= v ELSE v <= target

\* An average never leaves the range of the values it is made of, although it is
\* rounded at every step, as long as the short can count them.
MeanBounded ==
  method \notin {-1, 1} /\ num \in 1..(CntMax + 1) =>
    \E a, b \in seen : a <= target /\ target <= b

\* The roundings of the running average add up, but to no more than half the
\* number of values: target * num is within num * (num - 1) / 2 of their sum.
DriftBounded ==
  method \notin {-1, 1} /\ num \in 1..(CntMax + 1) =>
    2 * Abs(target * num - total) <= num * (num - 1)

-----------------------------------------------------------------------------
(* The strengthening of these properties that every step preserves. *)

\* The counter goes through the shorts once, from 0 up, around, and back to 0.
CounterInv ==
  num <= 2 * (CntMax + 1) =>
    cnt = IF num <= CntMax THEN num ELSE num - 2 * (CntMax + 1)

NothingSeen == num = 0 => seen = {} /\ total = 0

IInv == TypeOK /\ CounterInv /\ NothingSeen /\ ExtremeExact /\ MeanBounded /\ DriftBounded

=============================================================================
