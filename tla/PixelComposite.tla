--------------------------- MODULE PixelComposite ---------------------------
(***************************************************************************)
(* The compositing of the tiles of a DatasetCollection into one Dataset,   *)
(* TemplateMethods_Composite of src/pe_tilecompute/template_methods.h, as  *)
(* pe.CompositeDsCollection(s) and dscollection.compose call it.           *)
(*                                                                         *)
(* The loops treat every pixel alike and apart from the others, so the     *)
(* module follows one pixel: its value in each tile of the collection, in  *)
(* the order of the array, and its value in the output buffer.  Values are *)
(* integers; the output type holds OutLo..OutHi.  An integer converted to  *)
(* it wraps around; a double it cannot hold may become any of its values   *)
(* (undefined in C++).                                                     *)
(***************************************************************************)
EXTENDS Integers

CONSTANTS
  InVals,     \* the values of the input type T
  OutLo,      \* the smallest and
  OutHi,      \*   the largest value of the output type U
  Calls,      \* the arguments of the call
  CntMax,     \* the largest value of the counter, a short (32767)
  MaxInputs   \* how many tiles a collection may have (a bound, for TLC)

\* pe.CompositeMethodMax, Ave, Sum are 2, 3, 4; every other number means Min.
CMethod(method) ==
  CASE method = 2 -> "max" [] method = 3 -> "ave" [] method = 4 -> "sum" [] OTHER -> "min"

ASSUME CompositeAssumption ==
  /\ InVals \subseteq Int
  /\ OutLo \in Int /\ OutHi \in Int /\ OutLo <= 0 /\ 0 <= OutHi
  /\ Calls \subseteq [method : Int, validmin : Int, validmax : Int, fillval : Int]
  /\ CntMax \in Nat \ {0}
  /\ MaxInputs \in Nat

VARIABLES
  call,   \* the arguments
  left,   \* how many tiles are still to come
  pc,
  out,    \* outDataPtr[it]
  sum,    \* sumdata[it], a double
  cnt,    \* cntdata[it], a short
  seen,   \* history: the values that took part,
  num,    \*   how many there were
  total   \*   and what they add up to

args == <<call, left>>
hist == <<seen, num, total>>
vars == <<args, pc, out, sum, cnt, hist>>

OutVals == OutLo..OutHi
Method == CMethod(call.method)

\* Conversion to U of a T and of a double, to a short, and the integer part of a
\* quotient.
ToOut(v) == OutLo + ((v - OutLo) % (OutHi - OutLo + 1))
FromDouble(v) == IF v \in OutVals THEN {v} ELSE OutVals
ToShort_Slip(c) == c
ToShort(c) == IF c > CntMax THEN -CntMax - 1 ELSE c
Quotient(a, b) == IF a >= 0 THEN a \div b ELSE -((-a) \div b)

Takes(v) == v # call.fillval /\ v >= call.validmin /\ v <= call.validmax

Lesser(a, b)  == IF b < a THEN b ELSE a
Greater(a, b) == IF a < b THEN b ELSE a

Init ==
  /\ call \in Calls
  /\ left \in 0..MaxInputs
  /\ pc = "start"
  /\ out = 0
  /\ sum = call.fillval
  /\ cnt = 0
  /\ seen = {} /\ num = 0 /\ total = 0

\* Nothing to composite: the output keeps the zeros it was allocated with.
Empty ==
  /\ pc = "start"
  /\ left = 0
  /\ pc' = "empty"
  /\ UNCHANGED <<args, out, sum, cnt, hist>>

Prepare ==
  /\ pc = "start"
  /\ left > 0
  /\ out' \in FromDouble(call.fillval)
  /\ pc' = "loop"
  /\ UNCHANGED <<args, sum, cnt, hist>>

\* TemplateMethods_CompositeMin and ...Max: an output that equals fillval counts
\* as not yet written.
Best_Slip(v) == IF Method = "min" THEN Lesser(out, ToOut(v)) ELSE Greater(out, ToOut(v))
Best(v) ==
  IF out = call.fillval THEN ToOut(v)
  ELSE IF Method = "min" THEN Lesser(out, ToOut(v))
  ELSE Greater(out, ToOut(v))

\* TemplateMethods_CompositeSum.
Accumulate(v) ==
  /\ sum' = IF cnt = 0 THEN v ELSE sum + v
  /\ cnt' = ToShort(cnt + 1)

Tile(v) ==
  /\ pc = "loop"
  /\ left > 0
  /\ left' = left - 1
  /\ IF Takes(v)
     THEN /\ IF Method \in {"min", "max"}
             THEN out' = Best(v) /\ UNCHANGED <<sum, cnt>>
             ELSE Accumulate(v) /\ UNCHANGED out
          /\ seen' = seen \cup {v}
          /\ num' = num + 1
          /\ total' = total + v
     ELSE UNCHANGED <<out, sum, cnt, hist>>
  /\ UNCHANGED <<call, pc>>

\* CM_AVE and CM_SUM write their result only where something was counted.
Result_Slip == Quotient(sum, cnt + 1)
Result == IF Method = "ave" THEN Quotient(sum, cnt) ELSE sum

Finish ==
  /\ pc = "loop"
  /\ left = 0
  /\ IF Method \in {"ave", "sum"} /\ cnt > 0
     THEN out' \in FromDouble(Result)
     ELSE UNCHANGED out
  /\ pc' = "done"
  /\ UNCHANGED <<args, sum, cnt, hist>>

Next == Empty \/ Prepare \/ (\E v \in InVals : Tile(v)) \/ Finish

Spec == Init /\ [][Next]_vars

-----------------------------------------------------------------------------

\* Every variable stays in its domain; in particular the counter stays a short and
\* the output a value of its type.
TypeOK ==
  /\ call \in Calls
  /\ left \in 0..MaxInputs
  /\ pc \in {"start", "loop", "done", "empty"}
  /\ out \in OutVals
  /\ sum \in Int
  /\ cnt \in (-CntMax - 1)..CntMax
  /\ seen \subseteq InVals
  /\ num \in Nat
  /\ total \in Int

\* The conversions of this call change no value.
Fits == call.fillval \in OutVals /\ InVals \subseteq OutVals

IsLeast(m)    == m \in seen /\ \A v \in seen : m <= v
IsGreatest(m) == m \in seen /\ \A v \in seen : v <= m

\* A minimum or maximum composite is exact at every moment of the loop, whatever
\* the order of the tiles: the extreme of the values that took part, the fill
\* value when there were none (template_methods.h:22-53).  An output that equals
\* fillval is the mark of an empty pixel, so this needs a fillval that the output
\* type can hold.
ExtremeExact ==
  Fits /\ pc \in {"loop", "done"} /\ Method \in {"min", "max"} =>
    IF seen = {} THEN out = call.fillval
    ELSE IF Method = "min" THEN IsLeast(out) ELSE IsGreatest(out)

\* A sum or average is computed from all the values that took part, in whatever
\* order, and converted once, as long as the short can count them; a pixel nothing
\* took part in keeps the fill value (template_methods.h:56-74, 86-122).
SumExact ==
  Fits /\ pc = "done" /\ Method \in {"ave", "sum"} /\ num <= CntMax =>
    out \in FromDouble(IF num = 0 THEN call.fillval
                       ELSE IF Method = "ave" THEN Quotient(total, num) ELSE total)

\* PixelEngine.h:935 "first whether the input is filldata, if it is not whether it
\* is in [vminInc,vmaxInc]; if so it takes part": nothing but these inputs makes
\* the minimum, for every output type that holds them.
OnlyValidTakesPart ==
  pc = "done" /\ seen # {} /\ Method = "min" /\ InVals \subseteq OutVals =>
    IsLeast(out)

-----------------------------------------------------------------------------
(* The strengthening of these properties that every step preserves. *)

\* What took part is what was counted, as long as the short can count it.
CountInv ==
  /\ num = 0 <=> seen = {}
  /\ num = 0 => total = 0
  /\ pc = "start" => num = 0
  /\ (Method \in {"ave", "sum"} \/ num = 0) /\ num <= CntMax => cnt = num
  /\ Method \in {"ave", "sum"} /\ num \in 1..CntMax => sum = total

\* Until the loop has ended an average or sum is only in sum and cnt.
SumPending == Fits /\ pc = "loop" /\ Method \in {"ave", "sum"} => out = call.fillval

\* The mark of an empty pixel is never taken for a value.
FillLeftOut == call.fillval \notin seen

IInv == TypeOK /\ CountInv /\ SumPending /\ FillLeftOut /\ ExtremeExact /\ SumExact

=============================================================================
