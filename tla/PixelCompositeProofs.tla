------------------------ MODULE PixelCompositeProofs ------------------------
(* What PixelComposite keeps for all types of integers, arguments of the call, *)
(* numbers of tiles and orders of the tiles.                                   *)
EXTENDS PixelComposite, TLAPS

\* A conversion to the output type gives a value of it, and changes none.
LEMMA ToOutType ==
  ASSUME NEW v \in Int
  PROVE  ToOut(v) \in OutVals /\ (v \in OutVals => ToOut(v) = v)
<1> DEFINE w == OutHi - OutLo + 1
           x == v - OutLo
<1>1. w \in Nat \ {0} /\ x \in Int /\ OutLo \in Int /\ OutHi \in Int
  BY CompositeAssumption
<1>2. ToOut(v) = OutLo + (x % w)
  BY DEF ToOut
<1>3. v \in OutVals => x \in Nat /\ x < w
  BY <1>1 DEF OutVals
<1> HIDE DEF x
<1>4. w = OutHi - OutLo + 1
  OBVIOUS
<1> HIDE DEF w
<1>5. x % w \in 0..(w - 1)
  BY <1>1
<1>6. x \in Nat /\ x < w => x % w = x
  BY <1>1
<1>7. ToOut(v) \in OutVals
  BY <1>1, <1>2, <1>4, <1>5 DEF OutVals
<1>8. v \in OutVals => ToOut(v) = v
  BY <1>1, <1>2, <1>3, <1>6 DEF x
<1> QED BY <1>7, <1>8

\* The arguments and the constants are numbers.
LEMMA Numbers ==
  ASSUME TypeOK
  PROVE  /\ call.fillval \in Int /\ call.validmin \in Int /\ call.validmax \in Int
         /\ InVals \subseteq Int /\ OutVals \subseteq Int /\ CntMax \in Nat \ {0}
         /\ 0 \in OutVals
BY CompositeAssumption DEF TypeOK, OutVals

LEMMA InitIInv == Init => IInv
<1> SUFFICES ASSUME Init PROVE IInv
  OBVIOUS
<1>1. TypeOK
  BY CompositeAssumption DEF Init, TypeOK, OutVals
<1> QED BY <1>1, Numbers DEF Init, IInv, CountInv, SumPending, FillLeftOut, ExtremeExact, SumExact

\* No tiles, or the loop begins.
LEMMA StartStep ==
  ASSUME IInv, Empty \/ Prepare
  PROVE  IInv'
<1>1. /\ pc = "start" /\ num = 0 /\ seen = {} /\ TypeOK
      /\ UNCHANGED <<args, sum, cnt, hist>>
  BY DEF IInv, CountInv, Empty, Prepare
<1>2. /\ call' = call /\ left' = left /\ sum' = sum /\ cnt' = cnt
      /\ seen' = {} /\ num' = 0 /\ total' = total /\ Method' = Method /\ Fits' = Fits
  BY <1>1 DEF args, hist, Method, Fits, OutVals
<1>3. CASE Empty
  <2>1. pc' = "empty" /\ out' = out
    BY <1>3 DEF Empty
  <2> QED BY <1>1, <1>2, <2>1, Numbers
       DEF IInv, TypeOK, CountInv, SumPending, FillLeftOut, ExtremeExact, SumExact
<1>4. CASE Prepare
  <2>1. pc' = "loop" /\ out' \in OutVals /\ (Fits => out' = call.fillval)
    BY <1>1, <1>4, Numbers DEF Prepare, FromDouble, Fits
  <2> QED BY <1>1, <1>2, <2>1, Numbers
       DEF IInv, TypeOK, CountInv, SumPending, FillLeftOut, ExtremeExact, SumExact
<1> QED BY <1>3, <1>4

\* A tile whose value takes part.
LEMMA TakeStep ==
  ASSUME IInv, NEW v \in InVals, Tile(v), Takes(v)
  PROVE  IInv'
<1>1. /\ pc = "loop" /\ pc' = "loop" /\ left > 0 /\ left' = left - 1 /\ call' = call
      /\ seen' = seen \cup {v} /\ num' = num + 1 /\ total' = total + v
      /\ v # call.fillval
  BY DEF Tile, Takes
<1>2. TypeOK /\ Method' = Method /\ Fits' = Fits /\ v \in Int /\ num \in Nat
  BY <1>1, Numbers DEF IInv, TypeOK, Method, Fits, OutVals
<1>3. CASE Method \in {"min", "max"}
  <2>1. out' = Best(v) /\ sum' = sum /\ cnt' = cnt
    BY <1>3, <1>2 DEF Tile
  <2>2. out' \in OutVals
    BY <2>1, <1>2, ToOutType, Numbers DEF Best, Lesser, Greater, TypeOK
  <2>3. TypeOK'
    BY <1>1, <1>2, <2>1, <2>2, CompositeAssumption DEF TypeOK
  <2>4. CountInv'
    BY <1>1, <1>2, <1>3, <2>1, CompositeAssumption DEF IInv, CountInv, TypeOK
  <2>5. ASSUME Fits
        PROVE  IF Method = "min" THEN IsLeast(out)' ELSE IsGreatest(out)'
    <3>1. v \in OutVals /\ ToOut(v) = v /\ seen \subseteq Int /\ out \in Int
      BY <2>5, <1>2, ToOutType, Numbers DEF Fits, TypeOK
    <3>2. CASE seen = {}
      <4>1. out' = v
        BY <1>1, <1>3, <2>1, <2>5, <3>1, <3>2 DEF IInv, ExtremeExact, Best
      <4> QED BY <1>1, <1>2, <3>2, <4>1 DEF IsLeast, IsGreatest
    <3>3. CASE seen # {} /\ Method = "min"
      <4>1. IsLeast(out)
        BY <1>1, <2>5, <3>3 DEF IInv, ExtremeExact
      <4>2. out' = v \/ out' = Lesser(out, v)
        BY <2>1, <3>1, <3>3 DEF Best
      <4>3. out' = Lesser(out, v) => IsLeast(out)'
        BY <1>1, <1>2, <3>1, <4>1 DEF IsLeast, Lesser
      <4>4. out # call.fillval
        BY <4>1 DEF IsLeast, IInv, FillLeftOut
      <4>5. out' = Lesser(out, v)
        BY <2>1, <3>1, <3>3, <4>4 DEF Best
      <4> QED BY <3>3, <4>3, <4>5
    <3>4. CASE seen # {} /\ Method = "max"
      <4>1. IsGreatest(out)
        BY <1>1, <2>5, <3>4 DEF IInv, ExtremeExact
      <4>4. out # call.fillval
        BY <4>1 DEF IsGreatest, IInv, FillLeftOut
      <4>5. out' = Greater(out, v)
        BY <2>1, <3>1, <3>4, <4>4 DEF Best
      <4> QED BY <1>1, <1>2, <3>1, <3>4, <4>1, <4>5 DEF IsGreatest, Greater
    <3> QED BY <1>3, <3>2, <3>3, <3>4
  <2> QED BY <1>1, <1>2, <1>3, <2>3, <2>4, <2>5
       DEF IInv, SumPending, FillLeftOut, ExtremeExact, SumExact
<1>4. CASE Method \notin {"min", "max"}
  <2>1. out' = out /\ sum' = (IF cnt = 0 THEN v ELSE sum + v) /\ cnt' = ToShort(cnt + 1)
    BY <1>4, <1>2 DEF Tile, Accumulate
  <2>2. cnt' \in (-CntMax - 1)..CntMax
    BY <1>2, <2>1, Numbers DEF TypeOK, ToShort
  <2>3. TypeOK'
    BY <1>1, <1>2, <2>1, <2>2, CompositeAssumption DEF TypeOK
  <2>4. Method \in {"ave", "sum"}
    BY <1>4 DEF Method, CMethod
  <2>5. CountInv'
    <3>1. ASSUME num + 1 <= CntMax
          PROVE  cnt' = num + 1 /\ sum' = total + v
      <4>1. cnt = num /\ num <= CntMax
        BY <1>2, <2>4, <3>1, Numbers DEF IInv, CountInv
      <4>2. cnt' = num + 1
        BY <1>2, <2>1, <3>1, <4>1, Numbers DEF ToShort
      <4>3. sum' = total + v
        BY <1>2, <2>1, <2>4, <4>1 DEF IInv, CountInv, TypeOK
      <4> QED BY <4>2, <4>3
    <3> QED BY <1>1, <1>2, <3>1, Numbers DEF IInv, CountInv
  <2> QED BY <1>1, <1>2, <2>1, <2>3, <2>4, <2>5
       DEF IInv, SumPending, ExtremeExact, SumExact, FillLeftOut
<1> QED BY <1>3, <1>4

\* A tile whose value does not take part, and a stuttering step.
LEMMA IdleStep ==
  ASSUME IInv, UNCHANGED <<call, pc, out, sum, cnt, hist>>, left' \in 0..MaxInputs
  PROVE  IInv'
<1>1. Method' = Method /\ Fits' = Fits
  BY DEF Method, Fits, OutVals
<1> QED BY <1>1 DEF IInv, TypeOK, CountInv, SumPending, FillLeftOut, ExtremeExact,
                    SumExact, hist, IsLeast, IsGreatest

\* The end of the loop.
LEMMA FinishStep ==
  ASSUME IInv, Finish
  PROVE  IInv'
<1>1. /\ pc = "loop" /\ pc' = "done" /\ TypeOK
      /\ call' = call /\ left' = left /\ sum' = sum /\ cnt' = cnt
      /\ seen' = seen /\ num' = num /\ total' = total
      /\ Method' = Method /\ Fits' = Fits
  BY DEF Finish, IInv, args, hist, Method, Fits, OutVals
<1>2. CASE Method \in {"ave", "sum"} /\ cnt > 0
  <2>1. out' \in FromDouble(Result)
    BY <1>2 DEF Finish
  <2>2. TypeOK'
    BY <1>1, <2>1 DEF TypeOK, FromDouble
  <2>3. SumExact'
    <3>1. SUFFICES ASSUME num <= CntMax
                   PROVE  /\ num # 0
                          /\ Result = IF Method = "ave" THEN Quotient(total, num) ELSE total
      BY <1>1, <2>1 DEF SumExact, FromDouble, OutVals
    <3>2. cnt = num /\ num > 0
      BY <1>2, <3>1 DEF IInv, CountInv
    <3>3. sum = total
      BY <1>1, <1>2, <3>1, <3>2, Numbers DEF IInv, CountInv, TypeOK
    <3> QED BY <1>1, <3>2, <3>3 DEF Result, TypeOK
  <2> QED BY <1>1, <1>2, <2>2, <2>3 DEF IInv, CountInv, SumPending, FillLeftOut, ExtremeExact
<1>3. CASE ~(Method \in {"ave", "sum"} /\ cnt > 0)
  <2>1. out' = out
    BY <1>3 DEF Finish
  <2>2. ExtremeExact'
    BY <1>1, <2>1 DEF IInv, ExtremeExact, IsLeast, IsGreatest
  <2>3. SumExact'
    <3>1. SUFFICES ASSUME Fits, Method \in {"ave", "sum"}, num <= CntMax
                   PROVE  num = 0 /\ out \in FromDouble(call.fillval)
      BY <1>1, <2>1 DEF SumExact, FromDouble, OutVals
    <3>2. num = 0
      BY <1>1, <1>3, <3>1 DEF IInv, CountInv, TypeOK
    <3>3. out = call.fillval
      BY <1>1, <3>1 DEF IInv, SumPending
    <3> QED BY <1>1, <3>2, <3>3 DEF FromDouble, TypeOK
  <2>4. TypeOK'
    BY <1>1, <2>1 DEF TypeOK
  <2> QED BY <1>1, <2>2, <2>3, <2>4 DEF IInv, CountInv, SumPending, FillLeftOut
<1> QED BY <1>2, <1>3

\* All of IInv holds in every reachable state.
THEOREM CompositeInvariant == Spec => []IInv
<1>1. IInv /\ [Next]_vars => IInv'
  <2> SUFFICES ASSUME IInv, [Next]_vars PROVE IInv'
    OBVIOUS
  <2>1. CASE Empty \/ Prepare
    BY <2>1, StartStep
  <2>2. ASSUME NEW v \in InVals, Tile(v) PROVE IInv'
    <3>1. CASE Takes(v)
      BY <2>2, <3>1, TakeStep
    <3>2. CASE ~Takes(v)
      <4>1. left \in 0..MaxInputs /\ left > 0 /\ left' = left - 1 /\ MaxInputs \in Nat
        BY <2>2, CompositeAssumption DEF Tile, IInv, TypeOK
      <4> QED BY <2>2, <3>2, <4>1, IdleStep DEF Tile, hist
    <3> QED BY <3>1, <3>2
  <2>3. CASE Finish
    BY <2>3, FinishStep
  <2>4. CASE UNCHANGED vars
    BY <2>4, IdleStep DEF vars, args, IInv, TypeOK
  <2> QED BY <2>1, <2>2, <2>3, <2>4 DEF Next
<1> QED BY <1>1, InitIInv, PTL DEF Spec

\* The output stays a value of its type and the counter a short.
THEOREM TypeCorrect == Spec => []TypeOK
<1>1. IInv => TypeOK
  BY DEF IInv
<1> QED BY <1>1, CompositeInvariant, PTL

\* A minimum or maximum composite is exact whatever the order of the tiles.
THEOREM ExtremesAreExact == Spec => []ExtremeExact
<1>1. IInv => ExtremeExact
  BY DEF IInv
<1> QED BY <1>1, CompositeInvariant, PTL

\* A sum or average is made of all the values that took part.
THEOREM SumsAreExact == Spec => []SumExact
<1>1. IInv => SumExact
  BY DEF IInv
<1> QED BY <1>1, CompositeInvariant, PTL

=============================================================================
