-------------------------- MODULE TileFinishProofs --------------------------
(***************************************************************************)
(* Proofs about StyleRender, for tables of any length, tiles of any size   *)
(* and values of any type, and about TileFinish, which renders what has    *)
(* been clipped.  StyleIInv is preserved by each action; what pictures     *)
(* show follows from it.                                                   *)
(***************************************************************************)
EXTENDS TileFinish, RoiClipProofs

-----------------------------------------------------------------------------
(* Numbers.                                                                *)

LEMMA StyleSizes ==
  Area \in Nat /\ Area > 0 /\ Unit \in Nat /\ Unit > 0 /\ MaxColors \in Nat /\ MaxColors > 0
BY StyleAssumption

\* A quotient is a whole number, with whatever signs.
LEMMA QuotientInt ==
  ASSUME NEW a \in Int, NEW b \in Int, b # 0
  PROVE  Quotient(a, b) \in Int
<1> DEFINE n == IF b < 0 THEN -a ELSE a
           d == IF b < 0 THEN -b ELSE b
<1>1. n \in Int /\ d \in Nat \ {0}
  OBVIOUS
<1>2. n >= 0 => n \div d \in Nat
  BY <1>1, CellBracket
<1>3. ~(n >= 0) => (-n) \div d \in Nat
  BY <1>1, CellBracket
<1>4. Quotient(a, b) = IF n >= 0 THEN n \div d ELSE -((-n) \div d)
  BY DEF Quotient
<1> HIDE DEF n, d
<1> QED
  BY <1>2, <1>3, <1>4

LEMMA TruncInt == \A v \in Int : Trunc(v) \in Int
BY StyleSizes, QuotientInt, Z3 DEF Trunc

\* Where nothing is negative a quotient is rounded down.
LEMMA QuotientDown ==
  ASSUME NEW a \in Nat, NEW b \in Nat \ {0}
  PROVE  /\ Quotient(a, b) \in Nat
         /\ \A c \in Nat : c * b <= a <=> c <= Quotient(a, b)
         /\ \A c \in Nat : a < (c + 1) * b <=> Quotient(a, b) <= c
<1>1. Quotient(a, b) = a \div b
  BY DEF Quotient
<1> QED
  BY <1>1, CellBracket

\* A whole multiple is divided without a rest, with whatever signs.
LEMMA QuotientExact ==
  ASSUME NEW c \in Nat, NEW d \in Int, d # 0
  PROVE  Quotient(c * d, d) = c
<1> DEFINE b == IF d < 0 THEN -d ELSE d
           a == c * b
<1>1. b \in Nat \ {0}
  OBVIOUS
<1>2. a \in Nat /\ (c + 1) * b = a + b
  BY <1>1, Z3
<1>3. /\ d > 0 => c * d = a
      /\ d < 0 => c * d = -a
  BY Z3
<1>4. c <= a \div b /\ a \div b <= c /\ a \div b \in Nat
  <2> HIDE DEF b
  <2> QED
    BY <1>1, <1>2, CellBracket
<1>5. a \div b = c
  BY <1>4
<1>6. Quotient(c * d, d) = a \div b
  <2>1. CASE d > 0
    <3>1. b = d /\ c * d = a
      BY <1>3, <2>1
    <3> HIDE DEF a, b
    <3> QED
      BY <1>1, <1>2, <2>1, <3>1 DEF Quotient
  <2>2. CASE d < 0
    <3>1. b = -d /\ c * d = -a /\ -(c * d) = a
      BY <1>2, <1>3, <2>2
    <3> HIDE DEF a, b
    <3> QED
      BY <1>1, <1>2, <2>2, <3>1 DEF Quotient
  <2> QED
    BY <2>1, <2>2
<1> QED
  BY <1>5, <1>6

\* A weighted mean of two bytes lies between them, or one below the lesser where the
\* rounding of floats has taken it under a whole number.
LEMMA MeanBetween ==
  ASSUME NEW x \in Byte, NEW y \in Byte, NEW d \in Nat \ {0}, NEW e \in Nat \ {0},
         NEW error \in {-1, 0, 1}, x <= y
  PROVE  LET q == Quotient(x * d + y * e + error, d + e)
         IN  q \in Byte /\ x - 1 <= q /\ q <= y
<1> DEFINE w == x * d + y * e
           lower == x * (d + e)
           upper == y * (d + e)
           s == d + e
<1>1. s \in Nat /\ s >= 2 /\ x \in Nat /\ y \in Nat /\ y <= 255
  BY DEF Byte
<1>2. lower = x * d + x * e /\ upper = y * d + y * e
  BY <1>1, Z3
<1>3. x * e <= y * e /\ x * d <= y * d
  BY <1>1, Z3
<1>4. x * d \in Nat /\ x * e \in Nat /\ y * d \in Nat /\ y * e \in Nat
  BY <1>1, Z3
<1>5. w \in Nat /\ lower \in Nat /\ upper \in Nat /\ lower <= w /\ w <= upper
  <2> DEFINE xd == x * d
             xe == x * e
             yd == y * d
             ye == y * e
  <2>1. /\ xd \in Nat /\ xe \in Nat /\ yd \in Nat /\ ye \in Nat /\ xe <= ye /\ xd <= yd
        /\ lower = xd + xe /\ upper = yd + ye /\ w = xd + ye
    BY <1>2, <1>3, <1>4
  <2> HIDE DEF xd, xe, yd, ye, lower, upper, w
  <2> QED
    BY <2>1
<1>6. (y + 1) * s = upper + s /\ (x >= 1 => (x - 1) * s = lower - s)
  BY <1>1, Z3
<1>7. x >= 1 => lower >= s
  BY <1>1, <1>5, <1>6, Z3
<1> HIDE DEF w, lower, upper, s
<1> DEFINE a == w + error
           q == Quotient(a, s)
<1>8. q \in Byte /\ x - 1 <= q /\ q <= y
  <2>1. CASE a >= 0
    <3>1. a \in Nat /\ a < upper + s /\ a >= lower - s
      BY <1>1, <1>5, <2>1
    <3> HIDE DEF a
    <3>2. q \in Nat /\ q <= y
      BY <1>1, <1>6, <3>1, QuotientDown
    <3>3. x - 1 <= q
      <4>1. CASE x >= 1
        <5> DEFINE z == x - 1
        <5>1. z \in Nat /\ z * s <= a
          BY <1>1, <1>6, <3>1, <4>1
        <5> HIDE DEF z
        <5>2. z <= q
          BY <1>1, <3>1, <5>1, QuotientDown
        <5> QED
          BY <5>2 DEF z
      <4> QED
        BY <1>1, <3>2, <4>1
    <3> HIDE DEF q
    <3> QED
      BY <1>1, <3>2, <3>3 DEF Byte
  <2>2. CASE a < 0
    <3>1. w = 0 /\ error = -1 /\ x = 0
      BY <1>1, <1>5, <1>7, <2>2
    <3>2. -a = 1
      <4>1. a \in Int /\ a + 1 = 0
        BY <3>1
      <4> HIDE DEF a
      <4>2. -a \in Int /\ -a + a = 0
        BY <4>1
      <4> QED
        BY <4>1, <4>2
    <3>3. 1 \div s = 0
      <4>1. 1 \div s <= 0 /\ 1 \div s \in Nat
        BY <1>1, CellBracket
      <4> QED
        BY <4>1
    <3>4. q = -(1 \div s)
      <4>1. a \in Int
        BY <1>5
      <4> HIDE DEF a
      <4>2. q = -((-a) \div s)
        BY <1>1, <2>2, <4>1 DEF Quotient
      <4> QED
        BY <3>2, <4>2
    <3> QED
      BY <1>1, <3>1, <3>3, <3>4 DEF Byte
  <2> QED
    BY <1>1, <1>5, <2>1, <2>2
<1>9. q = Quotient(x * d + y * e + error, d + e)
  BY DEF w, s
<1> HIDE DEF q
<1> QED
  BY <1>8, <1>9

LEMMA ClampByte == \A n \in Int : Clamp255(n) \in Byte /\ (n \in Byte => Clamp255(n) = n)
BY DEF Clamp255, Byte

-----------------------------------------------------------------------------
(* Layouts.                                                                *)

LEMMA DotParts ==
  /\ \A p \in Dots : p \in Nat /\ p < Area
  /\ \A p \in Nat : p < Area => p \in Dots
BY StyleSizes DEF Dots

LEMMA DivMod ==
  ASSUME NEW n \in Nat, NEW k \in Nat \ {0}
  PROVE  n % k \in 0 .. k - 1 /\ n = k * (n \div k) + (n % k)
<1> DEFINE q == n \div k
           r == n % k
<1>1. q \in Int /\ r \in 0 .. k - 1 /\ n = k * q + r
  BY Z3
<1> QED
  BY <1>1

\* What a number leaves when divided, if it is written as a multiple and a rest.
LEMMA DivideOnce ==
  ASSUME NEW n \in Nat, NEW k \in Nat \ {0}, NEW q \in Nat, q * k <= n, n < (q + 1) * k
  PROVE  n \div k = q /\ n % k = n - q * k
<1>1. n \div k \in Nat /\ q <= n \div k /\ n \div k <= q
  BY CellBracket
<1>2. n \div k = q
  BY <1>1
<1>3. n % k \in Int /\ n = k * (n \div k) + (n % k)
  BY DivMod
<1> DEFINE m == q * k
           r == n % k
<1>4. m \in Nat /\ k * q = m
  BY Z3
<1>5. n = m + r /\ r \in Int
  BY <1>2, <1>3, <1>4
<1> HIDE DEF m, r
<1>6. r = n - m
  BY <1>4, <1>5
<1> QED
  BY <1>2, <1>6 DEF m, r

\* The bytes of a picture, in fours or in planes.
LEMMA Quarters ==
  ASSUME NEW i \in 0 .. 4 * Area - 1
  PROVE  /\ i \div 4 \in Dots /\ i % 4 \in 0 .. 3 /\ (i % 4) + 1 \in 1 .. 4
         /\ i \div Area \in 0 .. 3 /\ i % Area \in Dots
<1>1. i \in Nat /\ i < Area * 4 /\ i < 4 * Area /\ Area \in Nat \ {0} /\ Area - 1 \in Nat
  BY StyleSizes
<1>2. i \div 4 \in Nat /\ i \div 4 <= Area - 1
  <2>1. i < ((Area - 1) + 1) * 4
    BY <1>1
  <2> QED
    BY <1>1, <2>1, CellBracket
<1>3. i \div Area \in Nat /\ i \div Area <= 3
  <2>1. i < (3 + 1) * Area
    BY <1>1
  <2> QED
    BY <1>1, <2>1, CellBracket
<1>4. i % 4 \in 0 .. 3 /\ i % Area \in 0 .. Area - 1
  BY <1>1, Z3
<1> QED
  BY <1>1, <1>2, <1>3, <1>4 DEF Dots

LEMMA QuarterParts ==
  ASSUME NEW p \in Dots, NEW k \in 1 .. 4
  PROVE  /\ 4 * p + k - 1 \in 0 .. 4 * Area - 1 /\ p + (k - 1) * Area \in 0 .. 4 * Area - 1
         /\ (4 * p + k - 1) \div 4 = p /\ (4 * p + k - 1) % 4 = k - 1
         /\ (p + (k - 1) * Area) \div Area = k - 1 /\ (p + (k - 1) * Area) % Area = p
<1>1. p \in Nat /\ p < Area /\ Area \in Nat \ {0} /\ k - 1 \in 0 .. 3 /\ k \in Nat
  BY StyleSizes, DotParts
<1>2. 4 * p + k - 1 \in 0 .. 4 * Area - 1
  BY <1>1
<1>3. (4 * p + k - 1) \div 4 = p /\ (4 * p + k - 1) % 4 = k - 1
  <2> DEFINE n == 4 * p + k - 1
  <2>1. n \in Nat /\ p * 4 <= n /\ n < (p + 1) * 4 /\ n - p * 4 = k - 1
    BY <1>1
  <2> HIDE DEF n
  <2> QED
    BY <1>1, <2>1, DivideOnce DEF n
<1>4. /\ p + (k - 1) * Area \in 0 .. 4 * Area - 1
      /\ (p + (k - 1) * Area) \div Area = k - 1 /\ (p + (k - 1) * Area) % Area = p
  <2> DEFINE q == k - 1
             m == q * Area
             n == p + m
  <2>1. q \in 0 .. 3
    BY <1>1
  <2> HIDE DEF q
  <2>2. q = 0 \/ q = 1 \/ q = 2 \/ q = 3
    BY <2>1
  <2>3. m \in Nat /\ m + Area <= 4 * Area /\ (q + 1) * Area = m + Area
    BY <1>1, <2>2
  <2> HIDE DEF m
  <2>4. n \in Nat /\ m <= n /\ n < (q + 1) * Area /\ n - m = p /\ n <= 4 * Area - 1
    BY <1>1, <2>3
  <2> HIDE DEF n
  <2>5. n \div Area = q /\ n % Area = n - q * Area
    BY <1>1, <2>1, <2>4, DivideOnce DEF m
  <2>6. n \div Area = q /\ n % Area = p /\ n \in 0 .. 4 * Area - 1
    BY <1>1, <2>4, <2>5 DEF m
  <2> QED
    BY <2>6 DEF n, m, q
<1> QED
  BY <1>2, <1>3, <1>4

\* Each channel of each pixel has a place of its own.
LEMMA SlotFacts ==
  /\ \A p \in Dots, k \in 1 .. 4 : Slot(p, k) \in 0 .. 4 * Area - 1
  /\ \A p, q \in Dots, k, l \in 1 .. 4 : Slot(p, k) = Slot(q, l) => p = q /\ k = l
<1>1. \A k \in 1 .. 4 : k = 1 \/ k = 2 \/ k = 3 \/ k = 4
  OBVIOUS
<1>2. /\ (1 - 1) * Area = 0 /\ (2 - 1) * Area = Area
      /\ (3 - 1) * Area = Area + Area /\ (4 - 1) * Area = Area + Area + Area
      /\ 4 * Area = Area + Area + Area + Area
  BY StyleSizes
<1>3. CASE job.via = "script"
  <2>1. \A p : /\ Slot(p, 1) = p + (1 - 1) * Area /\ Slot(p, 2) = p + (2 - 1) * Area
               /\ Slot(p, 3) = p + (3 - 1) * Area /\ Slot(p, 4) = p + (4 - 1) * Area
    BY <1>3 DEF Slot
  <2>2. \A p \in Dots :
          /\ Slot(p, 1) = p /\ Slot(p, 2) = p + Area
          /\ Slot(p, 3) = p + Area + Area /\ Slot(p, 4) = p + Area + Area + Area
    BY <1>2, <2>1, DotParts, StyleSizes
  <2> QED
    BY <1>1, <1>2, <2>2, DotParts, StyleSizes
<1>4. CASE job.via # "script"
  <2>1. \A p, k : Slot(p, k) = 4 * p + (k - 1)
    BY <1>4 DEF Slot
  <2> QED
    BY <2>1, DotParts, StyleSizes
<1> QED
  BY <1>3, <1>4

\* A colour put at a pixel is there, and nothing else has changed.
LEMMA PutFacts ==
  ASSUME pixels \in [0 .. 4 * Area - 1 -> Byte], dot \in Dots, NEW c \in Colour, Put(c),
         UNCHANGED job
  PROVE  /\ pixels' \in [0 .. 4 * Area - 1 -> Byte]
         /\ \A k \in 1 .. 4 : pixels'[Slot(dot, k)] = c[k]
         /\ \A p \in Dots, k \in 1 .. 4 :
              p # dot => pixels'[Slot(p, k)] = pixels[Slot(p, k)]
<1>1. \A k \in 1 .. 4 : c[k] \in Byte
  BY DEF Colour
<1> DEFINE a == Slot(dot, 1)
           b == Slot(dot, 2)
           d == Slot(dot, 3)
           e == Slot(dot, 4)
<1>2. /\ a \in 0 .. 4 * Area - 1 /\ b \in 0 .. 4 * Area - 1
      /\ d \in 0 .. 4 * Area - 1 /\ e \in 0 .. 4 * Area - 1
      /\ a # b /\ a # d /\ a # e /\ b # d /\ b # e /\ d # e
  BY SlotFacts
<1>3. pixels' = [pixels EXCEPT ![a] = c[1], ![b] = c[2], ![d] = c[3], ![e] = c[4]]
  BY DEF Put
<1>4. \A p \in Dots, k \in 1 .. 4 :
        p # dot => /\ Slot(p, k) \in 0 .. 4 * Area - 1
                   /\ Slot(p, k) # a /\ Slot(p, k) # b /\ Slot(p, k) # d /\ Slot(p, k) # e
  BY SlotFacts
<1>5. \A k \in 1 .. 4 : k = 1 \/ k = 2 \/ k = 3 \/ k = 4
  OBVIOUS
<1> HIDE DEF a, b, d, e
<1>6. /\ pixels'[a] = c[1] /\ pixels'[b] = c[2] /\ pixels'[d] = c[3] /\ pixels'[e] = c[4]
      /\ pixels' \in [0 .. 4 * Area - 1 -> Byte]
  BY <1>1, <1>2, <1>3
<1>7. \A p \in Dots, k \in 1 .. 4 : p # dot => pixels'[Slot(p, k)] = pixels[Slot(p, k)]
  BY <1>2, <1>3, <1>4
<1> QED
  BY <1>5, <1>6, <1>7 DEF a, b, d, e

\* While the job stays, so does what depends on it alone.
LEMMA JobFrame ==
  ASSUME UNCHANGED job
  PROVE  /\ (Begun <=> Begun') /\ (InOrder <=> InOrder') /\ (Distinct <=> Distinct')
         /\ (GoodJob <=> GoodJob') /\ Count' = Count /\ (Increasing <=> Increasing')
         /\ \A i : V(i)' = V(i) /\ At(i)' = At(i)
         /\ \A v : IsNodata(v)' <=> IsNodata(v)
         /\ \A v, c : (Looked(v, c) <=> Looked(v, c)') /\ (Mixes(v, c) <=> Mixes(v, c)')
         /\ \A p, k : Slot(p, k)' = Slot(p, k)
<1>1. /\ Count' = Count /\ \A i : V(i)' = V(i) /\ At(i)' = At(i)
      /\ \A v : IsNodata(v)' <=> IsNodata(v)
  BY DEF Count, V, At, Cut, IsNodata
<1>2. (WithinArrays <=> WithinArrays') /\ (Increasing <=> Increasing')
  BY <1>1 DEF WithinArrays, Increasing
<1>3. (InOrder <=> InOrder') /\ (Distinct <=> Distinct')
  BY <1>1, <1>2 DEF InOrder, Distinct
<1>4. (Begun <=> Begun') /\ (GoodJob <=> GoodJob')
  BY DEF Begun, GoodJob
<1>5. \A v, c : Looked(v, c) <=> Looked(v, c)'
  BY <1>1 DEF Looked
<1>6. \A v, c : Mixes(v, c) <=> Mixes(v, c)'
  BY <1>1 DEF Mixes
<1>7. \A p, k : Slot(p, k)' = Slot(p, k)
  BY DEF Slot
<1> QED
  BY <1>1, <1>2, <1>3, <1>4, <1>5, <1>6, <1>7

-----------------------------------------------------------------------------
(* Painting.                                                               *)

\* The entries of a table, and what lies next to them, are numbers and colours.
LEMMA AtFacts ==
  ASSUME GoodJob, NEW i \in Nat
  PROVE  At(i) \in Entry /\ At(i).v \in Int /\ At(i).c \in Colour /\ V(i) \in Int
<1>1. At(i) \in Entry
  <2>1. CASE i < Len(job.table)
    <3>1. i + 1 \in 1 .. Len(job.table) /\ job.table \in Seq(Entry)
      BY <2>1 DEF GoodJob
    <3>2. job.table[i + 1] \in Entry
      BY <3>1
    <3> QED
      BY <2>1, <3>2 DEF At
  <2>2. CASE ~(i < Len(job.table))
    BY <2>2 DEF At, GoodJob
  <2> QED
    BY <2>1, <2>2
<1>2. At(i).v \in Int /\ At(i).c \in Colour
  BY <1>1 DEF Entry
<1>3. V(i) \in Int
  BY <1>2, TruncInt DEF V, Cut
<1> QED
  BY <1>1, <1>2, <1>3

\* A pixel painted rightly keeps the invariant.
LEMMA PutOnKeeps ==
  ASSUME StyleIInv, stylePc \in {"paint", "search"}, dot < Area, job.how \in Searched,
         NEW c \in Colour, PutOn(c), UNCHANGED <<job, image>>,
         InOrder => Looked(Value, c), Distinct => Mixes(Value, c)
  PROVE  StyleIInv'
<1> USE JobFrame
<1>1. /\ StyleTypeOK /\ JobInv /\ SearchInv /\ PaintedInv /\ ImageInv
      /\ Begun /\ GoodJob /\ image = Nothing
      /\ dot' = dot + 1 /\ stylePc' = "paint" /\ lo' = lo /\ hi' = hi /\ Put(c)
      /\ job' = job /\ image' = image /\ dot \in Dots /\ dot \in Nat
  BY StyleSizes, DotParts DEF StyleIInv, SearchInv, JobInv, PutOn, StyleTypeOK
<1>2. /\ pixels' \in [0 .. 4 * Area - 1 -> Byte]
      /\ \A k \in 1 .. 4 : pixels'[Slot(dot, k)] = c[k]
      /\ \A p \in Dots, k \in 1 .. 4 : p # dot => pixels'[Slot(p, k)] = pixels[Slot(p, k)]
  BY <1>1, PutFacts DEF StyleTypeOK
<1>3. StyleTypeOK'
  BY <1>1, <1>2, StyleSizes DEF StyleTypeOK
<1>4. JobInv'
  BY <1>1 DEF JobInv, Begun
<1>5. SearchInv'
  BY <1>1 DEF SearchInv
<1>6. PaintedInv'
  <2>1. \A p \in Dots : p # dot => InBuffer(p)' = InBuffer(p)
    BY <1>1, <1>2 DEF InBuffer
  <2>2. [k \in 1 .. 4 |-> pixels'[Slot(dot, k)]] = c
    BY <1>2 DEF Colour
  <2>3. \A p \in Dots : p = dot => InBuffer(p)' = c
    BY <1>1, <2>2 DEF InBuffer
  <2>4. ASSUME NEW p \in Dots, p < dot', InOrder
        PROVE  Looked(job.plane[p], InBuffer(p)')
    <3>1. CASE p = dot
      BY <2>3, <2>4, <3>1 DEF Value
    <3>2. CASE p # dot
      <4>1. p < dot
        BY <1>1, <2>4, <3>2, DotParts
      <4> QED
        BY <1>1, <2>1, <2>4, <3>2, <4>1 DEF PaintedInv
    <3> QED
      BY <3>1, <3>2
  <2>5. ASSUME NEW p \in Dots, p < dot', Distinct
        PROVE  Mixes(job.plane[p], InBuffer(p)')
    <3>1. CASE p = dot
      BY <2>3, <2>5, <3>1 DEF Value
    <3>2. CASE p # dot
      <4>1. p < dot
        BY <1>1, <2>5, <3>2, DotParts
      <4> QED
        BY <1>1, <2>1, <2>5, <3>2, <4>1 DEF PaintedInv
    <3> QED
      BY <3>1, <3>2
  <2> QED
    BY <1>1, <2>4, <2>5 DEF PaintedInv
<1>7. GrayInv'
  BY <1>1 DEF GrayInv, Searched
<1>8. ImageInv'
  BY <1>1 DEF ImageInv, Nothing
<1> QED
  BY <1>3, <1>4, <1>5, <1>6, <1>7, <1>8 DEF StyleIInv

\* A channel of a mixture: a byte, between those of the two entries if the value is
\* between theirs, that of the upper entry if it has the very value.
LEMMA MixFacts ==
  ASSUME GoodJob, NEW i \in Nat \ {0}, NEW v \in Int, NEW k \in 1 .. 4,
         Upto(i) # From(i),
         job.via = "script" => v = V(i) \/ (V(i - 1) < v /\ v < V(i))
  PROVE  /\ Mixed(i, v, k) \in Byte
         /\ v = Upto(i) => Mixed(i, v, k) = At(i).c[k]
         /\ From(i) < v /\ v < Upto(i) =>
              \/ At(i - 1).c[k] - 1 <= Mixed(i, v, k) /\ Mixed(i, v, k) <= At(i).c[k]
              \/ At(i).c[k] - 1 <= Mixed(i, v, k) /\ Mixed(i, v, k) <= At(i - 1).c[k]
<1> DEFINE x == At(i - 1).c[k]
           y == At(i).c[k]
           f == From(i)
           u == Upto(i)
           error == IF v \in {f, u} THEN 0 ELSE job.rounding
           w == x * (u - v) + y * (v - f)
           n == Quotient(w + error, u - f)
<1>1. x \in Byte /\ y \in Byte /\ x \in Nat /\ y \in Nat
  <2>1. i - 1 \in Nat
    OBVIOUS
  <2>2. At(i - 1).c \in Colour /\ At(i).c \in Colour
    BY <2>1, AtFacts
  <2>3. x \in Byte /\ y \in Byte
    BY <2>2 DEF Colour
  <2> QED
    BY <2>3 DEF Byte
<1>2. f \in Int /\ u \in Int /\ u # f
  BY AtFacts DEF From, Upto
<1>3. error \in {-1, 0, 1}
  BY DEF GoodJob
<1>4. Mixed(i, v, k) = IF job.via = "script" THEN n ELSE Clamp255(n)
  <2>1. Weighted(i, v, k) = w
    BY DEF Weighted
  <2> HIDE DEF w
  <2> QED
    BY <2>1, Zenon DEF Mixed
<1>5. job.via = "script" => v = u \/ (f < v /\ v < u)
  BY DEF From, Upto
<1> HIDE DEF x, y, f, u
<1>6. ASSUME v = u
      PROVE  n = y
  <2>1. error = 0
    BY <1>6
  <2>2. w + error = y * (u - f)
    <3>1. x * (u - v) = 0
      <4>1. u - v = 0
        BY <1>2, <1>6
      <4>2. x * 0 = 0
        BY <1>1
      <4> QED
        BY <4>1, <4>2
    <3>2. y * (v - f) \in Int /\ y * (v - f) = y * (u - f)
      BY <1>1, <1>2, <1>6, Z3
    <3> QED
      BY <2>1, <3>1, <3>2
  <2> DEFINE d == u - f
  <2>3. d \in Int /\ d # 0
    BY <1>2
  <2>4. n = Quotient(y * d, d)
    BY <2>2
  <2> HIDE DEF d, n
  <2> QED
    BY <1>1, <2>3, <2>4, QuotientExact
<1>7. ASSUME f < v, v < u
      PROVE  /\ n \in Byte
             /\ (x - 1 <= n /\ n <= y) \/ (y - 1 <= n /\ n <= x)
  <2> DEFINE d == u - v
             e == v - f
  <2>1. d \in Nat \ {0} /\ e \in Nat \ {0} /\ u - f = d + e /\ u - f = e + d
    BY <1>2, <1>7
  <2>2. w = x * d + y * e
    OBVIOUS
  <2> HIDE DEF d, e, error
  <2>3. x * d \in Int /\ y * e \in Int
    BY <1>1, <2>1, Z3
  <2>4. w + error = x * d + y * e + error /\ w + error = y * e + x * d + error
    <3> DEFINE xd == x * d
               ye == y * e
    <3>1. xd \in Int /\ ye \in Int /\ w = xd + ye
      BY <2>2, <2>3
    <3> HIDE DEF xd, ye, w
    <3>2. w + error = xd + ye + error /\ w + error = ye + xd + error
      BY <1>3, <3>1
    <3> QED
      BY <3>2 DEF xd, ye
  <2> HIDE DEF w
  <2>5. CASE x <= y
    <3>1. n = Quotient(x * d + y * e + error, d + e)
      BY <2>1, <2>4
    <3> HIDE DEF n
    <3> QED
      BY <1>1, <1>3, <2>1, <2>5, <3>1, MeanBetween
  <2>6. CASE y <= x
    <3>1. n = Quotient(y * e + x * d + error, e + d)
      BY <2>1, <2>4
    <3> HIDE DEF n
    <3> QED
      BY <1>1, <1>3, <2>1, <2>6, <3>1, MeanBetween
  <2> QED
    BY <1>1, <2>5, <2>6
<1>8. n \in Int
  <2>1. w \in Int
    <3>1. u - v \in Int /\ v - f \in Int
      BY <1>2
    <3> QED
      BY <1>1, <3>1, Z3
  <2> HIDE DEF w, error
  <2>2. w + error \in Int /\ u - f \in Int /\ u - f # 0
    BY <1>2, <1>3, <2>1
  <2> QED
    BY <2>2, QuotientInt
<1> HIDE DEF n
<1>9. /\ Mixed(i, v, k) \in Byte
      /\ n \in Byte => Mixed(i, v, k) = n
  BY <1>1, <1>4, <1>5, <1>6, <1>7, <1>8, ClampByte
<1>10. /\ v = u => Mixed(i, v, k) = y
       /\ f < v /\ v < u => \/ x - 1 <= Mixed(i, v, k) /\ Mixed(i, v, k) <= y
                            \/ y - 1 <= Mixed(i, v, k) /\ Mixed(i, v, k) <= x
  BY <1>1, <1>6, <1>7, <1>9
<1> QED
  BY <1>9, <1>10 DEF x, y, f, u

\* The colour of a value at an entry or just below it.
LEMMA MixtureFacts ==
  ASSUME GoodJob, NEW i \in Nat \ {0}, NEW v \in Int, NEW c \in Mixtures(i, v),
         v = V(i) \/ (V(i - 1) < v /\ v < V(i))
  PROVE  /\ c \in Colour
         /\ V(i - 1) = At(i - 1).v /\ V(i) = At(i).v /\ V(i - 1) # V(i) =>
              /\ v = V(i) => c = At(i).c
              /\ V(i - 1) < v => v = V(i) \/ Between(c, At(i - 1).c, At(i).c)
<1>1. CASE Upto(i) = From(i)
  <2>1. c \in Undefined
    BY <1>1 DEF Mixtures
  <2>2. ~(V(i - 1) = At(i - 1).v /\ V(i) = At(i).v /\ V(i - 1) # V(i))
    BY <1>1 DEF Upto, From
  <2> QED
    BY <2>1, <2>2, StyleAssumption
<1>2. CASE Upto(i) # From(i)
  <2>1. c = [k \in 1 .. 4 |-> Mixed(i, v, k)]
    BY <1>2 DEF Mixtures
  <2>2. \A k \in 1 .. 4 : Mixed(i, v, k) \in Byte
    BY <1>2, MixFacts
  <2>3. c \in Colour
    BY <2>1, <2>2 DEF Colour
  <2>4. ASSUME V(i - 1) = At(i - 1).v, V(i) = At(i).v
        PROVE  /\ v = V(i) => c = At(i).c
               /\ V(i - 1) < v => v = V(i) \/ Between(c, At(i - 1).c, At(i).c)
    <3>1. From(i) = V(i - 1) /\ Upto(i) = V(i)
      BY <2>4 DEF From, Upto
    <3>2. ASSUME v = V(i) PROVE c = At(i).c
      <4>1. \A k \in 1 .. 4 : c[k] = At(i).c[k]
        BY <1>2, <2>1, <3>1, <3>2, MixFacts
      <4>2. At(i).c \in Colour
        BY AtFacts
      <4> QED
        BY <2>3, <4>1, <4>2 DEF Colour
    <3>3. ASSUME V(i - 1) < v, v < V(i) PROVE Between(c, At(i - 1).c, At(i).c)
      <4>1. \A k \in 1 .. 4 :
              \/ At(i - 1).c[k] - 1 <= c[k] /\ c[k] <= At(i).c[k]
              \/ At(i).c[k] - 1 <= c[k] /\ c[k] <= At(i - 1).c[k]
        BY <1>2, <2>1, <3>1, <3>3, MixFacts
      <4> QED
        BY <4>1 DEF Between
    <3> QED
      BY <3>2, <3>3
  <2> QED
    BY <2>3, <2>4
<1> QED
  BY <1>1, <1>2

\* What holds while a pixel is being painted.
LEMMA AtWork ==
  ASSUME StyleIInv, stylePc \in {"paint", "search"}, dot < Area
  PROVE  /\ Begun /\ GoodJob /\ image = Nothing /\ job.how \in Searched
         /\ Value \in Int /\ Count \in Nat /\ dot \in Dots
         /\ \A i \in 0 .. Count - 1 : i \in Nat /\ V(i) \in Int /\ At(i).c \in Colour
         /\ job.nodata.c \in Colour
<1>1. /\ Begun /\ GoodJob /\ image = Nothing /\ job.how \in Searched /\ dot \in Dots
  BY DotParts DEF StyleIInv, JobInv, SearchInv, StyleTypeOK, Dots
<1>2. Value \in Int /\ Count \in Nat /\ job.nodata.c \in Colour
  BY <1>1 DEF GoodJob, Value, Count, Entry
<1>3. ASSUME NEW i \in 0 .. Count - 1
      PROVE  i \in Nat /\ V(i) \in Int /\ At(i).c \in Colour
  <2>1. i \in Nat
    BY <1>2
  <2> QED
    BY <1>1, <2>1, AtFacts
<1> QED
  BY <1>1, <1>2, <1>3

\* A pixel whose colour needs no search, or whose search begins.
LEMMA PaintDotKeeps == StyleIInv /\ PaintDot => StyleIInv'
<1> SUFFICES ASSUME StyleIInv, PaintDot PROVE StyleIInv'
  OBVIOUS
<1> USE AtWork
<1>1. stylePc = "paint" /\ dot < Area /\ job' = job /\ image' = image
  BY DEF PaintDot
<1>2. CASE (IsNodata(Value) \/ Count = 0) /\ PutOn(job.nodata.c)
  <2>1. InOrder => Looked(Value, job.nodata.c)
    BY <1>2 DEF InOrder, Looked
  <2>2. Distinct => Mixes(Value, job.nodata.c)
    BY <1>2 DEF Distinct, Mixes
  <2> QED
    BY <1>1, <1>2, <2>1, <2>2, PutOnKeeps
<1>3. CASE /\ ~IsNodata(Value) /\ Count = 1 /\ job.how = "exact"
           /\ PutOn(IF Value = At(0).v THEN At(0).c ELSE job.nodata.c)
  <2> DEFINE c == IF Value = At(0).v THEN At(0).c ELSE job.nodata.c
  <2>1. c \in Colour
    BY <1>1, <1>3
  <2>2. Looked(Value, c)
    BY <1>3 DEF Looked
  <2>3. ~Distinct
    BY <1>3 DEF Distinct
  <2> HIDE DEF c
  <2>4. PutOn(c)
    BY <1>3 DEF c
  <2> QED
    BY <1>1, <2>1, <2>2, <2>3, <2>4, PutOnKeeps
<1>4. CASE /\ ~IsNodata(Value) /\ Count > 0 /\ job.how # "exact"
           /\ Value <= V(0) /\ PutOn(At(0).c)
  <2>1. InOrder => Looked(Value, At(0).c)
    <3> SUFFICES ASSUME InOrder PROVE Looked(Value, At(0).c)
      OBVIOUS
    <3>1. \A i \in 0 .. Count - 1 : (\A j \in {n \in 0 .. Count - 1 : Value <= V(n)} : i <= j) => i = 0
      BY <1>1, <1>4
    <3> QED
      BY <1>1, <1>4, <3>1 DEF Looked
  <2>2. Distinct => Mixes(Value, At(0).c)
    BY <1>1, <1>4 DEF Mixes
  <2> QED
    BY <1>1, <1>4, <2>1, <2>2, PutOnKeeps
<1>5. CASE /\ ~IsNodata(Value) /\ Count > 0 /\ job.how # "exact"
           /\ Value > V(0) /\ Value >= V(Count - 1) /\ PutOn(At(Count - 1).c)
  <2>1. InOrder => Looked(Value, At(Count - 1).c)
    <3> SUFFICES ASSUME InOrder PROVE Looked(Value, At(Count - 1).c)
      OBVIOUS
    <3>1. ASSUME NEW i \in 0 .. Count - 1, Value <= V(i)
          PROVE  i = Count - 1
      BY <1>1, <1>5, <3>1 DEF InOrder, Increasing
    <3> QED
      BY <1>1, <1>5, <3>1 DEF Looked
  <2>2. Distinct => Mixes(Value, At(Count - 1).c)
    BY <1>1, <1>5 DEF Mixes
  <2> QED
    BY <1>1, <1>5, <2>1, <2>2, PutOnKeeps
<1>6. CASE /\ ~IsNodata(Value) /\ Count > 1
           /\ job.how = "exact" \/ (V(0) < Value /\ Value < V(Count - 1))
           /\ lo' = 0 /\ hi' = Count - 1 /\ stylePc' = "search"
           /\ UNCHANGED <<dot, pixels>>
  <2> USE JobFrame
  <2>1. StyleTypeOK'
    BY <1>1, <1>6 DEF StyleIInv, StyleTypeOK, GoodJob, Count
  <2>2. JobInv'
    BY <1>1, <1>6 DEF StyleIInv, JobInv, Begun
  <2>3. Value' = Value
    BY <1>1, <1>6 DEF Value
  <2>4. SearchInv'
    BY <1>1, <1>6, <2>3 DEF SearchInv
  <2>5. PaintedInv'
    <3>1. \A p : InBuffer(p)' = InBuffer(p)
      BY <1>1, <1>6 DEF InBuffer
    <3> QED
      BY <1>1, <1>6, <3>1 DEF StyleIInv, PaintedInv
  <2>6. GrayInv'
    BY <1>1 DEF GrayInv, Searched
  <2>7. ImageInv'
    BY <1>1, <1>6 DEF ImageInv, Nothing
  <2> QED
    BY <2>1, <2>2, <2>4, <2>5, <2>6, <2>7 DEF StyleIInv
<1> QED
  BY <1>2, <1>3, <1>4, <1>5, <1>6 DEF PaintDot

\* One pass of the search: it ends at an entry that has the value, or next to it, or
\* goes on in the half in which the value lies.
LEMMA SearchStepKeeps == StyleIInv /\ SearchStep => StyleIInv'
<1> SUFFICES ASSUME StyleIInv, SearchStep PROVE StyleIInv'
  OBVIOUS
<1> USE AtWork
<1>1. /\ stylePc = "search" /\ dot < Area /\ job' = job /\ image' = image
      /\ lo \in Nat /\ hi \in Nat /\ lo < hi /\ hi < Count
      /\ lo \in 0 .. Count - 1 /\ hi \in 0 .. Count - 1 /\ ~IsNodata(Value)
      /\ job.how # "exact" => V(lo) < Value /\ Value < V(hi)
      /\ job.how = "exact" /\ Increasing =>
           \A i \in 0 .. Count - 1 : V(i) = Value => lo <= i /\ i <= hi
  <2>1. stylePc = "search" /\ dot < Area /\ job' = job /\ image' = image
    BY DEF SearchStep, StyleIInv, SearchInv
  <2> QED
    BY <2>1 DEF StyleIInv, StyleTypeOK, SearchInv
<1>2. \* An entry that has the very value.
      ASSUME NEW i \in 0 .. Count - 1, V(i) = Value, Found(i), i > 0 \/ job.how # "linear"
      PROVE  StyleIInv'
  <2>1. PICK c \in ColoursOf(i, Value) : PutOn(c)
    BY <1>2 DEF Found
  <2>2. CASE job.how # "linear"
    <3>1. c = At(i).c
      BY <2>1, <2>2 DEF ColoursOf
    <3>2. InOrder => Looked(Value, c)
      <4> SUFFICES ASSUME InOrder PROVE Looked(Value, c)
        OBVIOUS
      <4>1. \A j \in 0 .. Count - 1 : V(j) = Value => j = i
        BY <1>1, <1>2 DEF InOrder, Increasing
      <4>2. \A j \in 0 .. Count - 1 : Value <= V(j) => i <= j
        BY <1>1, <1>2 DEF InOrder, Increasing
      <4> QED
        BY <1>1, <1>2, <3>1, <4>1, <4>2 DEF Looked
    <3>3. ~Distinct
      BY <2>2 DEF Distinct
    <3> QED
      BY <1>1, <2>1, <3>1, <3>2, <3>3, PutOnKeeps
  <2>3. CASE job.how = "linear"
    <3>1. i \in Nat \ {0} /\ c \in Mixtures(i, Value)
      BY <1>1, <1>2, <2>1, <2>3 DEF ColoursOf
    <3>2. c \in Colour
      BY <1>1, <1>2, <3>1, MixtureFacts
    <3>3. Distinct => Mixes(Value, c)
      <4> SUFFICES ASSUME Distinct PROVE Mixes(Value, c)
        OBVIOUS
      <4>1. V(i - 1) = At(i - 1).v /\ V(i) = At(i).v /\ V(i - 1) # V(i)
        BY <1>1, <3>1 DEF Distinct
      <4>2. c = At(i).c
        BY <1>1, <1>2, <3>1, <4>1, MixtureFacts
      <4> QED
        BY <1>1, <1>2, <4>2 DEF Mixes
    <3>4. ~InOrder
      BY <2>3 DEF InOrder
    <3> QED
      BY <1>1, <2>1, <3>2, <3>3, <3>4, PutOnKeeps
  <2> QED
    BY <2>2, <2>3
<1>3. \* The upper one of two neighbours.
      CASE lo = hi - 1 /\ job.how # "exact" /\ Found(hi)
  <2>1. PICK c \in ColoursOf(hi, Value) : PutOn(c)
    BY <1>3 DEF Found
  <2>2. V(hi - 1) < Value /\ Value < V(hi) /\ hi - 1 = lo
    BY <1>1, <1>3
  <2>3. CASE job.how # "linear"
    <3>1. c = At(hi).c
      BY <2>1, <2>3 DEF ColoursOf
    <3>2. InOrder => Looked(Value, c)
      <4> SUFFICES ASSUME InOrder PROVE Looked(Value, c)
        OBVIOUS
      <4>1. \A j \in 0 .. Count - 1 : Value <= V(j) => hi <= j
        BY <1>1, <2>2 DEF InOrder, Increasing
      <4> QED
        BY <1>1, <1>3, <2>2, <3>1, <4>1 DEF Looked
    <3>3. ~Distinct
      BY <2>3 DEF Distinct
    <3> QED
      BY <1>1, <2>1, <3>1, <3>2, <3>3, PutOnKeeps
  <2>4. CASE job.how = "linear"
    <3>1. hi \in Nat \ {0} /\ c \in Mixtures(hi, Value)
      BY <1>1, <2>1, <2>4 DEF ColoursOf
    <3>2. c \in Colour
      BY <1>1, <2>2, <3>1, MixtureFacts
    <3>3. Distinct => Mixes(Value, c)
      <4> SUFFICES ASSUME Distinct PROVE Mixes(Value, c)
        OBVIOUS
      <4>1. hi \in 1 .. Count - 1
        BY <1>1
      <4>2. V(hi - 1) = At(hi - 1).v /\ V(hi) = At(hi).v /\ V(hi - 1) # V(hi)
        BY <1>1, <2>2, <4>1 DEF Distinct
      <4>3. Between(c, At(hi - 1).c, At(hi).c)
        BY <1>1, <2>2, <3>1, <4>2, MixtureFacts
      <4> QED
        BY <1>1, <2>2, <4>1, <4>3 DEF Mixes
    <3>4. ~InOrder
      BY <2>4 DEF InOrder
    <3> QED
      BY <1>1, <2>1, <3>2, <3>3, <3>4, PutOnKeeps
  <2> QED
    BY <2>3, <2>4
<1>4. CASE /\ lo = hi - 1 /\ job.how = "exact" /\ Value # V(lo) /\ Value # V(hi)
           /\ PutOn(job.nodata.c)
  <2>1. InOrder => Looked(Value, job.nodata.c)
    <3> SUFFICES ASSUME InOrder PROVE Looked(Value, job.nodata.c)
      OBVIOUS
    <3>1. \A j \in 0 .. Count - 1 : V(j) # Value
      BY <1>1, <1>4 DEF InOrder
    <3> QED
      BY <1>1, <1>4, <3>1 DEF Looked
  <2>2. ~Distinct
    BY <1>4 DEF Distinct
  <2> QED
    BY <1>1, <1>4, <2>1, <2>2, PutOnKeeps
<1>5. lo < hi - 1 => Middle \in Nat /\ lo < Middle /\ Middle < hi /\ Middle \in 0 .. Count - 1
  BY <1>1 DEF Middle
<1>6. CASE /\ lo < hi - 1 /\ Value # V(Middle)
           /\ IF Value > V(Middle) THEN lo' = Middle /\ hi' = hi ELSE lo' = lo /\ hi' = Middle
           /\ UNCHANGED <<dot, stylePc, pixels>>
  <2> USE JobFrame
  <2>1. /\ lo' \in Nat /\ hi' \in Nat /\ lo' < hi' /\ hi' < Count /\ hi' <= hi
        /\ job.how # "exact" => V(lo') < Value /\ Value < V(hi')
    BY <1>1, <1>5, <1>6
  <2>2. job.how = "exact" /\ Increasing =>
           \A i \in 0 .. Count - 1 : V(i) = Value => lo' <= i /\ i <= hi'
    BY <1>1, <1>5, <1>6 DEF Increasing
  <2>3. StyleTypeOK'
    BY <1>1, <1>6, <2>1 DEF StyleIInv, StyleTypeOK
  <2>4. JobInv'
    BY <1>1, <1>6 DEF StyleIInv, JobInv, Begun
  <2>5. Value' = Value
    BY <1>1, <1>6 DEF Value
  <2>6. SearchInv'
    <3>1. V(lo)' = V(lo') /\ V(hi)' = V(hi')
      BY <1>1 DEF V, Cut, At
    <3> QED
      BY <1>1, <1>6, <2>1, <2>2, <2>5, <3>1 DEF SearchInv
  <2>7. PaintedInv'
    <3>1. \A p : InBuffer(p)' = InBuffer(p)
      BY <1>1, <1>6 DEF InBuffer
    <3> QED
      BY <1>1, <1>6, <3>1 DEF StyleIInv, PaintedInv
  <2>8. GrayInv'
    BY <1>1 DEF GrayInv, Searched
  <2>9. ImageInv'
    BY <1>1, <1>6 DEF ImageInv, Nothing
  <2> QED
    BY <2>3, <2>4, <2>6, <2>7, <2>8, <2>9 DEF StyleIInv
<1>7. CASE lo = hi - 1
  <2>1. CASE Value = V(lo)
    <3>1. job.how = "exact"
      BY <1>1, <2>1
    <3> QED
      BY <1>1, <1>2, <1>7, <2>1, <3>1 DEF SearchStep
  <2>2. CASE Value # V(lo) /\ Value = V(hi)
    <3>1. hi > 0 /\ Found(hi)
      BY <1>1, <1>7, <2>2 DEF SearchStep
    <3> QED
      BY <1>1, <1>2, <2>2, <3>1
  <2>3. CASE Value # V(lo) /\ Value # V(hi)
    BY <1>1, <1>3, <1>4, <1>7, <2>3 DEF SearchStep
  <2> QED
    BY <2>1, <2>2, <2>3
<1>8. CASE lo < hi - 1
  <2>1. CASE Value = V(Middle)
    <3>1. Found(Middle) /\ Middle > 0
      BY <1>1, <1>5, <1>8, <2>1 DEF SearchStep
    <3> QED
      BY <1>2, <1>5, <1>8, <2>1, <3>1
  <2>2. CASE Value # V(Middle)
    BY <1>1, <1>6, <1>8, <2>2 DEF SearchStep
  <2> QED
    BY <2>1, <2>2
<1> QED
  BY <1>1, <1>7, <1>8

-----------------------------------------------------------------------------
(* Styles that need no search.                                             *)

\* Stretching gives bytes and keeps the order of values.
LEMMA StretchedFacts ==
  ASSUME NEW r \in Numbers, NEW v \in Int
  PROVE  /\ Stretched(v, r) \in Byte
         /\ \A w \in Int : v <= w => Stretched(v, r) <= Stretched(w, r)
<1> DEFINE low == r.low
           high == r.high
           d == high - low
           a(x) == 255 * (x - low)
<1>1. low \in Int /\ high \in Int
  BY DEF Numbers
<1>2. ASSUME NEW x \in Int, low < x, x < high
      PROVE  /\ d \in Nat \ {0} /\ a(x) \in Nat
             /\ Quotient(a(x), d) \in Nat /\ Quotient(a(x), d) <= 255
  <2>1. d \in Nat \ {0} /\ a(x) \in Nat /\ a(x) < 256 * d
    BY <1>1, <1>2
  <2> DEFINE n == a(x)
             top == 255
  <2>2. n \in Nat /\ top \in Nat /\ n < (top + 1) * d
    BY <2>1
  <2> HIDE DEF n, d, top
  <2>3. Quotient(n, d) \in Nat
    BY <2>1, <2>2, QuotientDown
  <2>4. Quotient(n, d) <= top
    BY <2>1, <2>2, QuotientDown
  <2> QED
    BY <2>1, <2>3, <2>4 DEF n, top
<1>3. \A x : Stretched(x, r) = IF x <= low THEN 0 ELSE IF x >= high THEN 255
                               ELSE IF high = low THEN 0 ELSE Quotient(a(x), d)
  BY DEF Stretched
<1>4. \A x \in Int : Stretched(x, r) \in Byte
  <2> SUFFICES ASSUME NEW x \in Int PROVE Stretched(x, r) \in Byte
    OBVIOUS
  <2>1. CASE low < x /\ x < high
    <3>1. Stretched(x, r) = Quotient(a(x), d)
      BY <1>1, <1>3, <2>1
    <3> QED
      BY <1>2, <2>1, <3>1, SMTT(20) DEF Byte
  <2> HIDE DEF a, d
  <2> QED
    BY <1>1, <1>3, <2>1 DEF Byte
<1>5. ASSUME NEW w \in Int, v <= w
      PROVE  Stretched(v, r) <= Stretched(w, r)
  <2>1. CASE low < v /\ w < high
    <3> DEFINE n == a(v)
               m == a(w)
               q == Quotient(n, d)
    <3>1. n \in Nat /\ m \in Nat /\ n <= m /\ d \in Nat \ {0} /\ q \in Nat
      BY <1>1, <1>2, <1>5, <2>1
    <3>2. Stretched(v, r) = q /\ Stretched(w, r) = Quotient(m, d)
      BY <1>1, <1>3, <1>5, <2>1
    <3> HIDE DEF n, m, d
    <3>3. q <= q
      BY <3>1
    <3>4. q * d <= n
      BY <3>1, <3>3, QuotientDown
    <3>5. q * d \in Nat
      BY <3>1, Z3
    <3>6. q * d <= m
      BY <3>1, <3>4, <3>5
    <3> HIDE DEF q
    <3> QED
      BY <3>1, <3>2, <3>6, QuotientDown
  <2>2. CASE v <= low \/ w >= high
    <3>1. Stretched(v, r) = 0 \/ Stretched(w, r) = 255
      <4> HIDE DEF a, d
      <4> QED
        BY <1>1, <1>3, <1>5, <2>2
    <3> QED
      BY <1>4, <3>1 DEF Byte
  <2> QED
    BY <1>1, <1>5, <2>1, <2>2
<1> QED
  BY <1>4, <1>5

\* The values that a style looks at.
LEMMA BandFacts ==
  ASSUME NEW s \in Style, NEW t \in Tile, GoodBands(s, t)
  PROVE  \A i \in 1 .. ChannelsOf(s) :
           /\ BandAt(s, i) + 1 \in DOMAIN t.bands
           /\ t.bands[BandAt(s, i) + 1] \in [Dots -> Int]
<1>1. t.bands \in Seq([Dots -> Int])
  BY DEF Tile
<1>2. \A j \in 1 .. Len(t.bands) : t.bands[j] \in [Dots -> Int]
  BY <1>1
<1>3. \A i \in 1 .. ChannelsOf(s) : BandAt(s, i) + 1 \in 1 .. Len(t.bands)
  BY <1>1 DEF GoodBands
<1> QED
  BY <1>1, <1>2, <1>3

LEMMA StretchBytes ==
  ASSUME NEW s \in Style, NEW t \in Tile, NEW p \in Dots,
         s.type \in {"gray", "rgb", "rgba"}, Works(s, t)
  PROVE  Stretch(s, t, p) \in Colour
<1> DEFINE n == ChannelsOf(s)
           v(i) == t.bands[BandAt(s, i) + 1][p]
<1>1. n \in 1 .. 4 /\ (s.type = "gray" => n = 1)
  BY DEF ChannelsOf
<1>2. s.ranges \in Seq(Numbers) /\ Len(s.ranges) >= n /\ GoodBands(s, t)
  BY DEF Works, Style
<1>3. s.nodata.c \in Colour
  BY DEF Style, Entry
<1>4. \A k \in 1 .. n : v(k) \in Int
  BY <1>2, BandFacts
<1> HIDE DEF n
<1>5. \A k \in 1 .. n : s.ranges[k] \in Numbers
  BY <1>1, <1>2
<1>6. \A k \in 1 .. n : Stretched(v(k), s.ranges[k]) \in Byte
  BY <1>4, <1>5, StretchedFacts
<1> DEFINE c == [k \in 1 .. 4 |->
                   IF s.type = "gray" THEN (IF k = 4 THEN 255 ELSE Stretched(v(1), s.ranges[1]))
                   ELSE IF k > n THEN 255 ELSE Stretched(v(k), s.ranges[k])]
<1>7. c \in Colour
  <2>1. 1 \in 1 .. n /\ 255 \in Byte
    BY <1>1 DEF Byte
  <2>2. \A k \in 1 .. 4 : ~(k > n) => k \in 1 .. n
    BY <1>1
  <2> HIDE DEF v
  <2> QED
    BY <1>6, <2>1, <2>2 DEF Colour
<1>8. Stretch(s, t, p) = s.nodata.c \/ Stretch(s, t, p) = c
  BY DEF Stretch, n
<1> QED
  BY <1>3, <1>7, <1>8

LEMMA PlainBytes ==
  ASSUME NEW s \in Style, NEW t \in Tile, NEW p \in Dots
  PROVE  Plain(t, p) \in Colour
<1>1. t.bands \in Seq([Dots -> Int]) /\ t.bands # <<>>
  BY DEF Tile
<1>2. Len(t.bands) \in Nat /\ Len(t.bands) >= 1
  BY <1>1
<1>3. \A j \in 1 .. Len(t.bands) : t.bands[j] \in [Dots -> Int]
  BY <1>1
<1>4. ASSUME NEW k \in 1 .. 4, ~(k = 4 /\ Len(t.bands) # 4)
      PROVE  Clamp255(Quotient(PlainBand(t, k)[p], Unit)) \in Byte
  <2>1. PlainBand(t, k) \in [Dots -> Int]
    BY <1>2, <1>3, <1>4, SMTT(20) DEF PlainBand
  <2>2. Quotient(PlainBand(t, k)[p], Unit) \in Int
    BY <2>1, StyleSizes, QuotientInt
  <2> QED
    BY <2>2, ClampByte
<1>5. \A k \in 1 .. 4 :
        (IF k = 4 /\ Len(t.bands) # 4 THEN 255 ELSE Clamp255(Quotient(PlainBand(t, k)[p], Unit)))
          \in Byte
  <2>1. 255 \in Byte
    BY DEF Byte
  <2> QED
    BY <1>4, <2>1
<1> QED
  BY <1>5 DEF Plain, Colour

LEMMA PaintedBytes ==
  ASSUME NEW s \in Style, NEW t \in Tile, s.type \in {"", "gray", "rgb", "rgba"}, Works(s, t)
  PROVE  Painted(s, t) \in [0 .. 4 * Area - 1 -> Byte]
<1> SUFFICES ASSUME NEW i \in 0 .. 4 * Area - 1
             PROVE  (IF s.type = "" THEN Plain(t, i \div 4) ELSE Stretch(s, t, i \div 4))[(i % 4) + 1]
                      \in Byte
  BY DEF Painted
<1>1. i \div 4 \in Dots /\ (i % 4) + 1 \in 1 .. 4
  BY Quarters
<1>2. (IF s.type = "" THEN Plain(t, i \div 4) ELSE Stretch(s, t, i \div 4)) \in Colour
  BY <1>1, PlainBytes, StretchBytes
<1> QED
  BY <1>1, <1>2 DEF Colour

-----------------------------------------------------------------------------
(* How a job begins.                                                       *)

\* A script's picture of a Dataset, by any table.
LEMMA RenderKeeps ==
  ASSUME StyleIInv, stylePc \in {"idle", "build"}, NEW table \in Seq(Entry), NEW count \in Nat,
         count <= Len(table) + 1, NEW nodata \in SUBSET Entry, Render(table, count, nodata)
  PROVE  StyleIInv'
<1>1. PICK t \in {d \in Data : d.whole}, how \in Searched, e \in nodata :
      \E b \in DOMAIN t.bands, u \in IF count > Len(table) THEN Beyond ELSE {e},
         r \in RoundingFor(how) :
        job' = [via |-> "script", how |-> how, whole |-> TRUE, table |-> table,
                count |-> count, nodata |-> e, beyond |-> u, rounding |-> r,
                plane |-> t.bands[b]]
  BY DEF Render
<1>2. PICK b \in DOMAIN t.bands, u \in IF count > Len(table) THEN Beyond ELSE {e},
           r \in RoundingFor(how) :
        job' = [via |-> "script", how |-> how, whole |-> TRUE, table |-> table,
                count |-> count, nodata |-> e, beyond |-> u, rounding |-> r,
                plane |-> t.bands[b]]
  BY <1>1
<1>3. /\ job'.via = "script" /\ job'.how = how /\ job'.whole = TRUE /\ job'.table = table
      /\ job'.count = count /\ job'.nodata = e /\ job'.beyond = u /\ job'.rounding = r
      /\ job'.plane = t.bands[b]
  BY <1>2
<1>4. /\ stylePc' = "paint" /\ dot' = 0 /\ lo' = lo /\ hi' = hi /\ pixels' = pixels
      /\ image' = Nothing /\ dot = 0
  BY DEF Render, StyleIInv, ImageInv, JobInv
<1>5. /\ e \in Entry /\ u \in Entry /\ r \in {-1, 0, 1}
  BY StyleAssumption DEF RoundingFor
<1>6. t.bands[b] \in [Dots -> Int]
  <2>1. t \in Tile
    BY StyleAssumption
  <2>2. t.bands \in Seq([Dots -> Int])
    BY <2>1 DEF Tile
  <2> QED
    BY <2>2
<1>7. GoodJob'
  BY <1>3, <1>5, <1>6 DEF GoodJob, Searched
<1>8. StyleTypeOK'
  BY <1>4, StyleSizes DEF StyleIInv, StyleTypeOK
<1>9. JobInv'
  BY <1>3, <1>4, <1>7 DEF JobInv, Begun
<1>10. SearchInv'
  BY <1>3, <1>4 DEF SearchInv
<1>11. PaintedInv'
  BY <1>4, DotParts DEF PaintedInv
<1>12. GrayInv'
  BY <1>3 DEF GrayInv, Searched
<1>13. ImageInv'
  BY <1>4 DEF ImageInv, Nothing
<1> QED
  BY <1>8, <1>9, <1>10, <1>11, <1>12, <1>13 DEF StyleIInv

LEMMA RampKeeps == StyleIInv /\ (NewRamp \/ AddColor \/ RenderRamp) => StyleIInv'
<1> SUFFICES ASSUME StyleIInv, NewRamp \/ AddColor \/ RenderRamp PROVE StyleIInv'
  OBVIOUS
<1>0. StyleTypeOK /\ JobInv /\ SearchInv /\ PaintedInv /\ GrayInv /\ ImageInv
  BY DEF StyleIInv
<1>1. ASSUME stylePc' = "build", dot' = 0, UNCHANGED <<lo, hi, pixels, image>>,
             image = Nothing, job'.via = "ramp",
             job' \in [via : {"ramp"}, table : Seq(Entry), count : 0 .. MaxColors + 1],
             Len(job'.table) = IF job'.count <= MaxColors THEN job'.count ELSE MaxColors
      PROVE  StyleIInv'
  <2>1. StyleTypeOK'
    BY <1>0, <1>1, StyleSizes DEF StyleTypeOK
  <2>2. JobInv'
    BY <1>1 DEF JobInv, Begun
  <2>3. SearchInv' /\ PaintedInv' /\ GrayInv'
    BY <1>1 DEF SearchInv, PaintedInv, GrayInv, Begun
  <2>4. ImageInv'
    BY <1>1 DEF ImageInv, Nothing
  <2> QED
    BY <2>1, <2>2, <2>3, <2>4 DEF StyleIInv
<1>2. CASE NewRamp
  <2>1. job' = [via |-> "ramp", table |-> <<>>, count |-> 0] /\ stylePc' = "build"
        /\ dot' = 0 /\ UNCHANGED <<lo, hi, pixels, image>> /\ image = Nothing
    BY <1>0, <1>2 DEF NewRamp, JobInv, ImageInv
  <2>2. /\ job'.via = "ramp" /\ job'.table = <<>> /\ job'.count = 0
        /\ <<>> \in Seq(Entry) /\ Len(<<>>) = 0
    BY <2>1
  <2> QED
    BY <1>1, <2>1, <2>2, StyleSizes
<1>3. CASE AddColor
  <2>1. /\ stylePc = "build" /\ job.count <= MaxColors /\ job.via = "ramp" /\ dot = 0
        /\ job \in [via : {"ramp"}, table : Seq(Entry), count : 0 .. MaxColors + 1]
        /\ Len(job.table) = job.count /\ image = Nothing
    BY <1>0, <1>3 DEF AddColor, JobInv, ImageInv
  <2>2. PICK v \in RampValues :
          job' = [job EXCEPT !.count = @ + 1,
                             !.table = IF job.count < MaxColors
                                       THEN Append(@, [v |-> Trunc(v), c |-> Palette[job.count + 1]])
                                       ELSE @]
    BY <1>3 DEF AddColor
  <2> DEFINE entry == [v |-> Trunc(v), c |-> Palette[job.count + 1]]
  <2>3. job.count < MaxColors => entry \in Entry
    <3>1. Trunc(v) \in Int
      BY StyleAssumption, TruncInt
    <3>2. job.count < MaxColors => Palette[job.count + 1] \in Colour
      BY <2>1, StyleAssumption, StyleSizes
    <3> QED
      BY <3>1, <3>2 DEF Entry
  <2> HIDE DEF entry
  <2> DEFINE table == IF job.count < MaxColors THEN Append(job.table, entry) ELSE job.table
  <2>4. job' = [job EXCEPT !.count = job.count + 1, !.table = table]
    BY <2>2 DEF entry
  <2>5. /\ table \in Seq(Entry)
        /\ Len(table) = IF job.count + 1 <= MaxColors THEN job.count + 1 ELSE MaxColors
    BY <2>1, <2>3, StyleSizes
  <2> HIDE DEF table
  <2>6. /\ job' \in [via : {"ramp"}, table : Seq(Entry), count : 0 .. MaxColors + 1]
        /\ job'.via = "ramp" /\ job'.count = job.count + 1 /\ job'.table = table
    <3>1. job.count + 1 \in 0 .. MaxColors + 1
      BY <2>1, StyleSizes
    <3> DEFINE S == Seq(Entry)
               C == 0 .. MaxColors + 1
               count == job.count + 1
    <3>2. job \in [via : {"ramp"}, table : S, count : C] /\ count \in C /\ table \in S
      BY <2>1, <2>5, <3>1
    <3>3. job' = [job EXCEPT !.count = count, !.table = table]
      BY <2>4
    <3> HIDE DEF S, C, count
    <3>4. /\ job' \in [via : {"ramp"}, table : S, count : C]
          /\ job'.via = "ramp" /\ job'.count = count /\ job'.table = table
      BY <3>2, <3>3
    <3> QED
      BY <3>4 DEF S, C, count
  <2> QED
    BY <1>1, <1>3, <2>1, <2>5, <2>6 DEF AddColor
<1>4. CASE RenderRamp
  <2>1. /\ stylePc = "build" /\ Render(job.table, job.count, RampNodata)
        /\ job.table \in Seq(Entry) /\ job.count \in Nat /\ job.count <= Len(job.table) + 1
    BY <1>0, <1>4, StyleSizes DEF RenderRamp, JobInv
  <2> QED
    BY <2>1, RenderKeeps, StyleAssumption
<1> QED
  BY <1>2, <1>3, <1>4

LEMMA SpanKeeps == StyleIInv /\ RenderSpan => StyleIInv'
<1> SUFFICES ASSUME StyleIInv, RenderSpan PROVE StyleIInv'
  OBVIOUS
<1> DEFINE nodata == {[e EXCEPT !.v = Trunc(@)] : e \in RampNodata}
<1>1. PICK s \in Spans, rounding \in Rounding :
        stylePc = "idle" /\ Render(SpanTable(s, rounding), s.count, nodata)
  BY DEF RenderSpan
<1>2. /\ s.low \in Int /\ s.high \in Int /\ s.count \in 2 .. MaxColors /\ rounding \in Int
      /\ s.count \in Nat
  BY StyleAssumption
<1>3. nodata \in SUBSET Entry
  <2> SUFFICES ASSUME NEW e \in RampNodata PROVE [e EXCEPT !.v = Trunc(@)] \in Entry
    OBVIOUS
  <2>1. e \in Entry /\ Trunc(e.v) \in Int
    BY StyleAssumption, TruncInt DEF Entry
  <2> QED
    BY <2>1 DEF Entry
<1>4. \A i \in 1 .. s.count : SpanTable(s, rounding)[i] \in Entry
  <2> SUFFICES ASSUME NEW i \in 1 .. s.count PROVE SpanTable(s, rounding)[i] \in Entry
    OBVIOUS
  <2> DEFINE a == s.low * (s.count - 1) + (i - 1) * (s.high - s.low)
                    + IF i = 1 THEN 0 ELSE rounding
             b == Unit * (s.count - 1)
  <2>1. a \in Int /\ b \in Int /\ b # 0
    <3>1. s.low * (s.count - 1) \in Int /\ (i - 1) * (s.high - s.low) \in Int
      BY <1>2, Z3
    <3>2. s.count - 1 \in Nat \ {0} /\ Unit \in Nat \ {0}
      BY <1>2, StyleSizes
    <3>3. b \in Nat \ {0}
      <4> DEFINE c == s.count - 1
      <4>1. c \in Nat \ {0}
        BY <3>2
      <4> HIDE DEF c
      <4>2. Unit * c \in Nat /\ Unit * c # 0
        BY <3>2, <4>1, Z3
      <4> QED
        BY <4>2 DEF c
    <3> QED
      BY <1>2, <3>1, <3>3
  <2>2. SpanTable(s, rounding)[i] = [v |-> Unit * Quotient(a, b), c |-> Palette[i]]
    BY DEF SpanTable
  <2> HIDE DEF a, b
  <2>3. Quotient(a, b) \in Int
    BY <2>1, QuotientInt
  <2>4. Unit * Quotient(a, b) \in Int
    BY <2>3, StyleSizes, Z3
  <2>5. Palette[i] \in Colour
    BY <1>2, StyleAssumption, StyleSizes
  <2> QED
    BY <2>2, <2>4, <2>5 DEF Entry
<1>5. SpanTable(s, rounding) \in Seq(Entry) /\ Len(SpanTable(s, rounding)) = s.count
  <2> DEFINE table == SpanTable(s, rounding)
  <2>1. table = [i \in 1 .. s.count |-> table[i]]
    BY DEF SpanTable
  <2>2. \A i \in 1 .. s.count : table[i] \in Entry
    BY <1>4
  <2> HIDE DEF table
  <2> DEFINE n == s.count
  <2>3. n \in Nat /\ table \in [1 .. n -> Entry]
    BY <1>2, <2>1, <2>2
  <2> HIDE DEF n
  <2>4. table \in Seq(Entry) /\ Len(table) = n
    BY <2>3
  <2> QED
    BY <2>4 DEF table, n
<1> HIDE DEF nodata
<1> QED
  BY <1>1, <1>2, <1>3, <1>5, RenderKeeps

\* A picture by a style: of the bytes or bands themselves at once, or by a search.
LEMMA RenderStyleKeeps ==
  ASSUME StyleIInv, stylePc = "idle", NEW via \in {"connector", "engine"}, NEW s \in Style,
         NEW t \in Tile, RenderStyle(via, s, t)
  PROVE  StyleIInv'
<1> DEFINE plane == IF GoodBands(s, t) THEN t.bands[BandAt(s, 1) + 1] ELSE t.bands[1]
<1>0. /\ StyleTypeOK /\ JobInv /\ SearchInv /\ PaintedInv /\ GrayInv /\ ImageInv
      /\ dot = 0 /\ image = Nothing
  BY DEF StyleIInv, JobInv, ImageInv
<1>1. PICK r \in RoundingFor(s.type) :
        job' = [via |-> via, how |-> s.type, whole |-> t.whole, table |-> s.table,
                count |-> Len(s.table), nodata |-> s.nodata, beyond |-> s.nodata,
                rounding |-> r, style |-> s, tile |-> t, plane |-> plane]
  BY DEF RenderStyle
<1>2. /\ job'.via = via /\ job'.how = s.type /\ job'.whole = t.whole /\ job'.table = s.table
      /\ job'.count = Len(s.table) /\ job'.nodata = s.nodata /\ job'.beyond = s.nodata
      /\ job'.rounding = r /\ job'.style = s /\ job'.tile = t /\ job'.plane = plane
  BY <1>1
<1>3. plane \in [Dots -> Int] /\ t.bands \in Seq([Dots -> Int]) /\ t.bands # <<>>
  <2>1. t.bands \in Seq([Dots -> Int]) /\ t.bands # <<>>
    BY DEF Tile
  <2>2. t.bands[1] \in [Dots -> Int]
    BY <2>1
  <2>3. 1 \in 1 .. ChannelsOf(s)
    BY DEF ChannelsOf
  <2> QED
    BY <2>1, <2>2, <2>3, BandFacts
<1> HIDE DEF plane
<1>4. s.table \in Seq(Entry) /\ s.nodata \in Entry /\ t.whole \in BOOLEAN /\ r \in {-1, 0, 1}
  BY StyleAssumption DEF Style, Tile, RoundingFor
<1>5. Begun' /\ GoodJob'
  <2>1. Len(s.table) \in Nat
    BY <1>4
  <2> QED
    BY <1>2, <1>3, <1>4, <2>1 DEF Begun, GoodJob
<1>6. lo' = lo /\ hi' = hi
  BY DEF RenderStyle
<1>7. CASE s.type \in Searched /\ GoodBands(s, t)
  <2>1. stylePc' = "paint" /\ dot' = dot /\ pixels' = pixels /\ image' = image
    BY <1>7 DEF RenderStyle
  <2>2. StyleTypeOK'
    BY <1>0, <1>6, <2>1 DEF StyleTypeOK
  <2>3. JobInv'
    BY <1>2, <1>5, <2>1 DEF JobInv
  <2>4. SearchInv'
    BY <1>0, <1>2, <1>7, <2>1 DEF SearchInv
  <2>5. PaintedInv'
    BY <1>0, <2>1, DotParts DEF PaintedInv
  <2>6. GrayInv'
    BY <1>2, <1>7 DEF GrayInv, Searched
  <2>7. ImageInv'
    BY <1>0, <2>1 DEF ImageInv, Nothing
  <2> QED
    BY <2>2, <2>3, <2>4, <2>5, <2>6, <2>7 DEF StyleIInv
<1>8. CASE s.type \notin Searched \cup {"other"} /\ Works(s, t)
  <2>0. s.type \in {"", "gray", "rgb", "rgba"}
    BY <1>8 DEF Style, Searched
  <2>1. stylePc' = "paint" /\ dot' = Area /\ pixels' = Painted(s, t) /\ image' = image
    BY <1>8 DEF RenderStyle
  <2>2. StyleTypeOK'
    <3>1. Painted(s, t) \in [0 .. 4 * Area - 1 -> Byte]
      BY <1>8, <2>0, PaintedBytes
    <3>2. stylePc' = "paint" /\ dot' \in 0 .. Area /\ lo' \in Nat /\ hi' \in Nat
      BY <1>0, <1>6, <2>1, StyleSizes DEF StyleTypeOK
    <3>3. pixels' \in [0 .. 4 * Area - 1 -> Byte]
      BY <2>1, <3>1
    <3> QED
      BY <3>2, <3>3 DEF StyleTypeOK
  <2>3. JobInv'
    BY <1>2, <1>5, <2>1 DEF JobInv
  <2>4. SearchInv'
    <3>1. stylePc' = "paint" /\ ~(dot' < Area) /\ image' = Nothing
      BY <1>0, <2>1, StyleSizes
    <3> QED
      BY <3>1 DEF SearchInv
  <2>5. PaintedInv'
    BY <1>2, <1>8 DEF PaintedInv
  <2>6. GrayInv'
    <3>1. s.type = "gray" => GoodBands(s, t)
      BY <1>8 DEF Works
    <3>2. s.type = "gray" => plane = t.bands[BandAt(s, 1) + 1]
      BY <3>1 DEF plane
    <3> QED
      BY <1>2, <2>1, <3>2 DEF GrayInv
  <2>7. ImageInv'
    BY <1>0, <2>1 DEF ImageInv, Nothing
  <2> QED
    BY <2>2, <2>3, <2>4, <2>5, <2>6, <2>7 DEF StyleIInv
<1>9. CASE /\ ~(s.type \in Searched /\ GoodBands(s, t))
           /\ ~(s.type \notin Searched \cup {"other"} /\ Works(s, t))
  <2>1. Result(via, s) /\ dot' = 0 /\ pixels' = pixels
    BY <1>0, <1>9 DEF RenderStyle
  <2>2. \/ stylePc' = "done" /\ image' = Null
        \/ /\ stylePc' = "made" /\ image' = [as |-> "planes", bytes |-> Blank]
           /\ via = "connector" /\ s.type \notin Searched
    BY <2>1 DEF Result
  <2>3. StyleTypeOK'
    BY <1>0, <1>6, <2>1, <2>2, StyleSizes DEF StyleTypeOK
  <2>4. JobInv'
    BY <1>2, <1>5, <2>2 DEF JobInv
  <2>5. SearchInv'
    BY <2>2 DEF SearchInv
  <2>6. PaintedInv'
    BY <2>1, DotParts DEF PaintedInv
  <2>7. s.type = "gray" => ~Works(s, t)
    BY <1>9 DEF Searched
  <2>8. GrayInv'
    BY <1>2, <2>7 DEF GrayInv
  <2>9. ImageInv'
    <3>1. Blank \in [0 .. 4 * Area - 1 -> Byte]
      BY DEF Blank, Byte
    <3>2. CASE stylePc' = "done" /\ image' = Null
      BY <3>2 DEF ImageInv, Null
    <3>3. CASE stylePc' = "made" /\ image' = [as |-> "planes", bytes |-> Blank]
                 /\ via = "connector" /\ s.type \notin Searched
      <4>1. image'.as = "planes" /\ image'.bytes = Blank
        BY <3>3
      <4> QED
        BY <1>2, <1>5, <2>7, <3>1, <3>3, <4>1 DEF ImageInv
    <3> QED
      BY <2>2, <3>2, <3>3
  <2> QED
    BY <2>3, <2>4, <2>5, <2>6, <2>8, <2>9 DEF StyleIInv
<1> QED
  BY <1>7, <1>8, <1>9

-----------------------------------------------------------------------------
(* What the caller gets.                                                   *)

LEMMA PlanesFacts ==
  ASSUME NEW b \in [0 .. 4 * Area - 1 -> Byte], NEW p \in Dots, NEW k \in 1 .. 4
  PROVE  /\ Planes(b)[p + (k - 1) * Area] = b[4 * p + k - 1]
         /\ Pixels(b)[4 * p + k - 1] = b[p + (k - 1) * Area]
<1> DEFINE i == p + (k - 1) * Area
           j == 4 * p + k - 1
<1>1. /\ i \in 0 .. 4 * Area - 1 /\ i \div Area = k - 1 /\ i % Area = p
      /\ j \in 0 .. 4 * Area - 1 /\ j \div 4 = p /\ j % 4 = k - 1
  BY QuarterParts
<1> HIDE DEF i, j
<1>2. Planes(b)[i] = b[4 * p + (k - 1)]
  BY <1>1 DEF Planes
<1>3. Pixels(b)[j] = b[(k - 1) * Area + p]
  BY <1>1 DEF Pixels
<1>4. 4 * p + (k - 1) = j
  BY DotParts DEF j
<1>5. (k - 1) * Area + p = i
  <2> DEFINE m == (k - 1) * Area
  <2>1. m \in Int
    BY StyleSizes, Z3
  <2>2. i = p + m
    BY DEF i
  <2> HIDE DEF m
  <2>3. m + p = i
    BY <2>1, <2>2, DotParts
  <2> QED
    BY <2>3 DEF m
<1> QED
  BY <1>2, <1>3, <1>4, <1>5 DEF i, j

LEMMA PlanesBytes ==
  ASSUME NEW b \in [0 .. 4 * Area - 1 -> Byte]
  PROVE  /\ Planes(b) \in [0 .. 4 * Area - 1 -> Byte]
         /\ Pixels(b) \in [0 .. 4 * Area - 1 -> Byte]
<1> SUFFICES ASSUME NEW i \in 0 .. 4 * Area - 1
             PROVE  /\ b[4 * (i % Area) + i \div Area] \in Byte
                    /\ b[(i % 4) * Area + i \div 4] \in Byte
  BY DEF Planes, Pixels
<1>1. /\ i \div 4 \in Dots /\ (i % 4) + 1 \in 1 .. 4
      /\ (i \div Area) + 1 \in 1 .. 4 /\ i % Area \in Dots
  BY Quarters
<1>2. 4 * (i % Area) + ((i \div Area) + 1) - 1 \in 0 .. 4 * Area - 1
  BY <1>1, QuarterParts
<1>3. (i \div 4) + (((i % 4) + 1) - 1) * Area \in 0 .. 4 * Area - 1
  BY <1>1, QuarterParts
<1>4. 4 * (i % Area) + i \div Area \in 0 .. 4 * Area - 1
  <2> DEFINE q == i % Area
             r == i \div Area
  <2>1. q \in Nat /\ r \in Int /\ 4 * q + (r + 1) - 1 \in 0 .. 4 * Area - 1
    <3>1. q \in Dots /\ r \in 0 .. 3
      BY Quarters
    <3>2. 4 * q + (r + 1) - 1 \in 0 .. 4 * Area - 1
      BY <1>2
    <3> HIDE DEF q, r
    <3> QED
      BY <3>1, <3>2, DotParts
  <2> HIDE DEF q, r
  <2>2. 4 * q + r \in 0 .. 4 * Area - 1
    BY <2>1, StyleSizes
  <2> QED
    BY <2>2 DEF q, r
<1>5. (i % 4) * Area + i \div 4 \in 0 .. 4 * Area - 1
  <2> DEFINE q == i \div 4
             r == i % 4
             m == r * Area
  <2>1. q \in Nat /\ r \in Int /\ q + ((r + 1) - 1) * Area \in 0 .. 4 * Area - 1
    BY <1>1, <1>3, Quarters, DotParts
  <2>2. (r + 1) - 1 = r
    BY <2>1
  <2>3. q + m \in 0 .. 4 * Area - 1 /\ m \in Int
    <3> HIDE DEF q, r
    <3>1. m \in Int
      BY <2>1, StyleSizes, Z3
    <3> QED
      BY <2>1, <2>2, <3>1
  <2> HIDE DEF q, m
  <2>4. m + q \in 0 .. 4 * Area - 1
    BY <2>1, <2>3, StyleSizes
  <2> QED
    BY <2>4 DEF q, m, r
<1> QED
  BY <1>4, <1>5

LEMMA OverKeeps == StyleIInv /\ PaintOver => StyleIInv'
<1> SUFFICES ASSUME StyleIInv, PaintOver PROVE StyleIInv'
  OBVIOUS
<1> USE JobFrame
<1>1. /\ StyleTypeOK /\ JobInv /\ SearchInv /\ PaintedInv /\ GrayInv /\ ImageInv
      /\ stylePc = "paint" /\ dot = Area /\ job' = job /\ dot' = dot /\ lo' = lo
      /\ hi' = hi /\ pixels' = pixels /\ Begun
      /\ pixels \in [0 .. 4 * Area - 1 -> Byte]
  BY DEF StyleIInv, PaintOver, JobInv, StyleTypeOK
<1>2. stylePc' \in {"made", "done"}
  BY DEF PaintOver
<1>3. StyleTypeOK'
  BY <1>1, <1>2 DEF StyleTypeOK
<1>4. JobInv'
  BY <1>1, <1>2 DEF JobInv
<1>5. SearchInv'
  BY <1>2 DEF SearchInv
<1>6. PaintedInv' /\ GrayInv' /\ \A p : InBuffer(p)' = InBuffer(p)
  BY <1>1 DEF PaintedInv, GrayInv, InBuffer
<1>7. ImageInv'
  <2>1. CASE job.via = "connector"
    <3>1. /\ stylePc' = "made" /\ image' = [as |-> "planes", bytes |-> Planes(pixels)]
      BY <2>1 DEF PaintOver
    <3>2. image'.as = "planes" /\ image'.bytes = Planes(pixels)
      BY <3>1
    <3>3. \A p \in Dots : Shown(p)' = InBuffer(p)
      <4> SUFFICES ASSUME NEW p \in Dots, NEW k \in 1 .. 4
                   PROVE  Planes(pixels)[p + (k - 1) * Area] = pixels[Slot(p, k)]
        BY <3>2 DEF Shown, InBuffer
      <4>1. Slot(p, k) = 4 * p + (k - 1)
        BY <2>1 DEF Slot
      <4>2. 4 * p + (k - 1) = 4 * p + k - 1
        BY DotParts
      <4> QED
        BY <1>1, <4>1, <4>2, PlanesFacts
    <3>4. image'.bytes \in [0 .. 4 * Area - 1 -> Byte]
      BY <1>1, <3>2, PlanesBytes
    <3> QED
      BY <1>1, <1>6, <2>1, <3>1, <3>2, <3>3, <3>4 DEF ImageInv
  <2>2. CASE job.via # "connector"
    <3>1. /\ stylePc' = "done"
          /\ image' = [as |-> IF job.via = "script" THEN "planes" ELSE "pixels", bytes |-> pixels]
      BY <2>2 DEF PaintOver
    <3>2. /\ image'.as = IF job.via = "script" THEN "planes" ELSE "pixels"
          /\ image'.bytes = pixels
      BY <3>1
    <3>3. \A p \in Dots : Shown(p)' = InBuffer(p)
      <4> SUFFICES ASSUME NEW p \in Dots, NEW k \in 1 .. 4
                   PROVE  pixels[IF image'.as = "planes" THEN p + (k - 1) * Area ELSE 4 * p + k - 1]
                            = pixels[Slot(p, k)]
        BY <3>2 DEF Shown, InBuffer
      <4>1. 4 * p + (k - 1) = 4 * p + k - 1
        BY DotParts
      <4> QED
        BY <3>2, <4>1 DEF Slot
    <3> QED
      BY <1>1, <1>6, <2>2, <3>1, <3>2, <3>3 DEF ImageInv
  <2> QED
    BY <2>1, <2>2
<1> QED
  BY <1>3, <1>4, <1>5, <1>6, <1>7 DEF StyleIInv

LEMMA PngKeeps == StyleIInv /\ ToPng => StyleIInv'
<1> SUFFICES ASSUME StyleIInv, ToPng PROVE StyleIInv'
  OBVIOUS
<1> USE JobFrame
<1>1. /\ StyleTypeOK /\ JobInv /\ SearchInv /\ PaintedInv /\ GrayInv /\ ImageInv
      /\ stylePc = "made" /\ stylePc' = "done" /\ job' = job /\ dot' = dot /\ lo' = lo
      /\ hi' = hi /\ pixels' = pixels /\ image' = [as |-> "pixels", bytes |-> Pixels(image.bytes)]
  BY DEF StyleIInv, ToPng
<1>2. image.as = "planes" /\ Begun /\ image.bytes \in [0 .. 4 * Area - 1 -> Byte]
  <2>1. image.as = "planes"
    BY <1>1 DEF ImageInv
  <2>2. image # Nothing /\ image # Null
    BY <2>1 DEF Nothing, Null
  <2> QED
    BY <1>1, <2>1, <2>2 DEF ImageInv
<1>3. image'.as = "pixels" /\ image'.bytes = Pixels(image.bytes)
  BY <1>1
<1>4. StyleTypeOK' /\ JobInv' /\ SearchInv'
  BY <1>1 DEF StyleTypeOK, JobInv, SearchInv
<1>5. PaintedInv' /\ GrayInv' /\ \A p : InBuffer(p)' = InBuffer(p)
  BY <1>1 DEF PaintedInv, GrayInv, InBuffer
<1>6. \A p \in Dots : Shown(p)' = Shown(p)
  <2> SUFFICES ASSUME NEW p \in Dots, NEW k \in 1 .. 4
               PROVE  Pixels(image.bytes)[4 * p + k - 1] = image.bytes[p + (k - 1) * Area]
    BY <1>2, <1>3 DEF Shown
  <2> QED
    BY <1>2, PlanesFacts
<1>7. ImageInv'
  <2>1. image'.bytes \in [0 .. 4 * Area - 1 -> Byte]
    BY <1>2, <1>3, PlanesBytes
  <2>2. (job.how \in Searched \/ (job.how = "gray" /\ Works(job.style, job.tile))) =>
            (dot = Area /\ \A p \in Dots : Shown(p) = InBuffer(p))
    BY <1>1, <1>2 DEF ImageInv
  <2>3. (job.how \in Searched \/ (job.how = "gray" /\ Works(job.style, job.tile)))' =>
            (dot' = Area /\ \A p \in Dots : Shown(p)' = InBuffer(p)')
    BY <1>1, <1>5, <1>6, <2>2
  <2> QED
    BY <1>1, <1>2, <1>3, <2>1, <2>3 DEF ImageInv
<1> QED
  BY <1>4, <1>5, <1>7 DEF StyleIInv

LEMMA UnreadableKeeps == StyleIInv /\ Unreadable => StyleIInv'
<1> SUFFICES ASSUME StyleIInv, Unreadable PROVE StyleIInv'
  OBVIOUS
<1> USE JobFrame
<1>1. /\ StyleTypeOK /\ JobInv /\ SearchInv /\ PaintedInv /\ GrayInv /\ ImageInv
      /\ stylePc' = "done" /\ job' = job /\ dot' = dot /\ lo' = lo /\ hi' = hi
      /\ pixels' = pixels /\ image' = Null /\ stylePc = "idle"
  BY DEF StyleIInv, Unreadable
<1>2. StyleTypeOK' /\ JobInv' /\ SearchInv'
  BY <1>1 DEF StyleTypeOK, JobInv, SearchInv
<1>3. PaintedInv' /\ GrayInv'
  BY <1>1 DEF PaintedInv, GrayInv, InBuffer
<1>4. ImageInv'
  BY <1>1 DEF ImageInv, Null
<1> QED
  BY <1>2, <1>3, <1>4 DEF StyleIInv

LEMMA StyleBegins == StyleInit => StyleIInv
<1> SUFFICES ASSUME StyleInit PROVE StyleIInv
  OBVIOUS
<1>1. /\ job.via = "none" /\ stylePc = "idle" /\ dot = 0 /\ lo = 0 /\ hi = 0
      /\ pixels = Blank /\ image = Nothing /\ image.as = "nothing"
  BY DEF StyleInit, Nothing
<1>2. Blank \in [0 .. 4 * Area - 1 -> Byte]
  BY DEF Blank, Byte
<1>3. StyleTypeOK
  BY <1>1, <1>2, StyleSizes DEF StyleTypeOK
<1>4. ~Begun
  BY <1>1 DEF Begun
<1> QED
  BY <1>1, <1>3, <1>4 DEF StyleIInv, JobInv, SearchInv, PaintedInv, GrayInv, ImageInv

LEMMA StyleStep == StyleIInv /\ [StyleNext]_styleVars => StyleIInv'
<1> SUFFICES ASSUME StyleIInv, [StyleNext]_styleVars PROVE StyleIInv'
  OBVIOUS
<1>1. CASE NewRamp \/ AddColor \/ RenderRamp
  BY <1>1, RampKeeps
<1>2. CASE RenderSpan
  BY <1>2, SpanKeeps
<1>3. CASE RenderTile
  <2>1. PICK via \in {"connector", "engine"}, s \in Styles, t \in Data :
          stylePc = "idle" /\ RenderStyle(via, s, t)
    BY <1>3 DEF RenderTile
  <2>2. s \in Style /\ t \in Tile
    BY StyleAssumption
  <2> QED
    BY <2>1, <2>2, RenderStyleKeeps
<1>4. CASE PaintDot
  BY <1>4, PaintDotKeeps
<1>5. CASE SearchStep
  BY <1>5, SearchStepKeeps
<1>6. CASE PaintOver \/ ToPng \/ Unreadable
  BY <1>6, OverKeeps, PngKeeps, UnreadableKeeps
<1>7. CASE UNCHANGED styleVars
  <2> USE JobFrame
  <2>1. /\ StyleTypeOK /\ JobInv /\ SearchInv /\ PaintedInv /\ GrayInv /\ ImageInv
        /\ stylePc' = stylePc /\ job' = job /\ dot' = dot /\ lo' = lo /\ hi' = hi
        /\ pixels' = pixels /\ image' = image
    BY <1>7 DEF styleVars, StyleIInv
  <2>2. /\ Value' = Value /\ V(lo)' = V(lo') /\ V(hi)' = V(hi')
        /\ \A p : InBuffer(p)' = InBuffer(p) /\ Shown(p)' = Shown(p)
    BY <2>1 DEF Value, V, Cut, At, InBuffer, Shown
  <2>3. StyleTypeOK' /\ JobInv' /\ GrayInv'
    BY <2>1 DEF StyleTypeOK, JobInv, GrayInv
  <2>4. SearchInv'
    BY <2>1, <2>2 DEF SearchInv
  <2>5. PaintedInv' /\ ImageInv'
    BY <2>1, <2>2 DEF PaintedInv, ImageInv
  <2> QED
    BY <2>3, <2>4, <2>5 DEF StyleIInv
<1> QED
  BY <1>1, <1>2, <1>3, <1>4, <1>5, <1>6, <1>7 DEF StyleNext

-----------------------------------------------------------------------------
(* A picture of what has been clipped.                                     *)

LEMMA FinishSizes == Wid \in Nat \ {0} /\ Hei \in Nat \ {0} /\ Area = Wid * Hei
BY ClipAssumption, FinishAssumption

\* Row by row, every number of a pixel is that of one.
LEMMA PixelOfDot == \A p \in Dots : PixelOf(p) \in Pixel
<1> SUFFICES ASSUME NEW p \in Dots PROVE PixelOf(p) \in Pixel
  OBVIOUS
<1>1. p \in Nat /\ p < Hei * Wid
  <2>1. Wid * Hei = Hei * Wid
    BY FinishSizes, Z3
  <2> QED
    BY <2>1, DotParts, FinishSizes
<1>2. p % Wid \in 0 .. Wid - 1
  BY <1>1, FinishSizes, DivMod
<1>3. p \div Wid \in Nat /\ p \div Wid <= Hei - 1
  <2> DEFINE c == Hei - 1
  <2>1. c \in Nat /\ p < (c + 1) * Wid
    <3>1. c + 1 = Hei /\ c \in Nat
      BY FinishSizes
    <3> QED
      BY <1>1, <3>1
  <2> HIDE DEF c
  <2>2. p \div Wid \in Nat /\ p \div Wid <= c
    BY <1>1, <2>1, FinishSizes, CellBracket
  <2> QED
    BY <2>2 DEF c
<1> QED
  BY <1>2, <1>3, FinishSizes DEF PixelOf, Pixel

\* What has been clipped is a tile of whole numbers.
LEMMA ClippedFacts ==
  ASSUME Called
  PROVE  /\ ClippedTile \in Tile /\ ClippedTile.whole = TRUE /\ Len(ClippedTile.bands) = 1
         /\ \A p \in Dots :
              /\ ClippedTile.bands[1][p] = Unit * IF PixelOf(p) \in kept
                                                  THEN call.picture[PixelOf(p)] ELSE call.fill
              /\ call.picture[PixelOf(p)] \in Int
         /\ call.fill \in Int
<1> DEFINE plane == [p \in Dots |-> Unit * IF PixelOf(p) \in kept
                                           THEN call.picture[PixelOf(p)] ELSE call.fill]
<1>1. call.picture \in [Pixel -> Int] /\ call.fill \in Int
  BY ClipAssumption DEF Called, CallsOf
<1>2. \A p \in Dots : call.picture[PixelOf(p)] \in Int
  BY <1>1, PixelOfDot
<1>3. plane \in [Dots -> Int]
  <2> SUFFICES ASSUME NEW p \in Dots
               PROVE  Unit * (IF PixelOf(p) \in kept THEN call.picture[PixelOf(p)]
                              ELSE call.fill) \in Int
    OBVIOUS
  <2>1. \A n \in Int : Unit * n \in Int
    BY StyleSizes, Z3
  <2> QED
    BY <1>1, <1>2, <2>1
<1>4. ClippedTile = [whole |-> TRUE, bands |-> <<plane>>]
  BY DEF ClippedTile
<1>5. \A p \in Dots : plane[p] = Unit * IF PixelOf(p) \in kept
                                        THEN call.picture[PixelOf(p)] ELSE call.fill
  OBVIOUS
<1> HIDE DEF plane
<1>6. <<plane>> \in Seq([Dots -> Int]) \ {<<>>} /\ Len(<<plane>>) = 1 /\ <<plane>>[1] = plane
  BY <1>3
<1>7. ClippedTile \in Tile /\ ClippedTile.whole = TRUE /\ ClippedTile.bands = <<plane>>
  BY <1>4, <1>6 DEF Tile
<1> QED
  BY <1>1, <1>2, <1>5, <1>6, <1>7

\* The pixels a style finds in it are those of its only band.
LEMMA OnlyBand ==
  ASSUME Called, NEW s
  PROVE  (IF GoodBands(s, ClippedTile) THEN ClippedTile.bands[BandAt(s, 1) + 1]
          ELSE ClippedTile.bands[1]) = ClippedTile.bands[1]
<1>1. 1 \in 1 .. ChannelsOf(s)
  BY DEF ChannelsOf
<1>2. GoodBands(s, ClippedTile) => BandAt(s, 1) \in 0 .. Len(ClippedTile.bands) - 1
  BY <1>1 DEF GoodBands
<1>3. Len(ClippedTile.bands) = 1
  BY ClippedFacts
<1>4. GoodBands(s, ClippedTile) => BandAt(s, 1) = 0
  BY <1>2, <1>3
<1> QED
  BY <1>4

\* Clipping goes on only before there is a picture.
LEMMA FinishClips ==
  ClipInv /\ FinishInv /\ stylePc = "idle" /\ ClipNext /\ UNCHANGED styleVars => FinishInv'
<1> SUFFICES ASSUME ClipInv, FinishInv, stylePc = "idle", ClipNext, UNCHANGED styleVars
             PROVE  FinishInv'
  OBVIOUS
<1>1. FinishJob' /\ ListsGiven
  BY DEF styleVars, FinishJob, FinishInv
<1> SUFFICES ListsGiven'
  BY <1>1 DEF FinishInv
<1>2. CASE Request
  BY <1>2 DEF ClipInv, Request, ListsGiven
<1>3. CASE ConnectorClip
  BY <1>3 DEF ConnectorClip, Return, Scan, ListsGiven, ClipInv
<1>4. CASE LevelOver
  BY <1>4 DEF LevelOver, Return, ListsGiven, ClipInv, LevelInv, HasRuns
<1>5. CASE ScriptClip \/ TestRun \/ TestOver \/ CopyRun \/ CopyOver \/ ScriptClip2
  BY <1>5 DEF ScriptClip, TestRun, TestOver, CopyRun, CopyOver, ScriptClip2, Return, Scan,
     ListsGiven, ClipInv, ScanInv
<1>6. CASE ConnectorStatistic \/ LevelStep \/ ZonalStat \/ ZonalStep \/ ZonalOver
  BY <1>6 DEF ConnectorStatistic, LevelStep, ZonalStat, ZonalStep, ZonalOver, Return, Scan,
     ListsGiven, ClipInv
<1> QED
  BY <1>2, <1>3, <1>4, <1>5, <1>6 DEF ClipNext

\* Once there is a picture to be made of what has been clipped, the job stays.
LEMMA FinishPaints ==
  /\ StyleIInv /\ FinishInv /\ (clipPc = "idle" \/ stylePc # "idle")
  /\ StyleNext /\ UNCHANGED clipVars
  => FinishInv'
<1> SUFFICES ASSUME StyleIInv, FinishInv, clipPc = "idle" \/ stylePc # "idle", StyleNext,
                    UNCHANGED clipVars
             PROVE  FinishInv'
  OBVIOUS
<1>1. /\ call' = call /\ clipPc' = clipPc /\ answer' = answer /\ kept' = kept
      /\ ListsGiven /\ FinishJob
  BY DEF clipVars, FinishInv
<1>2. ListsGiven'
  BY <1>1 DEF ListsGiven
<1>3. CASE clipPc = "idle"
  BY <1>1, <1>2, <1>3 DEF FinishInv, FinishJob
<1>4. CASE clipPc # "idle"
  <2>1. stylePc # "idle" /\ job.via = "connector"
    BY <1>1, <1>4 DEF FinishJob
  <2>2. stylePc # "build"
    BY <2>1 DEF StyleIInv, JobInv
  <2>3. job' = job
    BY <2>1, <2>2 DEF StyleNext, NewRamp, AddColor, RenderRamp, RenderSpan, RenderTile,
       Unreadable, PaintDot, SearchStep, PaintOver, ToPng
  <2>4. ClippedTile' = ClippedTile
    BY <1>1 DEF ClippedTile
  <2>5. FinishJob'
    BY <1>1, <1>4, <2>1, <2>3, <2>4 DEF FinishJob
  <2> QED
    BY <1>2, <2>5 DEF FinishInv
<1> QED
  BY <1>3, <1>4

LEMMA FinishRenders ==
  StyleIInv /\ ClipInv /\ FinishInv /\ RenderClipped => StyleIInv' /\ FinishInv'
<1> SUFFICES ASSUME StyleIInv, ClipInv, FinishInv, RenderClipped
             PROVE  StyleIInv' /\ FinishInv'
  OBVIOUS
<1>1. PICK s \in FinishStyles : RenderStyle("connector", s, ClippedTile)
  BY DEF RenderClipped
<1>2. /\ stylePc = "idle" /\ clipPc = "done" /\ call.method = "tileclip"
      /\ answer = "dataset" /\ call' = call /\ clipPc' = clipPc /\ answer' = answer
      /\ kept' = kept /\ ListsGiven
  BY DEF RenderClipped, clipVars, FinishInv
<1>3. Called /\ s \in Style
  BY <1>2, FinishAssumption, StyleAssumption DEF ClipInv
<1>4. ClippedTile \in Tile /\ ClippedTile.whole = TRUE
  BY <1>3, ClippedFacts
<1>5. StyleIInv'
  BY <1>1, <1>2, <1>3, <1>4, RenderStyleKeeps
<1> DEFINE plane == IF GoodBands(s, ClippedTile) THEN ClippedTile.bands[BandAt(s, 1) + 1]
                    ELSE ClippedTile.bands[1]
<1>6. PICK r \in RoundingFor(s.type) :
        job' = [via |-> "connector", how |-> s.type, whole |-> ClippedTile.whole,
                table |-> s.table, count |-> Len(s.table), nodata |-> s.nodata,
                beyond |-> s.nodata, rounding |-> r, style |-> s, tile |-> ClippedTile,
                plane |-> plane]
  BY <1>1 DEF RenderStyle
<1>7. plane = ClippedTile.bands[1]
  BY <1>3, OnlyBand
<1> HIDE DEF plane
<1>8. /\ job'.via = "connector" /\ job'.whole = TRUE /\ job'.how = s.type
      /\ job'.table = s.table /\ job'.count = Len(s.table) /\ job'.nodata = s.nodata
      /\ job'.plane = ClippedTile.bands[1]
  BY <1>4, <1>6, <1>7
<1>9. ClippedTile' = ClippedTile
  BY <1>2 DEF ClippedTile
<1>10. FinishJob'
  BY <1>2, <1>8, <1>9 DEF FinishJob
<1>11. ListsGiven'
  BY <1>2 DEF ListsGiven
<1> QED
  BY <1>5, <1>10, <1>11 DEF FinishInv

LEMMA FinishInvariant == FinishSpec => [](StyleIInv /\ ClipInv /\ FinishInv)
<1>1. FinishInit => StyleIInv /\ ClipInv /\ FinishInv
  <2> SUFFICES ASSUME FinishInit PROVE StyleIInv /\ ClipInv /\ FinishInv
    OBVIOUS
  <2>1. ClipInit /\ StyleInit /\ answer = "none" /\ stylePc = "idle"
    BY DEF FinishInit, ClipInit, StyleInit
  <2> QED
    BY <2>1, StyleBegins, ClipInvInit DEF FinishInv, ListsGiven, FinishJob
<1>2. StyleIInv /\ ClipInv /\ FinishInv /\ [FinishNext]_finishVars
        => (StyleIInv /\ ClipInv /\ FinishInv)'
  <2> SUFFICES ASSUME StyleIInv, ClipInv, FinishInv, [FinishNext]_finishVars
               PROVE  StyleIInv' /\ ClipInv' /\ FinishInv'
    OBVIOUS
  <2>1. CASE stylePc = "idle" /\ ClipNext /\ UNCHANGED styleVars
    BY <2>1, ClipInvStep, StyleStep, FinishClips
  <2>2. CASE (clipPc = "idle" \/ stylePc # "idle") /\ StyleNext /\ UNCHANGED clipVars
    BY <2>2, ClipInvStep, StyleStep, FinishPaints
  <2>3. CASE RenderClipped
    <3>1. UNCHANGED clipVars
      BY <2>3 DEF RenderClipped
    <3> QED
      BY <2>3, <3>1, ClipInvStep, FinishRenders
  <2>4. CASE UNCHANGED finishVars
    <3>1. UNCHANGED clipVars /\ UNCHANGED styleVars
      BY <2>4 DEF finishVars
    <3>2. FinishInv'
      BY <3>1 DEF clipVars, styleVars, FinishInv, ListsGiven, FinishJob, ClippedTile
    <3> QED
      BY <3>1, <3>2, ClipInvStep, StyleStep
  <2> QED
    BY <2>1, <2>2, <2>3, <2>4 DEF FinishNext
<1> QED
  BY <1>1, <1>2, PTL DEF FinishSpec

-----------------------------------------------------------------------------
(* The theorems.                                                           *)

\* The search for a colour reads at most one entry beyond the arrays of a ramp, the
\* bytes of a picture are bytes, and the pixels are painted one by one up to the
\* last: for tiles of any size and tables of any length, in any order.
THEOREM StyleTypes == FinishSpec => []StyleTypeOK
<1>1. StyleIInv => StyleTypeOK
  BY DEF StyleIInv
<1> QED
  BY <1>1, FinishInvariant, PTL

LEMMA ShownIsPainted ==
  ASSUME StyleIInv, Painting
  PROVE  \A p \in Dots : /\ InOrder => Looked(job.plane[p], Shown(p))
                         /\ Distinct => Mixes(job.plane[p], Shown(p))
<1>1. image.as \in {"planes", "pixels"} /\ job.how \in Searched
  BY DEF Painting
<1>2. Begun /\ dot = Area /\ \A p \in Dots : Shown(p) = InBuffer(p)
  BY <1>1 DEF StyleIInv, ImageInv
<1>3. \A p \in Dots : p < dot
  BY <1>2, DotParts
<1> QED
  BY <1>1, <1>2, <1>3 DEF StyleIInv, PaintedInv

\* Whatever its length, a colour table in increasing order gives each pixel of a
\* picture the colour that it stands for, in a script's Dataset, in the connector's
\* bytes and in PNG: no search of the four stops at a wrong entry.
THEOREM LookupIsRight == FinishSpec => []LookupRight
<1>1. StyleIInv => LookupRight
  BY ShownIsPainted DEF LookupRight
<1> QED
  BY <1>1, FinishInvariant, PTL

\* A linear colour is a mixture of those of two entries whose values are around the
\* pixel's, in every channel between the two or one below the lesser, whatever the
\* rounding of floats, for a table in any order without equal neighbours.
THEOREM LinearLiesBetween == FinishSpec => []LinearBetween
<1>1. StyleIInv => LinearBetween
  BY ShownIsPainted DEF LinearBetween
<1> QED
  BY <1>1, FinishInvariant, PTL

\* In a gray picture a pixel of a greater value is no darker, for every range, be it
\* upside down or empty, and for values of every type.
THEOREM GrayIsOrdered == FinishSpec => []GrayOrdered
<1>1. StyleIInv => GrayOrdered
  <2> SUFFICES ASSUME StyleIInv, image.as = "pixels", job.how = "gray",
                      Works(job.style, job.tile), NEW p \in Dots, NEW q \in Dots,
                      ~IsNodata(job.plane[p]), ~IsNodata(job.plane[q]),
                      job.plane[p] <= job.plane[q]
               PROVE  Shown(p)[1] <= Shown(q)[1]
    BY DEF GrayOrdered
  <2> DEFINE s == job.style
             t == job.tile
             r == s.ranges[1]
             v(x) == t.bands[BandAt(s, 1) + 1][x]
  <2>1. Begun /\ \A x \in Dots : Shown(x) = InBuffer(x)
    BY DEF StyleIInv, ImageInv
  <2>2. /\ job.via # "script" /\ s \in Style /\ t \in Tile /\ s.type = "gray"
        /\ job.whole = t.whole /\ job.nodata = s.nodata /\ pixels = Painted(s, t)
        /\ job.plane = t.bands[BandAt(s, 1) + 1]
    BY <2>1 DEF StyleIInv, GrayInv
  <2>3. ChannelsOf(s) = 1 /\ GoodBands(s, t) /\ Len(s.ranges) >= 1 /\ s.ranges \in Seq(Numbers)
    BY <2>2 DEF Works, ChannelsOf, Style
  <2>4. r \in Numbers /\ \A x \in Dots : v(x) \in Int /\ v(x) = job.plane[x]
    <3>1. r \in Numbers
      BY <2>3
    <3>2. \A x \in Dots : v(x) = job.plane[x]
      BY <2>2
    <3>3. \A x \in Dots : v(x) \in Int
      BY <2>2, <2>3, BandFacts
    <3> QED
      BY <3>1, <3>2, <3>3
  <2>5. ASSUME NEW x \in Dots, ~IsNodata(job.plane[x])
        PROVE  Shown(x)[1] = Stretched(v(x), r)
    <3>1. Shown(x)[1] = pixels[Slot(x, 1)]
      BY <2>1 DEF InBuffer
    <3>2. Slot(x, 1) = 4 * x + 1 - 1
      BY <2>2, DotParts DEF Slot
    <3>3. /\ 4 * x + 1 - 1 \in 0 .. 4 * Area - 1 /\ (4 * x + 1 - 1) \div 4 = x
          /\ (4 * x + 1 - 1) % 4 = 1 - 1
      BY QuarterParts
    <3> DEFINE i == 4 * x + 1 - 1
    <3>4. pixels[i] = Stretch(s, t, x)[(i % 4) + 1]
      <4> HIDE DEF i
      <4>1. i \in 0 .. 4 * Area - 1 /\ i \div 4 = x
        BY <3>3 DEF i
      <4>2. s.type # ""
        BY <2>2
      <4> HIDE DEF s, t
      <4> QED
        BY <2>2, <4>1, <4>2 DEF Painted
    <3>5. (i % 4) + 1 = 1
      BY <3>3
    <3>6. Stretch(s, t, x)[1] = Stretched(v(x), r)
      <4>1. v(x) # IF t.whole THEN Trunc(s.nodata.v) ELSE s.nodata.v
        BY <2>2, <2>4, <2>5 DEF IsNodata, Cut
      <4>2. \A j \in 1 .. ChannelsOf(s) : j = 1
        BY <2>3
      <4> HIDE DEF s, t
      <4> QED
        BY <2>2, <4>1, <4>2 DEF Stretch, r, v
    <3> QED
      BY <3>1, <3>2, <3>4, <3>5, <3>6
  <2>6. Stretched(v(p), r) <= Stretched(v(q), r)
    <3>1. v(p) \in Int /\ v(q) \in Int /\ v(p) <= v(q)
      BY <2>4
    <3> HIDE DEF v, r
    <3> QED
      BY <2>4, <3>1, StretchedFacts
  <2> QED
    BY <2>5, <2>6
<1> QED
  BY <1>1, FinishInvariant, PTL

\* A whole number stays what it is when it is cut to an integer.
LEMMA TruncWhole == \A n \in Int : Trunc(Unit * n) = Unit * n
<1> SUFFICES ASSUME NEW n \in Int PROVE Quotient(Unit * n, Unit) = n
  BY DEF Trunc
<1>1. CASE n >= 0
  <2>1. n \in Nat /\ Unit \in Int /\ Unit # 0 /\ Unit * n = n * Unit
    BY <1>1, StyleSizes, Z3
  <2>2. Quotient(n * Unit, Unit) = n
    BY <2>1, QuotientExact
  <2> QED
    BY <2>1, <2>2
<1>2. CASE n < 0
  <2> DEFINE m == -n
             a == m * Unit
  <2>1. m \in Nat \ {0} /\ Unit \in Nat \ {0}
    BY <1>2, StyleSizes
  <2>2. Unit * n = -a /\ -(Unit * n) = a
    BY <2>1, Z3
  <2>3. a \in Nat /\ a > 0
    <3> HIDE DEF m
    <3> QED
      BY <2>1, Z3
  <2>4. Quotient(a, Unit) = m
    <3> HIDE DEF m
    <3> QED
      BY <2>1, QuotientExact
  <2>5. a \div Unit = m
    <3> HIDE DEF m, a
    <3> QED
      BY <2>1, <2>3, <2>4 DEF Quotient
  <2>6. Quotient(-a, Unit) = -(a \div Unit)
    <3> HIDE DEF a, m
    <3>1. ~(-a >= 0) /\ -(-a) = a /\ ~(Unit < 0)
      BY <2>1, <2>3
    <3> QED
      BY <3>1 DEF Quotient
  <2>7. -m = n
    OBVIOUS
  <2> QED
    BY <2>2, <2>5, <2>6, <2>7
<1> QED
  BY <1>1, <1>2

\* Clipping, rendering and laying out keep each pixel in its place: outside the
\* region it has the colour for no data, inside that of its value before clipping,
\* for regions of any number of runs at any zoom level, tiles of any size and styles
\* that list any number of values.
THEOREM FinishIsExact == ListsValues => (FinishSpec => []FinishedExact)
<1> SUFFICES ASSUME ListsValues PROVE FinishSpec => []FinishedExact
  OBVIOUS
<1>1. StyleIInv /\ ClipInv /\ FinishInv => FinishedExact
  <2> SUFFICES ASSUME StyleIInv, ClipInv, FinishInv, call.method = "tileclip",
                      answer = "dataset", ~BeginsBelow, image.as = "pixels",
                      job.how = "exact", job.nodata.v = Unit * call.fill, NEW p \in Dots
               PROVE  LET v == Unit * call.picture[PixelOf(p)]
                          same == {i \in 0 .. Count - 1 : V(i) = v}
                      IN  IF ~InRegion(PixelOf(p)) \/ v = job.nodata.v \/ same = {}
                          THEN Shown(p) = job.nodata.c
                          ELSE \A i \in same : Shown(p) = At(i).c
    BY DEF FinishedExact
  <2>1. Begun /\ stylePc # "idle"
    BY DEF StyleIInv, ImageInv
  <2>2. clipPc # "idle" /\ Called
    BY DEF ClipInv, None
  <2>3. kept = Covered
    BY DEF ClipInv, LevelClipExact, FinishInv, ListsGiven
  <2>4. /\ job.via = "connector" /\ job.whole /\ job.plane = ClippedTile.bands[1]
        /\ \E s \in FinishStyles : /\ job.how = s.type /\ job.table = s.table
                                   /\ job.count = Len(s.table) /\ job.nodata = s.nodata
    BY <2>1, <2>2 DEF FinishInv, FinishJob
  <2>5. PICK s \in FinishStyles : /\ s.type = "exact" /\ job.table = s.table
                                  /\ job.count = Len(s.table) /\ job.nodata = s.nodata
    BY <2>4
  <2>6. s.table # <<>> /\ s.table \in Seq(Entry) /\ Len(s.table) \in Nat \ {0}
    <3>1. s \in Style /\ s.table # <<>>
      BY <2>5, FinishAssumption, StyleAssumption DEF ListsValues
    <3>2. s.table \in Seq(Entry)
      BY <3>1 DEF Style
    <3> QED
      BY <3>1, <3>2
  <2>7. \A i \in 0 .. Count - 1 :
          V(i) = At(i).v /\ \A j \in 0 .. Count - 1 : i < j => V(i) < V(j)
    <3>1. Count = Len(s.table)
      BY <2>5 DEF Count
    <3>2. \A i \in 0 .. Count - 1 : At(i) = s.table[i + 1] /\ i + 1 \in 1 .. Len(s.table)
      BY <2>5, <2>6, <3>1 DEF At
    <3>3. \A i \in 0 .. Count - 1 : V(i) = s.table[i + 1].v
      BY <2>4, <2>5, <3>2 DEF V, Cut, ListsValues
    <3>4. \A i, j \in 0 .. Count - 1 : i < j => i + 1 < j + 1
      BY <2>6, <3>1
    <3> QED
      BY <2>5, <3>2, <3>3, <3>4 DEF ListsValues
  <2>8. InOrder
    BY <2>5, <2>6, <2>7 DEF InOrder, WithinArrays, Increasing, Count
  <2>9. Looked(job.plane[p], Shown(p))
    BY <2>8, ShownIsPainted DEF Painting, Searched
  <2> DEFINE w == job.plane[p]
             v == Unit * call.picture[PixelOf(p)]
  <2>10. w = IF InRegion(PixelOf(p)) THEN v ELSE job.nodata.v
    BY <2>2, <2>3, <2>4, ClippedFacts, PixelOfDot DEF Covered
  <2>11. IsNodata(w) <=> w = job.nodata.v
    <3>1. Trunc(job.nodata.v) = job.nodata.v
      BY <2>2, ClippedFacts, TruncWhole
    <3> QED
      BY <2>4, <3>1 DEF IsNodata, Cut
  <2>12. /\ IsNodata(w) => Shown(p) = job.nodata.c
         /\ ~IsNodata(w) =>
              /\ {i \in 0 .. Count - 1 : w = V(i)} = {} => Shown(p) = job.nodata.c
              /\ \A i \in {i \in 0 .. Count - 1 : w = V(i)} : Shown(p) = At(i).c
    <3>1. \A i \in 0 .. Count - 1 : (IF Count = 1 THEN At(i).v ELSE V(i)) = V(i)
      BY <2>7
    <3> QED
      BY <2>9, <3>1 DEF Looked
  <2> HIDE DEF w
  <2>13. CASE ~InRegion(PixelOf(p))
    BY <2>10, <2>11, <2>12, <2>13
  <2>14. CASE InRegion(PixelOf(p))
    <3>1. w = v
      BY <2>10, <2>14
    <3> HIDE DEF v
    <3>2. IF v = job.nodata.v \/ {i \in 0 .. Count - 1 : V(i) = v} = {}
          THEN Shown(p) = job.nodata.c
          ELSE \A i \in {i \in 0 .. Count - 1 : V(i) = v} : Shown(p) = At(i).c
      BY <2>11, <2>12, <3>1
    <3> QED
      BY <2>14, <3>2 DEF v
  <2> QED
    BY <2>13, <2>14
<1> QED
  BY <1>1, FinishInvariant, PTL

\* What a picture has left to do, as a number.
LEMMA StepsLeftAre ==
  ASSUME StyleIInv, stylePc \in {"paint", "search"}
  PROVE  /\ Count \in Nat /\ dot \in 0 .. Area /\ Area \in Nat
         /\ (Area - dot) * (Count + 2) \in Nat
         /\ dot < Area => (Area - dot) * (Count + 2)
                             = (Area - dot - 1) * (Count + 2) + (Count + 2)
         /\ dot < Area => (Area - dot - 1) * (Count + 2) \in Nat
         /\ (Area - (dot + 1)) * (Count + 2) = (Area - dot - 1) * (Count + 2)
         /\ stylePc = "search" =>
              lo \in Nat /\ hi \in Nat /\ lo < hi /\ hi < Count /\ dot < Area
<1>1. Count \in Nat /\ dot \in 0 .. Area /\ Area \in Nat
  BY StyleSizes DEF StyleIInv, StyleTypeOK, JobInv, GoodJob, Count
<1>2. /\ \A a \in Nat, k \in Nat : a * k \in Nat
      /\ \A a \in Nat \ {0}, k \in Nat : a * k = (a - 1) * k + k
  BY Z3
<1>3. dot < Area => Area - dot \in Nat \ {0} /\ Area - dot - 1 \in Nat
  BY <1>1
<1>4. Area - dot \in Nat /\ Count + 2 \in Nat /\ Area - (dot + 1) = Area - dot - 1
  BY <1>1
<1>5. (Area - dot) * (Count + 2) \in Nat
  BY <1>2, <1>4
<1>6. dot < Area => /\ (Area - dot) * (Count + 2)
                         = (Area - dot - 1) * (Count + 2) + (Count + 2)
                    /\ (Area - dot - 1) * (Count + 2) \in Nat
  BY <1>2, <1>3, <1>4
<1>7. stylePc = "search" =>
        lo \in Nat /\ hi \in Nat /\ lo < hi /\ hi < Count /\ dot < Area
  BY DEF StyleIInv, StyleTypeOK, SearchInv
<1> QED
  BY <1>1, <1>4, <1>5, <1>6, <1>7

\* A pixel that is painted leaves the steps of the pixels after it.
LEMMA PutOnShortens ==
  ASSUME StyleIInv, stylePc \in {"paint", "search"}, dot < Area, job' = job,
         NEW c, PutOn(c)
  PROVE  StepsLeft' < StepsLeft /\ Halves
<1>1. stylePc' = "paint" /\ dot' = dot + 1 /\ Count' = Count
  BY DEF PutOn, Count
<1>2. StepsLeft' = (Area - dot - 1) * (Count + 2) + 1
  BY <1>1, StepsLeftAre DEF StepsLeft
<1>3. StepsLeft = (Area - dot - 1) * (Count + 2) + 1 + IF stylePc = "paint" THEN Count + 2 ELSE hi - lo
  BY StepsLeftAre DEF StepsLeft
<1>4. StepsLeft' < StepsLeft
  BY <1>2, <1>3, StepsLeftAre
<1> QED
  BY <1>1, <1>4 DEF Halves

\* Painting a dot, or setting out on its search, takes one of the steps left.
LEMMA PaintShortens ==
  ASSUME StyleIInv, PaintDot
  PROVE  StepsLeft' < StepsLeft /\ Halves
<1>1. stylePc = "paint" /\ dot < Area /\ job' = job
  BY DEF PaintDot
<1>2. CASE \E c : PutOn(c)
  BY <1>1, <1>2, PutOnShortens
<1>3. CASE lo' = 0 /\ hi' = Count - 1 /\ stylePc' = "search" /\ UNCHANGED <<dot, pixels>>
  <2>1. Count' = Count
    BY <1>1 DEF Count
  <2>2. StepsLeft' = (Area - dot - 1) * (Count + 2) + 1 + (Count - 1 - 0)
    BY <1>3, <2>1 DEF StepsLeft
  <2>3. StepsLeft = (Area - dot - 1) * (Count + 2) + (Count + 2) + 1
    BY <1>1, StepsLeftAre DEF StepsLeft
  <2>4. StepsLeft' < StepsLeft
    BY <1>1, <2>2, <2>3, StepsLeftAre
  <2> QED
    BY <1>1, <2>4 DEF Halves
<1> QED
  BY <1>2, <1>3 DEF PaintDot

\* A step of the search takes one of the steps left, and halves what it searches.
LEMMA SearchShortens ==
  ASSUME StyleIInv, SearchStep
  PROVE  StepsLeft' < StepsLeft /\ Halves
<1>1. /\ stylePc = "search" /\ job' = job /\ dot < Area
      /\ lo \in Nat /\ hi \in Nat /\ lo < hi
  BY StepsLeftAre DEF SearchStep
<1>2. CASE \E c : PutOn(c)
  BY <1>1, <1>2, PutOnShortens
<1>3. CASE /\ lo < hi - 1 /\ UNCHANGED <<dot, stylePc, pixels>>
           /\ (lo' = Middle /\ hi' = hi) \/ (lo' = lo /\ hi' = Middle)
  <2>1. Count' = Count
    BY <1>1 DEF Count
  <2>2. Middle \in Nat /\ lo < Middle /\ Middle < hi
        /\ hi - Middle <= (hi - lo + 1) \div 2 /\ Middle - lo <= (hi - lo + 1) \div 2
    BY <1>1, <1>3 DEF Middle
  <2>3. StepsLeft' = (Area - dot - 1) * (Count + 2) + 1 + (hi' - lo')
    BY <1>1, <1>3, <2>1 DEF StepsLeft
  <2>4. StepsLeft = (Area - dot - 1) * (Count + 2) + 1 + (hi - lo)
    BY <1>1 DEF StepsLeft
  <2>5. hi' - lo' < hi - lo /\ hi' - lo' \in Int /\ hi' - lo' <= (hi - lo + 1) \div 2
    BY <1>1, <1>3, <2>2
  <2>6. StepsLeft' < StepsLeft
    BY <1>1, <2>3, <2>4, <2>5, StepsLeftAre
  <2> QED
    BY <2>5, <2>6 DEF Halves
<1>4. \A i : Found(i) => \E c : PutOn(c)
  BY DEF Found
<1>5. \/ \E c : PutOn(c)
      \/ /\ lo < hi - 1 /\ UNCHANGED <<dot, stylePc, pixels>>
         /\ (lo' = Middle /\ hi' = hi) \/ (lo' = lo /\ hi' = Middle)
  BY <1>4, Zenon DEF SearchStep
<1> QED
  BY <1>2, <1>3, <1>5

\* A picture of any tile, by a table of any length, is made in a number of steps that is
\* known when it begins, and a search takes no more passes than halving the table does.
THEOREM PicturesShorten == FinishSpec => RenderShortens
<1>1. StyleIInv /\ [StyleNext]_styleVars =>
        [(stylePc \in {"paint", "search"}) => StepsLeft' < StepsLeft /\ Halves]_styleVars
  <2> SUFFICES ASSUME StyleIInv, StyleNext, stylePc \in {"paint", "search"}
               PROVE  StepsLeft' < StepsLeft /\ Halves
    OBVIOUS
  <2>1. CASE PaintOver
    <3>1. stylePc = "paint" /\ stylePc' \in {"made", "done"} /\ dot = Area
      BY <2>1 DEF PaintOver
    <3>2. StepsLeft' = 0 /\ StepsLeft = (Area - dot) * (Count + 2) + 1
      BY <3>1 DEF StepsLeft
    <3> QED
      BY <3>1, <3>2, StepsLeftAre DEF Halves
  <2>2. CASE PaintDot
    BY <2>2, PaintShortens
  <2>3. CASE SearchStep
    BY <2>3, SearchShortens
  <2>4. ~(NewRamp \/ AddColor \/ RenderRamp \/ RenderSpan \/ RenderTile \/ Unreadable \/ ToPng)
    BY DEF NewRamp, AddColor, RenderRamp, RenderSpan, RenderTile, Unreadable, ToPng
  <2> QED
    BY <2>1, <2>2, <2>3, <2>4 DEF StyleNext
<1>2. StyleIInv /\ [FinishNext]_finishVars =>
        [(stylePc \in {"paint", "search"}) => StepsLeft' < StepsLeft /\ Halves]_styleVars
  <2> SUFFICES ASSUME StyleIInv, [FinishNext]_finishVars, stylePc \in {"paint", "search"},
                      ~UNCHANGED styleVars
               PROVE  StyleNext
    BY <1>1
  <2>1. ~UNCHANGED finishVars
    BY DEF finishVars
  <2>2. ~RenderClipped
    BY DEF RenderClipped
  <2> QED
    BY <2>1, <2>2 DEF FinishNext
<1> QED
  BY <1>2, FinishInvariant, PTL DEF FinishSpec, RenderShortens

\* There is a colour for each entry that a search ends at.
LEMMA ColoursExist ==
  ASSUME NEW i, NEW v
  PROVE  ColoursOf(i, v) # {}
BY StyleAssumption DEF ColoursOf, Mixtures

\* Until a picture is done there is a step to make: with fairness for the loops, this
\* and PicturesShorten are what RenderEnds says.
THEOREM PicturesGoOn == FinishSpec => []RenderGoesOn
<1>1. ASSUME StyleIInv PROVE RenderGoesOn
  <2>1. StepsLeft \in Nat /\ (stylePc \in {"paint", "search"} => StepsLeft > 0)
    BY <1>1, StepsLeftAre DEF StepsLeft
  <2>2. ASSUME stylePc = "paint", dot < Area
        PROVE  \/ IsNodata(Value) \/ Count = 0
               \/ Count = 1 /\ job.how = "exact"
               \/ Count > 0 /\ job.how # "exact" /\ Value <= V(0)
               \/ Count > 0 /\ job.how # "exact" /\ Value > V(0) /\ Value >= V(Count - 1)
               \/ Count > 1 /\ (job.how = "exact" \/ (V(0) < Value /\ Value < V(Count - 1)))
    <3>1. /\ Value \in Int /\ Count \in Nat
          /\ \A i \in 0 .. Count - 1 : V(i) \in Int
      BY <1>1, <2>2, AtWork
    <3>2. Count > 0 => V(0) \in Int /\ V(Count - 1) \in Int /\ (Count = 1 => V(Count - 1) = V(0))
      BY <3>1
    <3> QED
      BY <3>1, <3>2
  <2>3. stylePc = "search" => lo = hi - 1 \/ lo < hi - 1
    <3>1. stylePc = "search" => lo \in Nat /\ hi \in Nat /\ lo < hi
      BY <1>1 DEF StyleIInv, StyleTypeOK
    <3> QED
      BY <3>1
  <2> QED
    BY <2>1, <2>2, <2>3, ColoursExist DEF RenderGoesOn
<1> QED
  BY <1>1, FinishInvariant, PTL
=============================================================================
