----------------------------- MODULE StyleRender -----------------------------
(***************************************************************************)
(* Making a picture of a tile.                                             *)
(*                                                                         *)
(*   script      dataset.renderPsuedColor, with a colour ramp that a       *)
(*               script has built (or one of the engine's own, stretched   *)
(*               over a range): a Dataset of four bands                    *)
(*   connector   RenderTileData2Rgba: a finished tile, by a style; then    *)
(*               ConvertRgbaData2PngBinary                                 *)
(*   engine      the entry points that render: by a style, straight to PNG *)
(*                                                                         *)
(* A colour table gives colours for values; the colour of a pixel is found *)
(* by binary search, and a step here is one pass through the loop of that  *)
(* search, which the code has four copies of.  Numbers are in units of     *)
(* 1/Unit, so that values of integer types are multiples of Unit and the   *)
(* values of a style need not be.  Encoding PNG is not modelled.           *)
(***************************************************************************)
EXTENDS Integers, Sequences

CONSTANTS
  Area,        \* the number of pixels of a tile
  Unit,        \* what 1 is
  MaxColors,   \* MAXNUM_COLORS
  Styles,      \* the styles given
  Data,        \* the tiles given
  RampValues,  \* the values for which scripts add colours
  RampNodata,  \* the values for no data that scripts set
  Beyond,      \* what may lie in memory beyond the arrays of a ramp
  Undefined,   \* the colours that the conversion of 0/0 to bytes may give
  Rounding,    \* how far floats may take a quotient from the exact one, in parts of its divisor
  Spans,       \* the ranges over which scripts stretch the engine's ramps
  Palette      \* the i-th colour added, the i-th colour of an engine's ramp

Dots == 0 .. Area - 1
Byte == 0 .. 255
Colour == [1 .. 4 -> Byte]
Entry == [v : Int, c : Colour]
Numbers == [low : Int, high : Int]

Style == [type : {"", "gray", "rgb", "rgba", "discrete", "linear", "exact", "other"},
          table : Seq(Entry), nodata : Entry, ranges : Seq(Numbers), bands : Seq(Int)]
\* A tile: the bands are planes of values; an integer type or not.
Tile == [whole : BOOLEAN, bands : Seq([Dots -> Int]) \ {<<>>}]

ASSUME StyleAssumption ==
  /\ Area \in Nat \ {0} /\ Unit \in Nat \ {0} /\ MaxColors \in Nat \ {0}
  /\ Styles \subseteq Style
  /\ Data \subseteq Tile
  /\ RampValues \subseteq Int /\ RampNodata \subseteq Entry /\ Beyond \subseteq Entry
  /\ Undefined \subseteq Colour /\ Undefined # {}
  /\ Rounding \subseteq {-1, 0, 1} /\ Rounding # {}
  /\ Spans \subseteq [low : Int, high : Int, count : 2 .. MaxColors]
  /\ Palette \in [1 .. MaxColors -> Colour]

VARIABLES
  job,      \* what is to be painted
  stylePc,  \* idle, build (a ramp), paint, search, made (pixels), done
  dot,      \* it: the pixel being painted
  lo, hi,   \* i0, i1: the entries between which the search goes on
  pixels,   \* the buffer of bytes, four for each pixel
  image     \* what the caller gets: nothing yet, null, planes of bytes or pixels for PNG

styleVars == <<job, stylePc, dot, lo, hi, pixels, image>>

Nothing == [as |-> "nothing"]
Null == [as |-> "null"]
Blank == [i \in 0 .. 4 * Area - 1 |-> 0]

-----------------------------------------------------------------------------
(* Numbers.                                                                *)

\* Conversion of a quotient, or of a number, to an integer type: towards zero.
Quotient(a, b) ==
  LET n == IF b < 0 THEN -a ELSE a
      d == IF b < 0 THEN -b ELSE b
  IN  IF n >= 0 THEN n \div d ELSE -((-n) \div d)
Trunc(v) == Unit * Quotient(v, Unit)
Cut(v) == IF job.whole THEN Trunc(v) ELSE v

Clamp255(n) == IF n < 0 THEN 0 ELSE IF n > 255 THEN 255 ELSE n

-----------------------------------------------------------------------------
(* The table of a job.  A ramp may claim one colour more than its arrays   *)
(* have room for: what is read beyond them can be anything.                *)

Count == job.count
At(i) == IF i < Len(job.table) THEN job.table[i + 1] ELSE job.beyond
V(i) == Cut(At(i).v)
Value == job.plane[dot]

\* valx == cr.Nodata compares with a double, valx == (T)nodatacolor.val does not.
IsNodata(v) == v = IF job.via = "script" THEN job.nodata.v ELSE Cut(job.nodata.v)

\* Between entry i - 1 and entry i, for a value v.  A style weighs with the values
\* as given and clamps the result; 0/0 as a byte can be anything.  The weights are
\* floats: where the exact colour is a whole number a channel can come out one less.
From(i) == IF job.via = "script" THEN V(i - 1) ELSE At(i - 1).v
Upto(i) == IF job.via = "script" THEN V(i) ELSE At(i).v
Weighted_Slip(i, v, k) == At(i - 1).c[k] * (v - From(i)) + At(i).c[k] * (Upto(i) - v)
Weighted(i, v, k) == At(i - 1).c[k] * (Upto(i) - v) + At(i).c[k] * (v - From(i))
Mixed(i, v, k) ==
  LET error == IF v \in {From(i), Upto(i)} THEN 0 ELSE job.rounding
      n == Quotient(Weighted(i, v, k) + error, Upto(i) - From(i))
  IN  IF job.via = "script" THEN n ELSE Clamp255(n)
Mixtures(i, v) ==
  IF i = 0 THEN {At(0).c}
  ELSE IF Upto(i) = From(i) THEN Undefined
  ELSE {[k \in 1 .. 4 |-> Mixed(i, v, k)]}
ColoursOf(i, v) == IF job.how = "linear" THEN Mixtures(i, v) ELSE {At(i).c}

-----------------------------------------------------------------------------
(* Layouts: the script's buffer has one plane for each channel, the others *)
(* four bytes for each pixel.                                              *)

Slot(p, k) == IF job.via = "script" THEN p + (k - 1) * Area ELSE 4 * p + (k - 1)
Put(c) ==
  pixels' = [pixels EXCEPT ![Slot(dot, 1)] = c[1], ![Slot(dot, 2)] = c[2],
                           ![Slot(dot, 3)] = c[3], ![Slot(dot, 4)] = c[4]]

\* RenderData2RgbaByPeStyle turns pixels into planes, rgbaData2Png planes into pixels.
Planes_Slip(b) == [i \in 0 .. 4 * Area - 1 |-> b[(i % 4) * Area + i \div 4]]
Planes(b) == [i \in 0 .. 4 * Area - 1 |-> b[4 * (i % Area) + i \div Area]]
Pixels(b) == [i \in 0 .. 4 * Area - 1 |-> b[(i % 4) * Area + i \div 4]]

-----------------------------------------------------------------------------
(* Styles that need no search: none (bytes as they are), gray, rgb, rgba.  *)

BandAt(s, i) == IF i <= Len(s.bands) THEN s.bands[i] ELSE 0
ChannelsOf(s) == IF s.type = "rgb" THEN 3 ELSE IF s.type = "rgba" THEN 4 ELSE 1
GoodBands(s, t) == \A i \in 1 .. ChannelsOf(s) : BandAt(s, i) \in 0 .. Len(t.bands) - 1
Works(s, t) == (s.type = "" \/ Len(s.ranges) >= ChannelsOf(s)) /\ (s.type = "" \/ GoodBands(s, t))

PlainBand(t, k) ==
  IF Len(t.bands) \in {3, 4} THEN t.bands[k] ELSE t.bands[1]
Plain(t, p) ==
  [k \in 1 .. 4 |->
     IF k = 4 /\ Len(t.bands) # 4 THEN 255 ELSE Clamp255(Quotient(PlainBand(t, k)[p], Unit))]

Stretched_Slip(v, r) ==
  IF v <= r.low \/ r.high = r.low THEN 0
  ELSE Quotient(255 * (v - r.low), r.high - r.low) % 256
Stretched(v, r) ==
  IF v <= r.low THEN 0
  ELSE IF v >= r.high THEN 255
  ELSE IF r.high = r.low THEN 0
  ELSE Quotient(255 * (v - r.low), r.high - r.low)
Stretch(s, t, p) ==
  LET v(i) == t.bands[BandAt(s, i) + 1][p]
      cut(x) == IF t.whole THEN Trunc(x) ELSE x
  IN  IF \E i \in 1 .. ChannelsOf(s) : v(i) = cut(s.nodata.v) THEN s.nodata.c
      ELSE [k \in 1 .. 4 |->
              IF s.type = "gray" THEN (IF k = 4 THEN 255 ELSE Stretched(v(1), s.ranges[1]))
              ELSE IF k > ChannelsOf(s) THEN 255 ELSE Stretched(v(k), s.ranges[k])]

Painted(s, t) ==
  [i \in 0 .. 4 * Area - 1 |->
     (IF s.type = "" THEN Plain(t, i \div 4) ELSE Stretch(s, t, i \div 4))[(i % 4) + 1]]

-----------------------------------------------------------------------------
Searched == {"discrete", "linear", "exact"}

StyleInit ==
  /\ job = [via |-> "none"]
  /\ stylePc = "idle"
  /\ dot = 0 /\ lo = 0 /\ hi = 0
  /\ pixels = Blank
  /\ image = Nothing

\* pe.ColorRamp() and its method add: a value becomes an integer in an Int32Array.
NewRamp ==
  /\ stylePc = "idle"
  /\ job' = [via |-> "ramp", table |-> <<>>, count |-> 0]
  /\ stylePc' = "build"
  /\ UNCHANGED <<dot, lo, hi, pixels, image>>

\* The guard lets one more in than the arrays hold.
AddColor_Slip ==
  /\ stylePc = "build" /\ job.count <= MaxColors + 1
  /\ \E v \in RampValues :
       job' = [job EXCEPT !.count = @ + 1,
                          !.table = IF job.count < MaxColors
                                    THEN Append(@, [v |-> Trunc(v), c |-> Palette[job.count + 1]])
                                    ELSE @]
  /\ UNCHANGED <<stylePc, dot, lo, hi, pixels, image>>
AddColor ==
  /\ stylePc = "build" /\ job.count <= MaxColors
  /\ \E v \in RampValues :
       job' = [job EXCEPT !.count = @ + 1,
                          !.table = IF job.count < MaxColors
                                    THEN Append(@, [v |-> Trunc(v), c |-> Palette[job.count + 1]])
                                    ELSE @]
  /\ UNCHANGED <<stylePc, dot, lo, hi, pixels, image>>

\* dataset.renderPsuedColor of a Dataset of bytes or shorts, with a table.
RoundingFor(how) == IF how = "linear" THEN Rounding ELSE {0}
Render(table, count, nodata) ==
  /\ \E t \in {d \in Data : d.whole}, how \in Searched, e \in nodata :
     \E b \in DOMAIN t.bands, u \in IF count > Len(table) THEN Beyond ELSE {e},
        r \in RoundingFor(how) :
       job' = [via |-> "script", how |-> how, whole |-> TRUE, table |-> table,
               count |-> count, nodata |-> e, beyond |-> u, rounding |-> r,
               plane |-> t.bands[b]]
  /\ stylePc' = "paint"
  /\ UNCHANGED <<dot, lo, hi, pixels, image>>

RenderRamp == stylePc = "build" /\ Render(job.table, job.count, RampNodata)

\* The engine's own colours, at equal steps over a range, each cut to an integer.
SpanTable(s, rounding) ==
  [i \in 1 .. s.count |->
     [v |-> Unit * Quotient(s.low * (s.count - 1) + (i - 1) * (s.high - s.low)
                              + IF i = 1 THEN 0 ELSE rounding, Unit * (s.count - 1)),
      c |-> Palette[i]]]
RenderSpan ==
  /\ stylePc = "idle"
  /\ \E s \in Spans, rounding \in Rounding :
       Render(SpanTable(s, rounding), s.count, {[e EXCEPT !.v = Trunc(@)] : e \in RampNodata})

\* By a style: the connector may find it unreadable; a style that does not work
\* gives no bytes, or the connector bytes that are all 0.
Result(via, s) ==
  IF via = "engine" \/ s.type \in Searched \cup {"other"}
  THEN stylePc' = "done" /\ image' = Null
  ELSE stylePc' = "made" /\ image' = [as |-> "planes", bytes |-> Blank]
RenderStyle(via, s, t) ==
  /\ \E r \in RoundingFor(s.type) :
       job' = [via |-> via, how |-> s.type, whole |-> t.whole, table |-> s.table,
               count |-> Len(s.table), nodata |-> s.nodata, beyond |-> s.nodata,
               rounding |-> r, style |-> s, tile |-> t,
               plane |-> IF GoodBands(s, t) THEN t.bands[BandAt(s, 1) + 1] ELSE t.bands[1]]
  /\ IF s.type \in Searched
     THEN IF GoodBands(s, t)
          THEN stylePc' = "paint" /\ UNCHANGED <<dot, pixels, image>>
          ELSE Result(via, s) /\ UNCHANGED <<dot, pixels>>
     ELSE IF s.type # "other" /\ Works(s, t)
          THEN stylePc' = "paint" /\ dot' = Area /\ pixels' = Painted(s, t) /\ UNCHANGED image
          ELSE Result(via, s) /\ UNCHANGED <<dot, pixels>>
  /\ UNCHANGED <<lo, hi>>

RenderTile ==
  /\ stylePc = "idle"
  /\ \E via \in {"connector", "engine"}, s \in Styles, t \in Data : RenderStyle(via, s, t)

Unreadable ==
  /\ stylePc = "idle"
  /\ stylePc' = "done" /\ image' = Null
  /\ UNCHANGED <<job, dot, lo, hi, pixels>>

-----------------------------------------------------------------------------
(* The search: Value2Color, value2rgba, upper_bound, binary_equal.         *)

PutOn(c) == Put(c) /\ dot' = dot + 1 /\ stylePc' = "paint" /\ UNCHANGED <<lo, hi>>

\* A value that needs no search: no data, or at the ends of the table; a table of
\* one colour, for exact, is compared as it is.
PaintDot ==
  /\ stylePc = "paint" /\ dot < Area
  /\ \/ /\ IsNodata(Value) \/ Count = 0
        /\ PutOn(job.nodata.c)
     \/ /\ ~IsNodata(Value) /\ Count = 1 /\ job.how = "exact"
        /\ PutOn(IF Value = At(0).v THEN At(0).c ELSE job.nodata.c)
     \/ /\ ~IsNodata(Value) /\ Count > 0 /\ job.how # "exact"
        /\ \/ Value <= V(0) /\ PutOn(At(0).c)
           \/ Value > V(0) /\ Value >= V(Count - 1) /\ PutOn(At(Count - 1).c)
     \/ /\ ~IsNodata(Value) /\ Count > 1
        /\ job.how = "exact" \/ (V(0) < Value /\ Value < V(Count - 1))
        /\ lo' = 0 /\ hi' = Count - 1 /\ stylePc' = "search"
        /\ UNCHANGED <<dot, pixels>>
  /\ UNCHANGED <<job, image>>

Found(i) == \E c \in ColoursOf(i, Value) : PutOn(c)

\* One pass through the loop.
Middle == (lo + hi) \div 2
SearchStep_Slip ==
  /\ stylePc = "search"
  /\ \/ /\ lo = hi - 1
        /\ IF Value = V(lo) THEN Found(lo)
           ELSE IF job.how # "exact" \/ Value = V(hi) THEN Found(hi)
           ELSE PutOn(job.nodata.c)
     \/ /\ lo < hi - 1 /\ Value = V(Middle)
        /\ Found(Middle)
     \/ /\ lo < hi - 1 /\ Value # V(Middle)
        /\ IF Value > V(Middle) THEN lo' = Middle /\ hi' = hi ELSE lo' = lo /\ hi' = Middle - 1
        /\ UNCHANGED <<dot, stylePc, pixels>>
  /\ UNCHANGED <<job, image>>
SearchStep_Loop ==
  /\ stylePc = "search"
  /\ \/ lo >= hi /\ Found(hi)
     \/ lo < hi /\ Value = V(Middle) /\ Found(Middle)
     \/ /\ lo < hi /\ Value # V(Middle)
        /\ IF Value > V(Middle) THEN lo' = Middle /\ hi' = hi ELSE lo' = lo /\ hi' = Middle
        /\ UNCHANGED <<dot, stylePc, pixels>>
  /\ UNCHANGED <<job, image>>
SearchStep ==
  /\ stylePc = "search"
  /\ \/ /\ lo = hi - 1
        /\ IF Value = V(lo) THEN Found(lo)
           ELSE IF job.how # "exact" \/ Value = V(hi) THEN Found(hi)
           ELSE PutOn(job.nodata.c)
     \/ /\ lo < hi - 1 /\ Value = V(Middle)
        /\ Found(Middle)
     \/ /\ lo < hi - 1 /\ Value # V(Middle)
        /\ IF Value > V(Middle) THEN lo' = Middle /\ hi' = hi ELSE lo' = lo /\ hi' = Middle
        /\ UNCHANGED <<dot, stylePc, pixels>>
  /\ UNCHANGED <<job, image>>

\* All pixels are painted.
PaintOver ==
  /\ stylePc = "paint" /\ dot = Area
  /\ IF job.via = "connector"
     THEN stylePc' = "made" /\ image' = [as |-> "planes", bytes |-> Planes(pixels)]
     ELSE /\ stylePc' = "done"
          /\ image' = [as |-> IF job.via = "script" THEN "planes" ELSE "pixels", bytes |-> pixels]
  /\ UNCHANGED <<job, dot, lo, hi, pixels>>

\* ConvertRgbaData2PngBinary of what the connector has given.
ToPng ==
  /\ stylePc = "made"
  /\ image' = [as |-> "pixels", bytes |-> Pixels(image.bytes)]
  /\ stylePc' = "done"
  /\ UNCHANGED <<job, dot, lo, hi, pixels>>

StyleNext ==
  \/ NewRamp \/ AddColor \/ RenderRamp \/ RenderSpan \/ RenderTile \/ Unreadable
  \/ PaintDot \/ SearchStep \/ PaintOver \/ ToPng

StyleSpec == StyleInit /\ [][StyleNext]_styleVars

\* The loops run on once they have begun.
StyleFair == WF_styleVars(PaintDot \/ SearchStep \/ PaintOver)

-----------------------------------------------------------------------------
(* Properties                                                              *)

\* Every variable stays in its domain; in particular the search reads at most one
\* entry beyond the arrays of a ramp, and none if no more than MaxColors were added.
StyleTypeOK ==
  /\ stylePc \in {"idle", "build", "paint", "search", "made", "done"}
  /\ dot \in 0 .. Area
  /\ lo \in Nat /\ hi \in Nat
  /\ pixels \in [0 .. 4 * Area - 1 -> Byte]
  /\ stylePc = "search" => lo < hi /\ hi <= Len(job.table)

\* What the caller sees in a pixel.
Shown(p) ==
  [k \in 1 .. 4 |-> image.bytes[IF image.as = "planes" THEN p + (k - 1) * Area ELSE 4 * p + k - 1]]
Painting == image.as \in {"planes", "pixels"} /\ job.how \in Searched
WithinArrays == Count <= Len(job.table)
Increasing == \A i, j \in 0 .. Count - 1 : i < j => V(i) < V(j)

\* A colour table in increasing order, whatever its length, gives each pixel the
\* colour it stands for: that of the first entry not below the value, or the last
\* (discrete), or that of the very value, or that for no data (exact); and the
\* conversions between layouts mix no pixels and no channels.
Looked(v, c) ==
  LET reach == {i \in 0 .. Count - 1 : v <= V(i)}
      same == {i \in 0 .. Count - 1 : v = IF Count = 1 THEN At(i).v ELSE V(i)}
  IN  IF IsNodata(v) THEN c = job.nodata.c
      ELSE IF job.how = "exact"
      THEN /\ same = {} => c = job.nodata.c
           /\ \A i \in same : c = At(i).c
      ELSE /\ reach = {} => c = At(Count - 1).c
           /\ \A i \in reach : (\A j \in reach : i <= j) => c = At(i).c
InOrder == WithinArrays /\ Increasing /\ Count > 0 /\ job.how # "linear"
LookupRight == Painting /\ InOrder => \A p \in Dots : Looked(job.plane[p], Shown(p))

\* A linear colour lies, in every channel, between the colours of two entries next
\* to each other whose values are around the value, or one below the lesser; or it
\* is that of an entry of the very value.  The table of a ramp may be in any order, but with no two equal
\* values next to each other; that of a style has whole numbers for integer types.
Between(c, a, b) ==
  \A k \in 1 .. 4 : \/ a[k] - 1 <= c[k] /\ c[k] <= b[k]
                    \/ b[k] - 1 <= c[k] /\ c[k] <= a[k]
Mixes(v, c) ==
  IF IsNodata(v) THEN c = job.nodata.c
  ELSE \/ v < V(0) /\ c = At(0).c
       \/ v > V(Count - 1) /\ c = At(Count - 1).c
       \/ \E i \in 0 .. Count - 1 : v = V(i) /\ c = At(i).c
       \/ \E i \in 1 .. Count - 1 : /\ V(i - 1) < v /\ v < V(i)
                                    /\ Between(c, At(i - 1).c, At(i).c)
Distinct ==
  /\ WithinArrays /\ Count > 0 /\ job.how = "linear"
  /\ \A i \in 1 .. Count - 1 : V(i - 1) # V(i)
  /\ \A i \in 0 .. Count - 1 : V(i) = At(i).v
LinearBetween == Painting /\ Distinct => \A p \in Dots : Mixes(job.plane[p], Shown(p))

\* A gray picture keeps the order of the values, even for a range that is upside
\* down or empty.
GrayOrdered ==
  image.as = "pixels" /\ job.how = "gray" /\ Works(job.style, job.tile) =>
    \A p, q \in Dots :
      ~IsNodata(job.plane[p]) /\ ~IsNodata(job.plane[q]) /\ job.plane[p] <= job.plane[q] =>
        Shown(p)[1] <= Shown(q)[1]

\* Every picture asked for comes to an end, whatever the table.
RenderEnds == (stylePc = "paint") ~> (stylePc \in {"made", "done"})

\* Each step of a picture leaves fewer to make, and a pass of a search at most half of
\* the entries: none of the four loops runs on for ever (PixelEngine.cpp:207-291).
StepsLeft ==
  CASE stylePc = "paint"  -> (Area - dot) * (Count + 2) + 1
    [] stylePc = "search" -> (Area - dot - 1) * (Count + 2) + 1 + (hi - lo)
    [] OTHER              -> 0
Halves == stylePc = "search" /\ stylePc' = "search" => hi' - lo' <= (hi - lo + 1) \div 2
RenderShortens ==
  [][(stylePc \in {"paint", "search"}) => StepsLeft' < StepsLeft /\ Halves]_styleVars

\* And there is always one to make, until the picture is done: the comparisons of each
\* pixel leave no case out, and a search never gets past its last two entries.
RenderGoesOn ==
  /\ StepsLeft \in Nat
  /\ stylePc \in {"paint", "search"} => StepsLeft > 0
  /\ stylePc = "paint" /\ dot < Area =>
       \/ IsNodata(Value) \/ Count = 0
       \/ Count = 1 /\ job.how = "exact"
       \/ Count > 0 /\ job.how # "exact" /\ Value <= V(0)
       \/ Count > 0 /\ job.how # "exact" /\ Value > V(0) /\ Value >= V(Count - 1)
       \/ Count > 1 /\ (job.how = "exact" \/ (V(0) < Value /\ Value < V(Count - 1)))
  /\ stylePc = "search" =>
       /\ lo = hi - 1 \/ lo < hi - 1
       /\ \A i \in {lo, Middle, hi} : ColoursOf(i, Value) # {}

-----------------------------------------------------------------------------
(* The strengthening of these properties that every step preserves.        *)

\* What a job holds once there is one.
Begun == job.via \in {"script", "connector", "engine"}
GoodJob ==
  /\ job.whole \in BOOLEAN
  /\ job.table \in Seq(Entry)
  /\ job.count \in Nat /\ job.count <= Len(job.table) + 1
  /\ job.nodata \in Entry
  /\ job.beyond \in Entry
  /\ job.plane \in [Dots -> Int]
  /\ job.rounding \in {-1, 0, 1}
  /\ job.via = "script" => job.whole /\ job.how \in Searched
JobInv ==
  /\ job.via \in {"none", "ramp", "script", "connector", "engine"}
  /\ stylePc = "idle" => job.via = "none" /\ dot = 0
  /\ stylePc = "build" <=> job.via = "ramp"
  /\ job.via = "ramp" =>
       /\ job \in [via : {"ramp"}, table : Seq(Entry), count : 0 .. MaxColors + 1]
       /\ dot = 0
       /\ Len(job.table) = IF job.count <= MaxColors THEN job.count ELSE MaxColors
  /\ stylePc \in {"paint", "search"} => Begun
  /\ Begun => GoodJob

\* The search closes in on the value: it lies strictly between the two entries, or,
\* if a table in order has it, the entry that has it does.
SearchInv ==
  /\ stylePc \in {"paint", "search"} => image = Nothing
  /\ stylePc = "paint" /\ dot < Area => job.how \in Searched
  /\ stylePc = "search" =>
       /\ job.how \in Searched /\ dot < Area /\ lo < hi /\ hi < Count
       /\ ~IsNodata(Value)
       /\ job.how # "exact" => V(lo) < Value /\ Value < V(hi)
       /\ job.how = "exact" /\ Increasing =>
            \A i \in 0 .. Count - 1 : V(i) = Value => lo <= i /\ i <= hi

\* What has been painted is right, pixel by pixel, and stays so in every layout.
InBuffer(p) == [k \in 1 .. 4 |-> pixels[Slot(p, k)]]
PaintedInv ==
  Begun /\ job.how \in Searched =>
    \A p \in Dots :
      p < dot =>
        /\ InOrder => Looked(job.plane[p], InBuffer(p))
        /\ Distinct => Mixes(job.plane[p], InBuffer(p))
GrayInv ==
  Begun /\ job.how = "gray" =>
    /\ job.via # "script"
    /\ job.style \in Style /\ job.tile \in Tile /\ job.style.type = "gray"
    /\ job.whole = job.tile.whole /\ job.nodata = job.style.nodata
    /\ Works(job.style, job.tile) =>
         /\ dot = Area
         /\ pixels = Painted(job.style, job.tile)
         /\ job.plane = job.tile.bands[BandAt(job.style, 1) + 1]
ImageInv ==
  /\ \/ image \in {Nothing, Null}
     \/ image.as \in {"planes", "pixels"} /\ image.bytes \in [0 .. 4 * Area - 1 -> Byte]
  /\ stylePc \in {"idle", "build"} => image = Nothing
  /\ stylePc = "made" => image.as = "planes" /\ job.via = "connector"
  /\ image.as \in {"planes", "pixels"} =>
       /\ Begun
       /\ stylePc = "made" \/ stylePc = "done"
       /\ (job.how \in Searched \/ (job.how = "gray" /\ Works(job.style, job.tile))) =>
            (dot = Area /\ \A p \in Dots : Shown(p) = InBuffer(p))

StyleIInv == StyleTypeOK /\ JobInv /\ SearchInv /\ PaintedInv /\ GrayInv /\ ImageInv
=============================================================================
