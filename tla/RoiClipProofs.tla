---------------------------- MODULE RoiClipProofs ----------------------------
(***************************************************************************)
(* Proofs about RoiClip: for tiles of any size, regions of any number of   *)
(* runs and lists for any number of zoom levels, the clipping routines     *)
(* keep the pixels of the region, and the statistics are those of its      *)
(* pixels.                                                                 *)
(***************************************************************************)
EXTENDS RoiClip, FiniteSetTheorems, WellFoundedInduction, TLAPS

-----------------------------------------------------------------------------
(* Division: which pixels lie in a cell.                                   *)

\* Pixel a lies in cell b of k pixels, or before it, or after it.
LEMMA CellBracket ==
  ASSUME NEW a \in Nat, NEW b \in Nat, NEW k \in Nat \ {0}
  PROVE  /\ a \div k \in Nat
         /\ b <= a \div k <=> b * k <= a
         /\ a \div k <= b <=> a < (b + 1) * k
<1> DEFINE q == a \div k
           r == a % k
<1>1. q \in Int /\ r \in 0 .. k - 1 /\ a = k * q + r
  BY Z3
<1>2. q >= 0
  <2> SUFFICES ASSUME q <= -1 PROVE FALSE
    BY <1>1
  <2>1. k * q <= k * (-1)
    BY <1>1, Z3
  <2> QED
    BY <1>1, <2>1
<1>3. ASSUME b <= q PROVE b * k <= a
  <2>1. b * k <= q * k
    BY <1>1, <1>3, Z3
  <2> QED
    BY <1>1, <2>1
<1>4. ASSUME q + 1 <= b PROVE a < b * k
  <2>1. (q + 1) * k <= b * k
    BY <1>1, <1>4, Z3
  <2>2. (q + 1) * k = k * q + k
    BY <1>1, Z3
  <2> QED
    BY <1>1, <2>1, <2>2
<1>5. ASSUME q <= b PROVE a < (b + 1) * k
  <2>1. (q + 1) * k <= (b + 1) * k
    BY <1>1, <1>5, Z3
  <2>2. (q + 1) * k = k * q + k
    BY <1>1, Z3
  <2> QED
    BY <1>1, <2>1, <2>2
<1>6. ASSUME b + 1 <= q PROVE (b + 1) * k <= a
  <2>1. (b + 1) * k <= q * k
    BY <1>1, <1>6, Z3
  <2> QED
    BY <1>1, <2>1
<1>7. b * k \in Nat /\ (b + 1) * k \in Nat
  BY Z3
<1> HIDE DEF q, r
<1> QED
  BY <1>1, <1>2, <1>3, <1>4, <1>5, <1>6, <1>7 DEF q

-----------------------------------------------------------------------------
(* The arguments of a call.                                                *)

Called == call.method \in ClipMethods /\ call \in CallsOf(call.method)
HasRuns == Called /\ (Flat \/ call.levels # <<>>)

LEMMA TileSize == Wid \in Nat /\ Hei \in Nat /\ Wid > 0 /\ Hei > 0
BY ClipAssumption

\* What the assumption says of a call that has been made.
LEMMA CallParts ==
  ASSUME HasRuns
  PROVE  /\ call.tile.z \in Nat /\ call.tile.y \in Nat /\ call.tile.x \in Nat
         /\ call.levels \in Seq({s \in Seq(Run) : SortedByRow(s)})
         /\ Len(call.levels) \in Nat \ {0}
         /\ \A n \in 0 .. call.tile.z : 2^n \in Nat /\ 2^n > 0
<1>1. call.tile \in Tiles /\ call.levels \in Regions[call.method]
  BY DEF HasRuns, Called, CallsOf
<1>2. call.tile \in [z : Nat, y : Nat, x : Nat]
  BY <1>1, ClipAssumption
<1>3. call.levels \in Seq({s \in Seq(Run) : SortedByRow(s)})
  BY <1>1, ClipAssumption DEF HasRuns, Called, Region
<1>4. Len(call.levels) \in Nat \ {0}
  <2>1. CASE Flat
    <3>1. Len(call.levels) = 1
      BY <1>1, <2>1, ClipAssumption DEF Flat
    <3> QED
      BY <3>1
  <2>2. CASE call.levels # <<>>
    BY <1>3, <2>2
  <2> QED
    BY <2>1, <2>2 DEF HasRuns
<1>5. \A n \in 0 .. call.tile.z : 2^n \in Nat \ {0}
  BY <1>1, ClipAssumption
<1> QED
  BY <1>2, <1>3, <1>4, <1>5

\* The list that is scanned, and what its runs are measured in.
LEMMA Arguments ==
  ASSUME HasRuns
  PROVE  /\ Top \in Nat /\ Left \in Nat /\ Bottom = Top + Hei /\ Right = Left + Wid
         /\ SortedByRow(Runs) /\ DOMAIN Runs = 1 .. Len(Runs) /\ Len(Runs) \in Nat
         /\ \A i \in 1 .. Len(Runs) :
               /\ Runs[i] \in Run
               /\ Runs[i].y \in Nat /\ Runs[i].x0 \in Nat /\ Runs[i].x1 \in Nat
         /\ Scale \in Nat /\ Scale > 0 /\ Cell = Scale
         /\ Flat => Scale = 1
<1>1. Level \in 1 .. Len(call.levels)
  BY CallParts DEF Level
<1>2. /\ Top \in Nat /\ Left \in Nat /\ Bottom = Top + Hei /\ Right = Left + Wid
  <2>1. \A a \in Nat, b \in Nat : a * b \in Nat
    BY Z3
  <2> QED
    BY <2>1, CallParts, TileSize DEF Top, Bottom, Left, Right
<1>3. Runs \in Seq(Run) /\ SortedByRow(Runs)
  <2> DEFINE i == IF Flat THEN 1 ELSE Level
  <2>1. i \in 1 .. Len(call.levels)
    BY <1>1, CallParts
  <2>2. call.levels[i] \in {s \in Seq(Run) : SortedByRow(s)}
    BY <2>1, CallParts
  <2> QED
    BY <2>2 DEF Runs
<1>4. /\ DOMAIN Runs = 1 .. Len(Runs) /\ Len(Runs) \in Nat
      /\ \A i \in 1 .. Len(Runs) :
            /\ Runs[i] \in Run
            /\ Runs[i].y \in Nat /\ Runs[i].x0 \in Nat /\ Runs[i].x1 \in Nat
  <2>1. \A r \in Run : r.y \in Nat /\ r.x0 \in Nat /\ r.x1 \in Nat
    BY DEF Run
  <2> QED
    BY <1>3, <2>1
<1>5. Scale \in Nat /\ Scale > 0 /\ Cell = Scale
  <2>1. CASE Flat
    BY <2>1 DEF Scale, Cell
  <2>2. CASE ~Flat /\ call.tile.z < Len(call.levels)
    <3>1. call.tile.z - (Level - 1) = 0
      BY <2>2, CallParts DEF Level
    <3>2. 2^0 = 1
      BY ClipAssumption
    <3>3. Cell = 2^0 /\ Scale = 1
      BY <2>2, <3>1 DEF Scale, Cell
    <3> QED
      BY <3>2, <3>3
  <2>3. CASE ~Flat /\ ~(call.tile.z < Len(call.levels))
    <3>1. Deeper = call.tile.z - (Level - 1) /\ Deeper \in 0 .. call.tile.z
      BY <2>3, CallParts DEF Level, Deeper
    <3>2. 2^Deeper \in Nat /\ 2^Deeper > 0
      BY <3>1, CallParts
    <3> QED
      BY <2>3, <3>1, <3>2 DEF Scale, Cell
  <2> QED
    BY <2>1, <2>2, <2>3
<1> QED
  BY <1>2, <1>3, <1>4, <1>5 DEF Scale

\* The pixels of a tile.
LEMMA PixelParts ==
  ASSUME HasRuns, NEW p \in Pixel
  PROVE  /\ p = <<p[1], p[2]>> /\ p[1] \in 0 .. Wid - 1 /\ p[2] \in 0 .. Hei - 1
         /\ Left + p[1] \in Nat /\ Top + p[2] \in Nat
<1>1. p = <<p[1], p[2]>> /\ p[1] \in 0 .. Wid - 1 /\ p[2] \in 0 .. Hei - 1
  BY DEF Pixel
<1> QED
  BY <1>1, Arguments, TileSize

\* A run of clip holds the pixels of its row from x0 to before x1.
LEMMA FlatHolds ==
  ASSUME HasRuns, call.method = "clip", NEW i \in DOMAIN Runs, NEW p \in Pixel
  PROVE  RunHolds(Runs[i], p) <=> /\ Runs[i].y = Top + p[2]
                                  /\ Runs[i].x0 <= Left + p[1]
                                  /\ Left + p[1] < Runs[i].x1
<1>1. Cell = 1
  BY DEF Cell, Flat
<1>2. Left + p[1] \in Nat /\ Top + p[2] \in Nat
  BY PixelParts
<1>3. (Left + p[1]) \div Cell = Left + p[1] /\ (Top + p[2]) \div Cell = Top + p[2]
  BY <1>1, <1>2, Z3
<1> QED
  BY <1>3 DEF RunHolds

\* A run of a list for a level holds a block of pixels, Cell high.
LEMMA LevelHolds ==
  ASSUME HasRuns, ~Flat, NEW i \in DOMAIN Runs, NEW p \in Pixel
  PROVE  RunHolds(Runs[i], p) <=> /\ Runs[i].y * Scale <= Top + p[2]
                                  /\ Top + p[2] < (Runs[i].y + 1) * Scale
                                  /\ Runs[i].x0 * Scale <= Left + p[1]
                                  /\ Left + p[1] < (Runs[i].x1 + 1) * Scale
<1> DEFINE x == (Left + p[1]) \div Scale
           y == (Top + p[2]) \div Scale
<1>1. Scale \in Nat \ {0} /\ Cell = Scale
  BY Arguments
<1>2. /\ Runs[i].y \in Nat /\ Runs[i].x0 \in Nat /\ Runs[i].x1 \in Nat
      /\ Left + p[1] \in Nat /\ Top + p[2] \in Nat
  BY PixelParts, Arguments
<1>3. /\ x \in Nat /\ y \in Nat
      /\ Runs[i].y <= y <=> Runs[i].y * Scale <= Top + p[2]
      /\ y <= Runs[i].y <=> Top + p[2] < (Runs[i].y + 1) * Scale
      /\ Runs[i].x0 <= x <=> Runs[i].x0 * Scale <= Left + p[1]
      /\ x <= Runs[i].x1 <=> Left + p[1] < (Runs[i].x1 + 1) * Scale
  BY <1>1, <1>2, CellBracket
<1>4. RunHolds(Runs[i], p) <=> Runs[i].y = y /\ Runs[i].x0 <= x /\ x <= Runs[i].x1
  BY <1>1 DEF RunHolds, Flat
<1> HIDE DEF x, y
<1> QED
  BY <1>2, <1>3, <1>4

-----------------------------------------------------------------------------
(* What one pass of a scan does.                                           *)

\* In clip, the run at hand meets the tile in the row at hand and adds just the
\* pixels it holds; or it holds no pixel of that row.
LEMMA RowRunExact ==
  ASSUME HasRuns, call.method = "clip", run \in DOMAIN Runs, row \in Top .. Bottom - 1
  PROVE  /\ Meets => RowRun = {p \in Pixel : RunHolds(Current, p)}
         /\ Current.y = row /\ ~Meets => \A p \in Pixel : ~RunHolds(Current, p)
<1>1. Top \in Nat /\ Left \in Nat /\ Bottom = Top + Hei /\ Right = Left + Wid
  BY Arguments
<1>2. Current.y \in Nat /\ Current.x0 \in Nat /\ Current.x1 \in Nat
  BY Arguments DEF Current
<1>3. \A p \in Pixel :
        /\ RunHolds(Current, p) <=> /\ Current.y = Top + p[2]
                                    /\ Current.x0 <= Left + p[1]
                                    /\ Left + p[1] < Current.x1
        /\ p = <<p[1], p[2]>> /\ p[1] \in 0 .. Wid - 1 /\ p[2] \in 0 .. Hei - 1
  BY FlatHolds, PixelParts DEF Current
<1>4. ASSUME Current.y = row, ~Meets, NEW p \in Pixel, RunHolds(Current, p)
      PROVE  FALSE
  BY <1>1, <1>2, <1>3, <1>4, TileSize DEF Meets
<1>5. ASSUME Meets
      PROVE  RowRun = {p \in Pixel : RunHolds(Current, p)}
  <2>1. Current.y = row
    BY <1>5 DEF Meets
  <2>2. ASSUME NEW p \in RowRun
        PROVE  p \in Pixel /\ RunHolds(Current, p)
    <3>1. PICK x \in Larger(Left, Current.x0) - Left .. Smaller(Right, Current.x1) - Left - 1 :
            p = <<x, row - Top>>
      BY <2>2 DEF RowRun
    <3>2. /\ x \in 0 .. Wid - 1 /\ row - Top \in 0 .. Hei - 1
          /\ Current.x0 <= Left + x /\ Left + x < Current.x1
      BY <1>1, <1>2, <3>1, TileSize DEF Larger, Smaller
    <3>3. p \in Pixel
      BY <3>1, <3>2 DEF Pixel
    <3> QED
      BY <1>1, <1>2, <1>3, <2>1, <3>1, <3>2, <3>3
  <2>3. ASSUME NEW p \in Pixel, RunHolds(Current, p)
        PROVE  p \in RowRun
    <3>1. /\ p = <<p[1], row - Top>>
          /\ p[1] \in Larger(Left, Current.x0) - Left .. Smaller(Right, Current.x1) - Left - 1
      BY <1>1, <1>2, <1>3, <2>1, <2>3, TileSize DEF Larger, Smaller
    <3> QED
      BY <3>1 DEF RowRun
  <2> QED
    BY <2>2, <2>3
<1> QED
  BY <1>4, <1>5

\* The run with index i is behind the cursor.
Behind(i) == Runs[i].y < row \/ (Runs[i].y = row /\ i < run)
Ordered == \A i \in 1 .. run - 1 : Runs[i].y <= row

\* The cursor passes one run, or none of the row that it leaves.
LEMMA AdvanceStep ==
  ASSUME HasRuns, UNCHANGED call, row \in Nat, run \in 1 .. Len(Runs), Ordered, Advance
  PROVE  /\ row' \in {row, row + 1} /\ run' \in 1 .. Len(Runs)'
         /\ Ordered'
         /\ \A i \in DOMAIN Runs : Behind(i)' => Behind(i) \/ (i = run /\ Runs[i].y = row)
<1>1. Runs' = Runs
  BY DEF Runs, Flat, Level
<1>2. SortedByRow(Runs) /\ DOMAIN Runs = 1 .. Len(Runs) /\ Len(Runs) \in Nat
  BY Arguments
<1>3. \A i \in 1 .. Len(Runs) : Runs[i].y \in Nat
  BY Arguments
<1>4. Current = Runs[run]
  BY DEF Current
<1>5. \A i, j \in 1 .. Len(Runs) : i < j => Runs[i].y <= Runs[j].y
  BY <1>2 DEF SortedByRow
<1>6. CASE Current.y > row
  <2>1. row' = row + 1 /\ run' = run
    BY <1>6 DEF Advance
  <2>2. Ordered'
    BY <1>1, <1>3, <2>1 DEF Ordered
  <2>3. ASSUME NEW i \in 1 .. Len(Runs), Behind(i)'
        PROVE  Behind(i)
    <3>1. Runs[i].y <= row + 1 /\ (Runs[i].y = row + 1 => i < run)
      BY <1>1, <1>3, <2>1, <2>3 DEF Behind
    <3>2. Runs[i].y <= row
      BY <1>3, <3>1 DEF Ordered
    <3>3. i < run
      <4> SUFFICES ASSUME run <= i PROVE FALSE
        OBVIOUS
      <4>1. Runs[run].y <= Runs[i].y
        BY <1>5, <1>3
      <4> QED
        BY <1>3, <1>4, <1>6, <3>2, <4>1
    <3> QED
      BY <1>3, <3>2, <3>3 DEF Behind
  <2> QED
    BY <1>1, <1>2, <2>1, <2>2, <2>3
<1>7. CASE ~(Current.y > row) /\ run = Len(Runs)
  <2>1. row' = row + 1 /\ run' = run
    BY <1>7 DEF Advance
  <2>2. Ordered'
    BY <1>1, <1>3, <2>1 DEF Ordered
  <2>3. ASSUME NEW i \in 1 .. Len(Runs), Behind(i)'
        PROVE  Behind(i) \/ (i = run /\ Runs[i].y = row)
    <3>1. Runs[i].y <= row + 1 /\ (Runs[i].y = row + 1 => i < run)
      BY <1>1, <1>3, <2>1, <2>3 DEF Behind
    <3>2. Runs[i].y <= row
      BY <1>3, <3>1 DEF Ordered
    <3> QED
      BY <1>3, <1>7, <3>2 DEF Behind
  <2> QED
    BY <1>1, <1>2, <2>1, <2>2, <2>3
<1>8. CASE ~(Current.y > row) /\ run # Len(Runs)
  <2>1. row' = row /\ run' = run + 1
    BY <1>8 DEF Advance
  <2>2. Ordered'
    <3> SUFFICES ASSUME NEW i \in 1 .. run PROVE Runs[i].y <= row
      BY <1>1, <2>1 DEF Ordered
    <3>1. CASE i = run
      BY <1>3, <1>4, <1>8, <3>1
    <3>2. CASE i # run
      BY <3>2 DEF Ordered
    <3> QED
      BY <3>1, <3>2
  <2>3. ASSUME NEW i \in 1 .. Len(Runs), Behind(i)'
        PROVE  Behind(i) \/ (i = run /\ Runs[i].y = row)
    BY <1>1, <1>3, <2>1, <2>3 DEF Behind
  <2>4. row' \in {row, row + 1} /\ run' \in 1 .. Len(Runs)'
    <3>1. run \in 1 .. Len(Runs) /\ run # Len(Runs) /\ Len(Runs) \in Nat
      BY <1>2, <1>8
    <3>2. run' \in 1 .. Len(Runs)
      BY <2>1, <3>1
    <3> QED
      BY <1>1, <2>1, <3>2
  <2> QED
    BY <1>2, <2>2, <2>3, <2>4
<1> QED
  BY <1>6, <1>7, <1>8

\* In the other scan, the run at hand adds just the pixels it holds; or it holds
\* none; and when it is below the tile, so are all that follow.
LEMMA LevelRunExact ==
  ASSUME HasRuns, ~Flat, run \in DOMAIN Runs
  PROVE  /\ ~(Top >= RunBottom) /\ ~(Bottom <= RunTop)
              => LevelRun = {p \in Pixel : RunHolds(Current, p)}
         /\ Top >= RunBottom => \A p \in Pixel : ~RunHolds(Current, p)
         /\ Bottom <= RunTop =>
              \A i \in run .. Len(Runs), p \in Pixel : ~RunHolds(Runs[i], p)
<1>1. /\ Top \in Nat /\ Left \in Nat /\ Bottom = Top + Hei /\ Right = Left + Wid
      /\ DOMAIN Runs = 1 .. Len(Runs) /\ Len(Runs) \in Nat
      /\ SortedByRow(Runs) /\ Scale \in Nat /\ Scale > 0
  BY Arguments
<1>2. /\ Current.y \in Nat /\ Current.x0 \in Nat /\ Current.x1 \in Nat
      /\ Current = Runs[run]
  BY Arguments DEF Current
<1> DEFINE x0 == Current.x0 * Scale
           x1 == (Current.x1 + 1) * Scale
<1>3. /\ RunTop \in Nat /\ RunBottom = RunTop + Scale /\ x0 \in Nat /\ x1 \in Nat
      /\ (Current.y + 1) * Scale = RunBottom
  <2>1. \A a \in Nat, b \in Nat : a * b \in Nat
    BY Z3
  <2>2. \A a \in Nat, b \in Nat : (a + 1) * b = a * b + b
    BY Z3
  <2>3. Current.y \in Nat /\ Current.x0 \in Nat /\ Current.x1 + 1 \in Nat /\ Scale \in Nat
    BY <1>1, <1>2
  <2>4. RunTop \in Nat
    BY <2>1, <2>3 DEF RunTop
  <2>5. x0 \in Nat
    BY <2>1, <2>3
  <2>6. x1 \in Nat
    BY <2>1, <2>3
  <2>7. (Current.y + 1) * Scale = RunBottom
    BY <2>2, <2>3 DEF RunTop, RunBottom
  <2> HIDE DEF x0, x1
  <2> QED
    BY <2>4, <2>5, <2>6, <2>7 DEF RunBottom
<1>4. \A p \in Pixel :
        /\ RunHolds(Current, p) <=> /\ RunTop <= Top + p[2]
                                    /\ Top + p[2] < RunBottom
                                    /\ x0 <= Left + p[1]
                                    /\ Left + p[1] < x1
        /\ p = <<p[1], p[2]>> /\ p[1] \in 0 .. Wid - 1 /\ p[2] \in 0 .. Hei - 1
  BY <1>2, <1>3, LevelHolds, PixelParts DEF RunTop
<1> HIDE DEF x0, x1
<1>5. ASSUME NEW p PROVE p \in LevelRun <=> p \in Pixel /\ RunHolds(Current, p)
  <2>1. LevelColumns = {x \in 0 .. Wid - 1 : x0 <= Left + x /\ Left + x < x1}
    <3>1. LevelColumns = Larger(0, x0 - Left) .. Smaller(Wid, x1 - Left) - 1
      BY DEF LevelColumns, x0, x1
    <3>2. /\ Larger(0, x0 - Left) \in Nat /\ Smaller(Wid, x1 - Left) - 1 \in Int
          /\ Larger(0, x0 - Left) >= x0 - Left
          /\ Smaller(Wid, x1 - Left) <= Wid /\ Smaller(Wid, x1 - Left) <= x1 - Left
      BY <1>1, <1>3, TileSize DEF Larger, Smaller
    <3>3. ASSUME NEW x \in LevelColumns
          PROVE  x \in 0 .. Wid - 1 /\ x0 <= Left + x /\ Left + x < x1
      BY <1>1, <1>3, <3>1, <3>2, TileSize DEF Smaller
    <3>4. ASSUME NEW x \in 0 .. Wid - 1, x0 <= Left + x, Left + x < x1
          PROVE  x \in LevelColumns
      BY <1>1, <1>3, <3>1, <3>4, TileSize DEF Larger, Smaller
    <3> QED
      BY <3>3, <3>4
  <2>2. LevelRows = {y \in 0 .. Hei - 1 : RunTop <= Top + y /\ Top + y < RunBottom}
    <3>1. ASSUME NEW y \in 0 .. Hei - 1, RunTop <= Top + y, Top + y < RunBottom
          PROVE  y \in {r - Top : r \in RunTop .. RunBottom - 1}
      <4>1. Top + y \in RunTop .. RunBottom - 1 /\ y = (Top + y) - Top
        BY <1>1, <1>3, <3>1, TileSize
      <4> QED
        BY <4>1
    <3>2. ASSUME NEW r \in RunTop .. RunBottom - 1
          PROVE  RunTop <= Top + (r - Top) /\ Top + (r - Top) < RunBottom
      <4>1. r \in Int /\ RunTop <= r /\ r < RunBottom /\ Top \in Int
        BY <1>1, <1>3
      <4>2. Top + (r - Top) = r
        BY <4>1
      <4> QED
        BY <4>1, <4>2
    <3> QED
      BY <3>1, <3>2 DEF LevelRows
  <2>3. p \in LevelRun <=> \E x \in LevelColumns, y \in LevelRows : p = <<x, y>>
    BY DEF LevelRun
  <2>4. ASSUME NEW x \in LevelColumns, NEW y \in LevelRows, p = <<x, y>>
        PROVE  p \in Pixel /\ RunHolds(Current, p)
    <3>1. x \in 0 .. Wid - 1 /\ y \in 0 .. Hei - 1 /\ p[1] = x /\ p[2] = y
      BY <2>1, <2>2, <2>4
    <3>2. p \in Pixel
      BY <2>4, <3>1 DEF Pixel
    <3> QED
      BY <1>4, <2>1, <2>2, <2>4, <3>1, <3>2
  <2>5. ASSUME p \in Pixel, RunHolds(Current, p)
        PROVE  p[1] \in LevelColumns /\ p[2] \in LevelRows /\ p = <<p[1], p[2]>>
    BY <1>4, <2>1, <2>2, <2>5
  <2> QED
    BY <2>3, <2>4, <2>5
<1>6. ASSUME Top >= RunBottom, NEW p \in Pixel PROVE ~RunHolds(Current, p)
  <2>1. p[2] \in Nat /\ (RunHolds(Current, p) => Top + p[2] < RunBottom)
    BY <1>4, TileSize
  <2> QED
    BY <1>1, <1>3, <1>6, <2>1
<1>7. ASSUME Bottom <= RunTop, NEW i \in run .. Len(Runs), NEW p \in Pixel
      PROVE  ~RunHolds(Runs[i], p)
  <2>1. i \in 1 .. Len(Runs) /\ run \in 1 .. Len(Runs) /\ Runs[i].y \in Nat
    BY <1>1, Arguments
  <2>2. Current.y <= Runs[i].y
    BY <1>1, <1>2, <2>1 DEF SortedByRow
  <2>3. RunTop <= Runs[i].y * Scale /\ Runs[i].y * Scale \in Nat
    <3>1. \A a \in Nat, b \in Nat, k \in Nat : a <= b => a * k <= b * k /\ b * k \in Nat
      BY Z3
    <3> QED
      BY <1>1, <1>2, <2>1, <2>2, <3>1 DEF RunTop
  <2>4. p[2] \in 0 .. Hei - 1 /\ (RunHolds(Runs[i], p) => Runs[i].y * Scale <= Top + p[2])
    BY <1>4, <2>1, LevelHolds
  <2> QED
    BY <1>1, <1>3, <1>7, <2>3, <2>4, TileSize
<1>8. ~(Top >= RunBottom) /\ ~(Bottom <= RunTop) => LevelRun = {p \in Pixel : RunHolds(Current, p)}
  BY <1>5
<1> QED
  BY <1>6, <1>7, <1>8

-----------------------------------------------------------------------------
(* The inductive invariant.                                                *)

\* In a step of a scan the call stays, and with it everything read from it.
LEMMA Frame ==
  ASSUME UNCHANGED call
  PROVE  /\ Runs' = Runs /\ Top' = Top /\ Bottom' = Bottom /\ Covered' = Covered
         /\ Called' = Called /\ HasRuns' = HasRuns /\ Flat' = Flat
         /\ MayOverlap' = MayOverlap /\ BeginsBelow' = BeginsBelow
         /\ \A r, p : RunHolds(r, p)' <=> RunHolds(r, p)
<1>1. Flat' = Flat /\ Level' = Level /\ Deeper' = Deeper
  BY DEF Flat, Level, Deeper
<1>2. Runs' = Runs /\ Top' = Top /\ Bottom' = Bottom /\ Left' = Left /\ Scale' = Scale
  BY <1>1 DEF Runs, Top, Bottom, Left, Scale
<1>3. FirstRow' = FirstRow /\ LastRow' = LastRow
  BY <1>2 DEF FirstRow, LastRow
<1>4. MayOverlap' = MayOverlap /\ BeginsBelow' = BeginsBelow
  BY <1>2, <1>3 DEF MayOverlap, BeginsBelow
<1>5. Cell' = Cell
  BY <1>1 DEF Cell
<1>6. \A r, p : RunHolds(r, p)' <=> RunHolds(r, p)
  BY <1>2, <1>5 DEF RunHolds
<1>7. Covered' = Covered
  BY <1>2, <1>6 DEF Covered, InRegion
<1>8. Called' = Called
  BY DEF Called, CallsOf
<1>9. HasRuns' = HasRuns
  BY <1>1, <1>8 DEF HasRuns
<1> QED
  BY <1>1, <1>2, <1>4, <1>6, <1>7, <1>8, <1>9

\* In clip's two scans no run behind the cursor holds a pixel, or the copying has
\* kept all that it holds; in the other scan, the runs before the one at hand.
ScanInv ==
  /\ HasRuns /\ call.method = "clip"
  /\ row \in Top .. Bottom /\ run \in 1 .. Len(Runs) /\ Ordered
  /\ \A i \in DOMAIN Runs, p \in Pixel :
       Behind(i) /\ RunHolds(Runs[i], p) => clipPc = "copy" /\ p \in kept
LevelInv ==
  /\ HasRuns /\ ~Flat /\ MayOverlap /\ run \in 1 .. Len(Runs) + 1
  /\ call.method # "statistic" =>
       \A i \in 1 .. run - 1, p \in Pixel : RunHolds(Runs[i], p) => p \in kept
ClipInv ==
  /\ clipPc = "idle" => call = None
  /\ clipPc # "idle" => Called
  /\ clipPc \in {"idle", "called"} => run = 1
  /\ clipPc \in {"idle", "called", "outside"} => kept = {}
  /\ clipPc # "done" => answer = "none"
  /\ clipPc \in {"outside", "copy"} => ScanInv
  /\ clipPc = "level" => LevelInv
  /\ ClipExact
  /\ LevelClipExact

\* A pixel is covered if and only if a run holds it.
LEMMA CoveredHas ==
  ASSUME NEW p
  PROVE  p \in Covered <=> p \in Pixel /\ \E i \in DOMAIN Runs : RunHolds(Runs[i], p)
BY DEF Covered, InRegion

\* A region whose first run is below the tile, or that has no runs, covers
\* nothing of it; nor does one whose last run is above it, in clip.
LEMMA NoOverlap ==
  ASSUME HasRuns, ~MayOverlap, call.method = "clip" \/ ~Flat
  PROVE  /\ BeginsBelow \/ Covered = {}
         /\ call.method = "clip" => Covered = {}
<1>1. /\ Top \in Nat /\ Bottom = Top + Hei /\ Scale \in Nat /\ Scale > 0
      /\ SortedByRow(Runs) /\ DOMAIN Runs = 1 .. Len(Runs) /\ Len(Runs) \in Nat
      /\ \A i \in 1 .. Len(Runs) : Runs[i].y \in Nat
  BY Arguments
<1>2. ASSUME NEW i \in 1 .. Len(Runs), NEW p \in Pixel, RunHolds(Runs[i], p)
      PROVE  Runs[i].y * Scale < Bottom /\ (call.method = "clip" => Runs[i].y * Scale >= Top)
  <2>1. p[2] \in 0 .. Hei - 1
    BY PixelParts
  <2>2. CASE call.method = "clip"
    <3>1. Runs[i].y = Top + p[2] /\ Scale = 1
      BY <1>1, <1>2, <2>2, FlatHolds DEF Scale, Flat
    <3>2. Runs[i].y * Scale = Runs[i].y
      BY <1>1, <3>1
    <3> QED
      BY <1>1, <2>1, <3>1, <3>2, TileSize
  <2>3. CASE ~Flat
    <3>1. Runs[i].y * Scale <= Top + p[2]
      BY <1>1, <1>2, <2>3, LevelHolds
    <3>2. Runs[i].y * Scale \in Nat
      <4>1. \A a \in Nat, b \in Nat : a * b \in Nat
        BY Z3
      <4> QED
        BY <1>1, <4>1
    <3> QED
      BY <1>1, <2>1, <2>3, <3>1, <3>2, TileSize DEF Flat
  <2> QED
    BY <2>2, <2>3
<1>3. ASSUME NEW i \in 1 .. Len(Runs)
      PROVE  /\ Runs # <<>> /\ FirstRow \in Nat /\ LastRow \in Nat
             /\ Runs[i].y * Scale \in Nat
             /\ FirstRow <= Runs[i].y * Scale /\ Runs[i].y * Scale <= LastRow
  <2>1. \A a \in Nat, b \in Nat, k \in Nat : a <= b => a * k <= b * k /\ a * k \in Nat /\ b * k \in Nat
    BY Z3
  <2>2. Runs # <<>> /\ 1 \in 1 .. Len(Runs) /\ Len(Runs) \in 1 .. Len(Runs)
    BY <1>1
  <2>3. Runs[1].y <= Runs[i].y /\ Runs[i].y <= Runs[Len(Runs)].y
    BY <1>1, <2>2 DEF SortedByRow
  <2>4. Runs[1].y \in Nat /\ Runs[i].y \in Nat /\ Runs[Len(Runs)].y \in Nat
    BY <1>1, <2>2
  <2>5. FirstRow <= Runs[i].y * Scale /\ FirstRow \in Nat
    BY <1>1, <2>1, <2>3, <2>4 DEF FirstRow
  <2>6. Runs[i].y * Scale <= LastRow /\ LastRow \in Nat /\ Runs[i].y * Scale \in Nat
    BY <1>1, <2>1, <2>3, <2>4 DEF LastRow
  <2> QED
    BY <2>2, <2>5, <2>6
<1>4. ASSUME NEW p \in Covered
      PROVE  BeginsBelow /\ call.method # "clip"
  <2>1. PICK i \in 1 .. Len(Runs) : p \in Pixel /\ RunHolds(Runs[i], p)
    BY <1>1, <1>4, CoveredHas
  <2> DEFINE y == Runs[i].y * Scale
  <2>2. y < Bottom /\ (call.method = "clip" => y >= Top)
    BY <1>2, <2>1
  <2>3. /\ Runs # <<>> /\ FirstRow \in Nat /\ LastRow \in Nat /\ y \in Nat
        /\ FirstRow <= y /\ y <= LastRow
    BY <1>3
  <2> HIDE DEF y
  <2>4. Top \in Nat /\ Bottom \in Nat
    BY <1>1, TileSize
  <2>5. FirstRow < Bottom
    BY <2>2, <2>3, <2>4
  <2>6. ~(LastRow >= Top)
    BY <2>3, <2>5 DEF MayOverlap
  <2> QED
    BY <2>2, <2>3, <2>4, <2>6 DEF BeginsBelow
<1> QED
  BY <1>4

\* At the top row of a tile no run behind the cursor holds a pixel of it; at the
\* bottom row every run that holds one is behind.
LEMMA CursorEnds ==
  ASSUME HasRuns, call.method = "clip", NEW i \in DOMAIN Runs, NEW p \in Pixel,
         RunHolds(Runs[i], p)
  PROVE  /\ ~(Runs[i].y < Top \/ (Runs[i].y = Top /\ i < 1))
         /\ row = Bottom => Behind(i)
<1>1. /\ Top \in Nat /\ Bottom = Top + Hei /\ DOMAIN Runs = 1 .. Len(Runs)
      /\ Len(Runs) \in Nat /\ Runs[i].y \in Nat
  BY Arguments
<1>2. Runs[i].y = Top + p[2] /\ p[2] \in 0 .. Hei - 1
  BY FlatHolds, PixelParts
<1> QED
  BY <1>1, <1>2, TileSize DEF Behind

-----------------------------------------------------------------------------
(* The invariant holds, one lemma for each kind of step.                   *)

LEMMA ClipInvInit == ClipInit => ClipInv
BY DEF ClipInit, ClipInv, None, ClipExact, LevelClipExact

LEMMA ClipInvRequest == ClipInv /\ Request => ClipInv'
<1> SUFFICES ASSUME ClipInv, Request PROVE ClipInv'
  OBVIOUS
<1>1. clipPc' = "called" /\ run' = 1 /\ kept' = {} /\ answer' = "none"
  BY DEF ClipInv, Request
<1>2. Called'
  BY DEF Request, Called, CallsOf
<1> QED
  BY <1>1, <1>2 DEF ClipInv, ClipExact, LevelClipExact

\* clip is at its start, or just found a run in the tile: both scans start from
\* the top row and the first run.
LEMMA ScanStart ==
  ASSUME HasRuns, call.method = "clip", Runs # <<>>, UNCHANGED call,
         row' = Top, run' = 1
  PROVE  ScanInv'
<1>1. /\ Top \in Nat /\ Bottom = Top + Hei /\ DOMAIN Runs = 1 .. Len(Runs)
      /\ Len(Runs) \in Nat
  BY Arguments
<1>3. row' \in Top .. Bottom /\ run' \in 1 .. Len(Runs)
  BY <1>1, TileSize
<1>4. Ordered'
  BY DEF Ordered
<1>5. \A i \in DOMAIN Runs, p \in Pixel : ~(Behind(i)' /\ RunHolds(Runs[i], p))
  BY CursorEnds, Frame DEF Behind
<1> QED
  BY <1>1, <1>3, <1>4, <1>5, Frame DEF ScanInv

LEMMA ClipInvScriptClip == ClipInv /\ ScriptClip => ClipInv'
<1> SUFFICES ASSUME ClipInv, ScriptClip PROVE ClipInv'
  OBVIOUS
<1>1. /\ Called /\ call.method = "clip" /\ UNCHANGED call /\ row' = Top /\ run' = 1
      /\ kept' = {} /\ answer = "none" /\ HasRuns
  BY DEF ClipInv, ScriptClip, HasRuns, Flat
<1>2. CASE MayOverlap
  <2>1. clipPc' = "outside" /\ answer' = "none"
    BY <1>1, <1>2 DEF ScriptClip, Scan
  <2>2. ScanInv'
    BY <1>1, <1>2, ScanStart DEF MayOverlap
  <2> QED
    BY <1>1, <2>1, <2>2, Frame DEF ClipInv, ClipExact, LevelClipExact
<1>3. CASE ~MayOverlap
  <2>1. clipPc' = "done" /\ answer' = "null"
    BY <1>3 DEF ScriptClip, Return
  <2>2. Covered = {}
    BY <1>1, <1>3, NoOverlap
  <2> QED
    BY <1>1, <2>1, <2>2, Frame DEF ClipInv, ClipExact, LevelClipExact
<1> QED
  BY <1>2, <1>3

LEMMA ClipInvTestRun == ClipInv /\ TestRun => ClipInv'
<1> SUFFICES ASSUME ClipInv, TestRun PROVE ClipInv'
  OBVIOUS
<1>1. /\ Called /\ ScanInv /\ UNCHANGED call /\ kept = {} /\ kept' = {}
      /\ answer' = "none" /\ clipPc = "outside"
  BY DEF ClipInv, TestRun
<1>2. /\ HasRuns /\ call.method = "clip" /\ row \in Top .. Bottom - 1
      /\ run \in 1 .. Len(Runs) /\ Ordered /\ DOMAIN Runs = 1 .. Len(Runs)
      /\ row \in Nat /\ Top \in Nat /\ Bottom \in Nat
  BY <1>1, Arguments, TileSize DEF ScanInv, TestRun
<1>3. CASE Meets
  <2>1. clipPc' = "copy" /\ row' = Top /\ run' = 1
    BY <1>3 DEF TestRun
  <2>2. ScanInv'
    BY <1>1, <1>2, <2>1, ScanStart
  <2> QED
    BY <1>1, <1>2, <2>1, <2>2, Frame DEF ClipInv, ClipExact, LevelClipExact
<1>4. CASE ~Meets
  <2>1. clipPc' = "outside" /\ Advance
    BY <1>1, <1>4 DEF TestRun
  <2>2. /\ row' \in {row, row + 1} /\ run' \in 1 .. Len(Runs)' /\ Ordered'
        /\ \A i \in DOMAIN Runs : Behind(i)' => Behind(i) \/ (i = run /\ Runs[i].y = row)
    BY <1>1, <1>2, <2>1, AdvanceStep
  <2>3. \A i \in DOMAIN Runs, p \in Pixel : ~(Behind(i)' /\ RunHolds(Runs[i], p))
    <3>1. Current.y = row => \A p \in Pixel : ~RunHolds(Current, p)
      BY <1>2, <1>4, RowRunExact
    <3>2. \A i \in DOMAIN Runs, p \in Pixel : ~(Behind(i) /\ RunHolds(Runs[i], p))
      BY <1>1 DEF ScanInv
    <3> QED
      BY <2>2, <3>1, <3>2 DEF Current
  <2>4. row' \in Top .. Bottom
    BY <1>2, <2>2
  <2>5. ScanInv'
    BY <1>1, <1>2, <2>2, <2>3, <2>4, Frame DEF ScanInv
  <2> QED
    BY <1>1, <1>2, <2>1, <2>5, Frame DEF ClipInv, ClipExact, LevelClipExact
<1> QED
  BY <1>3, <1>4

LEMMA ClipInvTestOver == ClipInv /\ TestOver => ClipInv'
<1> SUFFICES ASSUME ClipInv, TestOver PROVE ClipInv'
  OBVIOUS
<1>1. /\ Called /\ ScanInv /\ UNCHANGED call /\ kept' = {} /\ answer' = "null"
      /\ clipPc = "outside" /\ clipPc' = "done" /\ row = Bottom
  BY DEF ClipInv, TestOver, Return
<1>2. Covered = {}
  <2>1. \A i \in DOMAIN Runs, p \in Pixel : ~RunHolds(Runs[i], p)
    BY <1>1, CursorEnds DEF ScanInv
  <2> QED
    BY <2>1, CoveredHas
<1> QED
  BY <1>1, <1>2, Frame DEF ClipInv, ScanInv, ClipExact, LevelClipExact

LEMMA ClipInvCopyRun == ClipInv /\ CopyRun => ClipInv'
<1> SUFFICES ASSUME ClipInv, CopyRun PROVE ClipInv'
  OBVIOUS
<1>1. /\ Called /\ ScanInv /\ UNCHANGED call /\ answer' = "none" /\ Advance
      /\ clipPc = "copy" /\ clipPc' = "copy"
      /\ kept' = IF Meets THEN kept \cup RowRun ELSE kept
  BY DEF ClipInv, CopyRun
<1>2. /\ HasRuns /\ call.method = "clip" /\ row \in Top .. Bottom - 1
      /\ run \in 1 .. Len(Runs) /\ Ordered /\ DOMAIN Runs = 1 .. Len(Runs)
      /\ row \in Nat /\ Top \in Nat /\ Bottom \in Nat
  BY <1>1, Arguments, TileSize DEF ScanInv, CopyRun
<1>3. /\ Meets => RowRun = {p \in Pixel : RunHolds(Current, p)}
      /\ Current.y = row /\ ~Meets => \A p \in Pixel : ~RunHolds(Current, p)
  BY <1>2, RowRunExact
<1>4. kept' \subseteq Covered
  <2>1. kept \subseteq Covered
    BY <1>2 DEF ClipInv, ClipExact
  <2>2. Meets => RowRun \subseteq Covered
    BY <1>2, <1>3, CoveredHas DEF Current
  <2> QED
    BY <1>1, <2>1, <2>2
<1>5. /\ row' \in {row, row + 1} /\ run' \in 1 .. Len(Runs)' /\ Ordered'
      /\ \A i \in DOMAIN Runs : Behind(i)' => Behind(i) \/ (i = run /\ Runs[i].y = row)
  BY <1>1, <1>2, AdvanceStep
<1>6. ASSUME NEW i \in DOMAIN Runs, NEW p \in Pixel, Behind(i)', RunHolds(Runs[i], p)
      PROVE  p \in kept'
  <2>1. CASE Behind(i)
    BY <1>1, <1>6, <2>1 DEF ScanInv
  <2>2. CASE i = run /\ Runs[i].y = row
    BY <1>1, <1>3, <1>6, <2>2 DEF Current
  <2> QED
    BY <1>5, <1>6, <2>1, <2>2
<1>7. row' \in Top .. Bottom
  BY <1>2, <1>5
<1>8. ScanInv'
  BY <1>1, <1>2, <1>5, <1>6, <1>7, Frame DEF ScanInv
<1> QED
  BY <1>1, <1>2, <1>4, <1>8, Frame DEF ClipInv, ClipExact, LevelClipExact

LEMMA ClipInvCopyOver == ClipInv /\ CopyOver => ClipInv'
<1> SUFFICES ASSUME ClipInv, CopyOver PROVE ClipInv'
  OBVIOUS
<1>1. /\ Called /\ ScanInv /\ UNCHANGED <<call, kept>> /\ answer' = "dataset"
      /\ clipPc = "copy" /\ clipPc' = "done" /\ row = Bottom
  BY DEF ClipInv, CopyOver, Return
<1>2. kept = Covered
  <2>1. kept \subseteq Covered
    BY <1>1 DEF ClipInv, ScanInv, ClipExact
  <2>2. \A i \in DOMAIN Runs, p \in Pixel : RunHolds(Runs[i], p) => p \in kept
    BY <1>1, CursorEnds DEF ScanInv
  <2> QED
    BY <2>1, <2>2, CoveredHas
<1> QED
  BY <1>1, <1>2, Frame DEF ClipInv, ScanInv, ClipExact, LevelClipExact

\* Where a method that scans run by run starts, or does not: an answer without a
\* scan keeps nothing.
LEMMA ClipInvLevelStart ==
  ASSUME ClipInv, clipPc = "called", call.method \in {"clip2", "tileclip", "statistic"},
         UNCHANGED <<call, row, run, kept>>,
         \/ /\ clipPc' = "done"
            /\ answer' = "dataset" => call.levels = <<>> \/ ~MayOverlap
         \/ /\ clipPc' = "level" /\ answer' = answer
            /\ call.levels # <<>> /\ MayOverlap
  PROVE  ClipInv'
<1>1. Called /\ ~Flat /\ run = 1 /\ run' = 1 /\ kept = {} /\ kept' = {} /\ answer = "none"
  BY DEF ClipInv, Flat
<1>2. CASE clipPc' = "level" /\ answer' = answer /\ call.levels # <<>> /\ MayOverlap
  <2>1. HasRuns /\ Len(Runs) \in Nat
    BY <1>1, <1>2, Arguments DEF HasRuns
  <2>2. 1 \in 1 .. Len(Runs) + 1
    BY <2>1
  <2>3. LevelInv'
    BY <1>1, <1>2, <2>1, <2>2, Frame DEF LevelInv
  <2> QED
    BY <1>1, <1>2, <2>3, Frame DEF ClipInv, ClipExact, LevelClipExact
<1>3. CASE clipPc' = "done" /\ (answer' = "dataset" => call.levels = <<>> \/ ~MayOverlap)
  <2>1. ASSUME answer' = "dataset", call.levels # <<>>
        PROVE  BeginsBelow \/ Covered = {}
    BY <1>1, <1>3, <2>1, NoOverlap DEF HasRuns
  <2>2. LevelClipExact'
    BY <1>1, <2>1, Frame DEF LevelClipExact
  <2> QED
    BY <1>1, <1>3, <2>2, Frame DEF ClipInv, ClipExact
<1> QED
  BY <1>2, <1>3

LEMMA ClipInvLevelCalls ==
  ClipInv /\ (ScriptClip2 \/ ConnectorClip \/ ConnectorStatistic) => ClipInv'
<1>1. ASSUME ClipInv, ScriptClip2 PROVE ClipInv'
  <2>1. /\ clipPc = "called" /\ call.method = "clip2" /\ UNCHANGED <<call, row, run, kept>>
        /\ \/ /\ clipPc' = "done"
              /\ answer' = "dataset" => call.levels = <<>> \/ ~MayOverlap
           \/ /\ clipPc' = "level" /\ answer' = answer
              /\ call.levels # <<>> /\ MayOverlap
    BY <1>1 DEF ScriptClip2, Return, Scan
  <2> QED
    BY <1>1, <2>1, ClipInvLevelStart
<1>2. ASSUME ClipInv, ConnectorClip PROVE ClipInv'
  <2>1. /\ clipPc = "called" /\ call.method = "tileclip" /\ UNCHANGED <<call, row, run, kept>>
        /\ \/ /\ clipPc' = "done"
              /\ answer' = "dataset" => call.levels = <<>> \/ ~MayOverlap
           \/ /\ clipPc' = "level" /\ answer' = answer
              /\ call.levels # <<>> /\ MayOverlap
    BY <1>2 DEF ConnectorClip, Return, Scan
  <2> QED
    BY <1>2, <2>1, ClipInvLevelStart
<1>3. ASSUME ClipInv, ConnectorStatistic PROVE ClipInv'
  <2>1. /\ clipPc = "called" /\ call.method = "statistic" /\ UNCHANGED <<call, row, run, kept>>
        /\ \/ /\ clipPc' = "done"
              /\ answer' = "dataset" => call.levels = <<>> \/ ~MayOverlap
           \/ /\ clipPc' = "level" /\ answer' = answer
              /\ call.levels # <<>> /\ MayOverlap
    BY <1>3 DEF ConnectorStatistic, Return, Scan
  <2> QED
    BY <1>3, <2>1, ClipInvLevelStart
<1> QED
  BY <1>1, <1>2, <1>3

LEMMA ClipInvLevelStep == ClipInv /\ LevelStep => ClipInv'
<1> SUFFICES ASSUME ClipInv, LevelStep PROVE ClipInv'
  OBVIOUS
<1> DEFINE above == Top >= RunBottom
           below == Bottom <= RunTop
<1>1. /\ Called /\ LevelInv /\ UNCHANGED call /\ answer' = "none"
      /\ clipPc = "level" /\ clipPc' = "level"
      /\ kept' = IF ~above /\ ~below /\ call.method # "statistic"
                 THEN kept \cup LevelRun ELSE kept
      /\ run' = IF ~above /\ below THEN Len(Runs) + 1 ELSE run + 1
  BY DEF ClipInv, LevelStep
<1>2. /\ HasRuns /\ ~Flat /\ DOMAIN Runs = 1 .. Len(Runs) /\ Len(Runs) \in Nat
      /\ run \in 1 .. Len(Runs)
  BY <1>1, Arguments DEF LevelInv, LevelStep
<1>3. /\ ~above /\ ~below => LevelRun = {p \in Pixel : RunHolds(Current, p)}
      /\ above => \A p \in Pixel : ~RunHolds(Current, p)
      /\ below => \A i \in run .. Len(Runs), p \in Pixel : ~RunHolds(Runs[i], p)
  BY <1>2, LevelRunExact
<1> HIDE DEF above, below
<1>4. run' \in 1 .. Len(Runs) + 1
  BY <1>1, <1>2
<1>5. LevelClipExact'
  <2>1. SUFFICES ASSUME call.method \in {"clip2", "tileclip"}, call.levels # <<>>
                 PROVE  kept' \subseteq Covered
    BY <1>1, Frame DEF LevelClipExact
  <2>2. kept \subseteq Covered
    BY <2>1 DEF ClipInv, LevelClipExact
  <2>3. ~above /\ ~below => LevelRun \subseteq Covered
    BY <1>2, <1>3, CoveredHas DEF Current
  <2> QED
    BY <1>1, <2>2, <2>3
<1>6. ASSUME call.method # "statistic", NEW i \in 1 .. run' - 1, NEW p \in Pixel,
             RunHolds(Runs[i], p)
      PROVE  p \in kept'
  <2>1. CASE i \in 1 .. run - 1
    BY <1>1, <1>6, <2>1 DEF LevelInv
  <2>2. CASE i = run
    BY <1>1, <1>2, <1>3, <1>6, <2>2 DEF Current
  <2>3. CASE i \notin 1 .. run - 1 /\ i # run
    <3>1. i \in run .. Len(Runs) /\ ~above /\ below
      BY <1>1, <1>2, <2>3
    <3> QED
      BY <1>3, <1>6, <3>1
  <2> QED
    BY <2>1, <2>2, <2>3
<1>7. LevelInv'
  BY <1>1, <1>2, <1>4, <1>6, Frame DEF LevelInv
<1> QED
  BY <1>1, <1>2, <1>5, <1>7, Frame DEF ClipInv, ClipExact, Flat

\* A tile that may overlap does not begin below the last run.
LEMMA OverlapBegins == ASSUME HasRuns, MayOverlap PROVE ~BeginsBelow
<1>1. LastRow \in Nat /\ Top \in Nat
  <2>1. Runs # <<>>
    BY DEF MayOverlap
  <2>2. Runs[Len(Runs)].y \in Nat /\ Scale \in Nat /\ Top \in Nat
    BY <2>1, Arguments
  <2>3. \A a \in Nat, b \in Nat : a * b \in Nat
    BY Z3
  <2> QED
    BY <2>2, <2>3 DEF LastRow
<1> QED
  BY <1>1 DEF MayOverlap, BeginsBelow

LEMMA ClipInvLevelOver == ClipInv /\ LevelOver => ClipInv'
<1> SUFFICES ASSUME ClipInv, LevelOver PROVE ClipInv'
  OBVIOUS
<1>1. /\ Called /\ LevelInv /\ UNCHANGED <<call, kept>> /\ run > Len(Runs)
      /\ answer' = IF call.method = "statistic" THEN "results" ELSE "dataset"
      /\ clipPc = "level" /\ clipPc' = "done"
  BY DEF ClipInv, LevelOver, Return
<1>2. /\ HasRuns /\ ~Flat /\ MayOverlap /\ DOMAIN Runs = 1 .. Len(Runs)
      /\ Len(Runs) \in Nat /\ run - 1 = Len(Runs)
  BY <1>1, Arguments DEF LevelInv
<1>3. call.method # "clip"
  BY <1>2 DEF Flat
<1>4. ~BeginsBelow
  BY <1>2, OverlapBegins
<1>5. call.method # "statistic" => Covered \subseteq kept
  BY <1>1, <1>2, CoveredHas DEF LevelInv
<1>6. LevelClipExact'
  BY <1>1, <1>4, <1>5, Frame DEF ClipInv, LevelClipExact
<1> QED
  BY <1>1, <1>3, <1>6, Frame DEF ClipInv, ClipExact

\* The scan of zonalstat keeps nothing, and answers no Dataset.
LEMMA ClipInvZonal ==
  ClipInv /\ (ZonalStat \/ ZonalStep \/ ZonalOver \/ UNCHANGED clipVars) => ClipInv'
<1>1. ASSUME ClipInv, ZonalStat PROVE ClipInv'
  <2>1. /\ clipPc = "called" /\ clipPc' = "zonal" /\ UNCHANGED <<call, kept>>
        /\ kept = {} /\ answer' = "none"
    BY <1>1 DEF ClipInv, ZonalStat, Scan
  <2> QED
    BY <1>1, <2>1, Frame DEF ClipInv, ClipExact, LevelClipExact
<1>2. ASSUME ClipInv, ZonalStep PROVE ClipInv'
  <2>1. clipPc = "zonal" /\ clipPc' = "zonal" /\ UNCHANGED <<call, kept>> /\ answer' = "none"
    BY <1>2 DEF ClipInv, ZonalStep
  <2> QED
    BY <1>2, <2>1, Frame DEF ClipInv, ClipExact, LevelClipExact
<1>3. ASSUME ClipInv, ZonalOver PROVE ClipInv'
  <2>1. clipPc = "zonal" /\ clipPc' = "done" /\ UNCHANGED <<call, kept>> /\ answer' = "results"
    BY <1>3 DEF ClipInv, ZonalOver, Return
  <2> QED
    BY <1>3, <2>1, Frame DEF ClipInv, ClipExact, LevelClipExact
<1>4. ASSUME ClipInv, UNCHANGED clipVars PROVE ClipInv'
  <2>1. UNCHANGED <<call, clipPc, row, run, kept, answer>>
    BY <1>4 DEF clipVars
  <2>2. ScanInv => ScanInv'
    BY <2>1, Frame DEF ScanInv, Ordered, Behind
  <2>3. LevelInv => LevelInv'
    BY <2>1, Frame DEF LevelInv
  <2> QED
    BY <1>4, <2>1, <2>2, <2>3, Frame DEF ClipInv, ClipExact, LevelClipExact
<1> QED
  BY <1>1, <1>2, <1>3, <1>4

LEMMA ClipInvStep == ClipInv /\ [ClipNext]_clipVars => ClipInv'
BY ClipInvRequest, ClipInvScriptClip, ClipInvTestRun, ClipInvTestOver, ClipInvCopyRun,
   ClipInvCopyOver, ClipInvLevelCalls, ClipInvLevelStep, ClipInvLevelOver, ClipInvZonal
   DEF ClipNext

LEMMA ClipInvHolds == ClipSpec => []ClipInv
BY ClipInvInit, ClipInvStep, PTL DEF ClipSpec

-----------------------------------------------------------------------------
(* The theorems.                                                           *)

\* clip (the script function on a PeRoi) keeps the pixels of the region and no
\* others, and answers null only for tiles that the region does not touch: for
\* tiles of any size and runs in any number, of any length, overlapping or not,
\* in any order within a row.
THEOREM ClipIsExact == ClipSpec => []ClipExact
<1>1. ClipInv => ClipExact
  BY DEF ClipInv
<1> QED
  BY <1>1, ClipInvHolds, PTL

\* clip2 and the connector's clipping keep, at every zoom level, the pixels whose
\* cell at the level of the runs is in the region, unless the tile begins below
\* the first pixel row of the last run, when they keep none.
THEOREM LevelClipIsExact == ClipSpec => []LevelClipExact
<1>1. ClipInv => LevelClipExact
  BY DEF ClipInv
<1> QED
  BY <1>1, ClipInvHolds, PTL

\* When a tile is a whole number of magnified pixels high, that exception is no
\* exception: a tile that begins below the top of the last run has none of it.
LEMMA WholeCells ==
  ASSUME HasRuns, ~Flat, Hei % Scale = 0, BeginsBelow
  PROVE  Covered = {}
<1>1. /\ DOMAIN Runs = 1 .. Len(Runs) /\ Len(Runs) \in Nat /\ SortedByRow(Runs)
      /\ Scale \in Nat /\ Scale > 0 /\ Top \in Nat /\ Runs # <<>>
      /\ \A i \in 1 .. Len(Runs) : Runs[i].y \in Nat
  BY Arguments DEF BeginsBelow
<1> DEFINE last == Runs[Len(Runs)].y
<1>2. last \in Nat
  BY <1>1
<1>3. (last + 1) * Scale <= Top
  <2>1. PICK m \in Nat : Hei = m * Scale
    <3>1. Hei \div Scale \in Nat
      BY <1>1, TileSize, CellBracket
    <3>2. \A a \in Nat, k \in Nat : k > 0 /\ a % k = 0 => a = (a \div k) * k
      BY Z3
    <3> QED
      BY <1>1, <3>1, <3>2, TileSize
  <2>2. call.tile.y \in Nat
    BY CallParts
  <2>3. Top = (call.tile.y * m) * Scale
    <3>1. \A a \in Nat, b \in Nat, c \in Nat : a * (b * c) = (a * b) * c
      BY Z3
    <3> QED
      BY <1>1, <2>1, <2>2, <3>1 DEF Top
  <2>4. call.tile.y * m \in Nat /\ last * Scale < (call.tile.y * m) * Scale
    <3>1. \A a \in Nat, b \in Nat : a * b \in Nat
      BY Z3
    <3> QED
      BY <2>1, <2>2, <2>3, <3>1 DEF BeginsBelow, LastRow
  <2>5. last + 1 <= call.tile.y * m /\ last + 1 \in Nat
    <3>1. \A a \in Nat, b \in Nat, k \in Nat : b <= a => b * k <= a * k
      BY Z3
    <3>2. \A a \in Nat, k \in Nat : a * k \in Nat
      BY Z3
    <3> DEFINE c == call.tile.y * m
    <3>3. c \in Nat /\ last \in Nat /\ Scale \in Nat /\ last * Scale < c * Scale
      BY <1>1, <1>2, <2>4
    <3> HIDE DEF c, last
    <3>4. ~(c <= last)
      <4>1. last * Scale \in Nat /\ c * Scale \in Nat
        BY <3>2, <3>3
      <4>2. c <= last => c * Scale <= last * Scale
        BY <3>1, <3>3
      <4> QED
        BY <3>3, <4>1, <4>2
    <3> QED
      BY <3>3, <3>4 DEF c
  <2>6. (last + 1) * Scale <= (call.tile.y * m) * Scale
    <3>1. \A a \in Nat, b \in Nat, k \in Nat : b <= a => b * k <= a * k
      BY Z3
    <3> DEFINE a == call.tile.y * m
               b == last + 1
    <3>2. a \in Nat /\ b \in Nat /\ b <= a /\ Scale \in Nat
      BY <1>1, <2>4, <2>5
    <3> HIDE DEF a, b
    <3>3. b * Scale <= a * Scale
      BY <3>1, <3>2
    <3> QED
      BY <3>3 DEF a, b
  <2> QED
    BY <2>3, <2>6
<1>4. ASSUME NEW i \in DOMAIN Runs, NEW p \in Pixel, RunHolds(Runs[i], p)
      PROVE  FALSE
  <2>1. Runs[i].y <= last /\ Runs[i].y \in Nat
    BY <1>1 DEF SortedByRow
  <2>2. (Runs[i].y + 1) * Scale <= (last + 1) * Scale
    <3>1. \A a \in Nat, b \in Nat, k \in Nat : b <= a => (b + 1) * k <= (a + 1) * k
      BY Z3
    <3> QED
      BY <1>1, <1>2, <2>1, <3>1
  <2>3. Top + p[2] < (Runs[i].y + 1) * Scale
    BY <1>4, LevelHolds
  <2>4. p[2] \in Nat
    BY PixelParts, TileSize
  <2>5. (Runs[i].y + 1) * Scale \in Int /\ (last + 1) * Scale \in Int
    <3>1. \A a \in Nat, k \in Nat : (a + 1) * k \in Int
      BY Z3
    <3> QED
      BY <1>1, <1>2, <2>1, <3>1
  <2> QED
    BY <1>1, <1>3, <2>2, <2>3, <2>4, <2>5
<1> QED
  BY <1>4, CoveredHas

\* So they keep the pixels of the region at every level with such tiles: with 256
\* rows, down to eight levels below that of the last list.
THEOREM LevelClipIsWhole == ClipSpec => []LevelClipWhole
<1>1. ClipInv => LevelClipWhole
  <2> SUFFICES ASSUME ClipInv, call.method \in {"clip2", "tileclip"}, call.levels # <<>>,
                      answer = "dataset", Hei % Scale = 0
               PROVE  kept = Covered
    BY DEF LevelClipWhole
  <2>1. Called /\ HasRuns /\ ~Flat
    BY DEF ClipInv, HasRuns, Flat
  <2>2. kept = IF BeginsBelow THEN {} ELSE Covered
    BY DEF ClipInv, LevelClipExact
  <2> QED
    BY <2>1, <2>2, WholeCells
<1> QED
  BY <1>1, ClipInvHolds, PTL

-----------------------------------------------------------------------------
(* The scans come to an end.                                               *)

\* zonalstat's cursor stays within the runs, or just behind them.
ZonalInv == clipPc = "zonal" => HasRuns /\ call.method = "zonal" /\ run \in 1 .. Len(Runs) + 1

LEMMA ZonalInvStep == ClipInv /\ ZonalInv /\ [ClipNext]_clipVars => ZonalInv'
<1> SUFFICES ASSUME ClipInv, ZonalInv, [ClipNext]_clipVars, clipPc' = "zonal"
             PROVE  (HasRuns /\ call.method = "zonal" /\ run \in 1 .. Len(Runs) + 1)'
  BY DEF ZonalInv
<1>1. CASE ZonalStat
  <2>1. /\ Called /\ call.method = "zonal" /\ run = 1 /\ run' = 1 /\ UNCHANGED call
        /\ HasRuns
    BY <1>1 DEF ClipInv, ZonalStat, HasRuns, Flat
  <2>2. 1 \in 1 .. Len(Runs) + 1
    BY <2>1, Arguments
  <2> QED
    BY <2>1, <2>2, Frame
<1>2. CASE ZonalStep
  <2>1. /\ HasRuns /\ call.method = "zonal" /\ run \in 1 .. Len(Runs) /\ UNCHANGED call
        /\ run' \in {Len(Runs) + 1, run + 1} /\ Len(Runs) \in Nat
    BY <1>2, Arguments DEF ZonalStep, ZonalInv
  <2> QED
    BY <2>1, Frame
<1>3. CASE UNCHANGED clipVars
  BY <1>3, Frame DEF clipVars, ZonalInv
<1>4. CASE ClipNext /\ ~ZonalStat /\ ~ZonalStep
  BY <1>4 DEF ClipNext, Request, ScriptClip, TestRun, TestOver, CopyRun, CopyOver,
     ScriptClip2, ConnectorClip, ConnectorStatistic, LevelStep, LevelOver, ZonalOver,
     Return, Scan
<1> QED
  BY <1>1, <1>2, <1>3, <1>4

\* The passes that are left, where the scan is.
PassesAre ==
  /\ clipPc = "called" => PassesLeft = IF call.levels = <<>> THEN 1
                                       ELSE 2 * (Hei + Len(Runs)) + 4
  /\ clipPc = "outside" =>
       PassesLeft = (Bottom - row) + (Len(Runs) - run) + (Hei + Len(Runs)) + 3
  /\ clipPc = "copy" => PassesLeft = (Bottom - row) + (Len(Runs) - run) + 1
  /\ clipPc \in {"level", "zonal"} => PassesLeft = (Len(Runs) - run) + 2
  /\ clipPc = "done" => PassesLeft = 0

LEMMA PassesAt == PassesAre /\ PassesAre'
BY DEF PassesAre, PassesLeft

\* A call that is not over takes one of the passes that are left.
LEMMA PassTaken ==
  ASSUME ClipInv, ZonalInv, ClipNext, clipPc # "idle"
  PROVE  PassesLeft' < PassesLeft /\ PassesLeft' >= 0
<1> USE PassesAt
<1>0. /\ Called /\ ~Request
      /\ HasRuns => Len(Runs) \in Nat /\ Top \in Nat /\ Bottom = Top + Hei
      /\ Hei \in Nat /\ Hei > 0
  BY Arguments, TileSize DEF ClipInv, Request
<1>1. CASE ScriptClip
  <2>1. /\ clipPc = "called" /\ HasRuns /\ UNCHANGED <<call, run>> /\ run = 1 /\ row' = Top
        /\ call.levels # <<>>
        /\ clipPc' = "outside" \/ clipPc' = "done"
    <3>1. /\ clipPc = "called" /\ HasRuns /\ UNCHANGED <<call, run>> /\ run = 1 /\ row' = Top
          /\ clipPc' = "outside" \/ clipPc' = "done"
      BY <1>0, <1>1 DEF ScriptClip, ClipInv, HasRuns, Flat, Return, Scan
    <3>2. call.levels # <<>>
      BY <3>1, CallParts
    <3> QED
      BY <3>1, <3>2
  <2> QED
    BY <1>0, <2>1, Frame DEF PassesAre
<1>2. CASE TestRun
  <2>1. /\ clipPc = "outside" /\ ScanInv /\ UNCHANGED call /\ row < Bottom
        /\ \/ clipPc' = "copy" /\ row' = Top /\ run' = 1
           \/ clipPc' = "outside" /\ Advance
    BY <1>2 DEF TestRun, ClipInv
  <2>2. HasRuns /\ row \in Top .. Bottom /\ run \in 1 .. Len(Runs)
    BY <2>1 DEF ScanInv
  <2>3. Advance => \/ row' = row + 1 /\ run' = run
                   \/ row' = row /\ run' = run + 1 /\ run < Len(Runs)
    BY <1>0, <2>2 DEF Advance
  <2>4. /\ PassesLeft = (Bottom - row) + (Len(Runs) - run) + (Hei + Len(Runs)) + 3
        /\ Bottom' = Bottom /\ Runs' = Runs
    BY <2>1, Frame DEF PassesAre
  <2>5. CASE clipPc' = "copy" /\ row' = Top /\ run' = 1
    <3>1. PassesLeft' = (Bottom - Top) + (Len(Runs) - 1) + 1
      BY <2>4, <2>5 DEF PassesAre
    <3> QED
      BY <1>0, <2>1, <2>2, <2>4, <3>1, SMTT(20)
  <2>6. CASE clipPc' = "outside" /\ Advance
    <3>1. PassesLeft' = (Bottom - row') + (Len(Runs) - run') + (Hei + Len(Runs)) + 3
      BY <2>4, <2>6 DEF PassesAre
    <3>2. /\ Len(Runs) \in Nat /\ Top \in Nat /\ Bottom = Top + Hei /\ row < Bottom
          /\ Hei \in Nat
      BY <1>0, <2>1, <2>2
    <3>3. CASE row' = row + 1 /\ run' = run
      BY <2>2, <2>4, <3>1, <3>2, <3>3
    <3>4. CASE row' = row /\ run' = run + 1 /\ run < Len(Runs)
      BY <2>2, <2>4, <3>1, <3>2, <3>4
    <3> QED
      BY <2>3, <2>6, <3>3, <3>4
  <2> QED
    BY <2>1, <2>5, <2>6
<1>3. CASE CopyRun
  <2>1. clipPc = "copy" /\ clipPc' = "copy" /\ ScanInv /\ UNCHANGED call /\ row < Bottom /\ Advance
    BY <1>3 DEF CopyRun, ClipInv
  <2>2. HasRuns /\ row \in Top .. Bottom /\ run \in 1 .. Len(Runs)
    BY <2>1 DEF ScanInv
  <2>3. \/ row' = row + 1 /\ run' = run
        \/ row' = row /\ run' = run + 1 /\ run < Len(Runs)
    BY <1>0, <2>1, <2>2 DEF Advance
  <2> QED
    BY <1>0, <2>1, <2>2, <2>3, Frame DEF PassesAre
<1>4. CASE TestOver \/ CopyOver
  <2>1. /\ clipPc \in {"outside", "copy"} /\ ScanInv /\ clipPc' = "done"
    BY <1>4 DEF TestOver, CopyOver, ClipInv, Return
  <2>2. HasRuns /\ row \in Top .. Bottom /\ run \in 1 .. Len(Runs)
    BY <2>1 DEF ScanInv
  <2> QED
    BY <1>0, <2>1, <2>2 DEF PassesAre
<1>5. CASE ScriptClip2 \/ ConnectorClip \/ ConnectorStatistic
  <2>1. /\ clipPc = "called" /\ UNCHANGED <<call, run>> /\ run = 1
        /\ clipPc' = "done" \/ (clipPc' = "level" /\ call.levels # <<>>)
    BY <1>5 DEF ScriptClip2, ConnectorClip, ConnectorStatistic, ClipInv, Return, Scan
  <2>2. call.levels # <<>> => HasRuns
    BY <1>0 DEF HasRuns
  <2> QED
    BY <1>0, <2>1, <2>2, Frame DEF PassesAre
<1>6. CASE LevelStep \/ LevelOver
  <2>1. /\ clipPc = "level" /\ LevelInv /\ UNCHANGED call
        /\ \/ clipPc' = "level" /\ run <= Len(Runs) /\ run' \in {Len(Runs) + 1, run + 1}
           \/ clipPc' = "done"
    BY <1>6 DEF LevelStep, LevelOver, ClipInv, Return
  <2>2. HasRuns /\ run \in 1 .. Len(Runs) + 1
    BY <2>1 DEF LevelInv
  <2> QED
    BY <1>0, <2>1, <2>2, Frame DEF PassesAre
<1>7. CASE ZonalStat
  <2>1. /\ clipPc = "called" /\ clipPc' = "zonal" /\ UNCHANGED <<call, run>> /\ run = 1
        /\ HasRuns
    BY <1>0, <1>7 DEF ZonalStat, ClipInv, HasRuns, Flat, Scan
  <2>2. call.levels # <<>>
    BY <2>1, CallParts
  <2> QED
    BY <1>0, <2>1, <2>2, Frame DEF PassesAre
<1>8. CASE ZonalStep \/ ZonalOver
  <2>1. /\ clipPc = "zonal" /\ UNCHANGED call /\ HasRuns /\ run \in 1 .. Len(Runs) + 1
        /\ \/ clipPc' = "zonal" /\ run <= Len(Runs) /\ run' \in {Len(Runs) + 1, run + 1}
           \/ clipPc' = "done"
    BY <1>8 DEF ZonalStep, ZonalOver, ZonalInv, Return
  <2> QED
    BY <1>0, <2>1, Frame DEF PassesAre
<1> QED
  BY <1>0, <1>1, <1>2, <1>3, <1>4, <1>5, <1>6, <1>7, <1>8 DEF ClipNext

\* Every pass of a scan takes the cursor on, and no pass takes it beyond the tile and
\* the runs: whatever the region and the size of the tile, a call ends after at most
\* twice the rows of the tile and the runs together.
THEOREM ClipIsShort == ClipSpec => ClipShortens
<1>1. ClipInit => ClipInv /\ ZonalInv
  BY ClipInvInit DEF ClipInit, ZonalInv
<1>2. ClipInv /\ ZonalInv /\ [ClipNext]_clipVars => (ClipInv /\ ZonalInv)'
  BY ClipInvStep, ZonalInvStep
<1>3. ClipInv /\ ZonalInv /\ [ClipNext]_clipVars
        => [clipPc # "idle" => PassesLeft' < PassesLeft /\ PassesLeft' >= 0]_clipVars
  BY PassTaken
<1> QED
  BY <1>1, <1>2, <1>3, PTL DEF ClipSpec, ClipShortens

-----------------------------------------------------------------------------
(* Sums and extremes over finite sets.                                     *)

SumOf(f, V) == MapThenSumSet(LAMBDA p : f[p], V)

\* The equation of the fold that MapThenSumSet is, for the subsets of S.
First(s) == CHOOSE x \in s : TRUE
SumStep(g, f, s) == IF s = {} THEN 0 ELSE f[First(s)] + g[s \ {First(s)}]
Sums(g, f, S) == g = [s \in SUBSET S |-> SumStep(g, f, s)]

\* The sum over V is that of the function chosen for the subsets of V.
LEMMA SumIsChosen ==
  ASSUME NEW f, NEW V
  PROVE  SumOf(f, V) = (CHOOSE g : Sums(g, f, V))[V]
BY DEF SumOf, MapThenSumSet, MapThenFoldSet, Sums, SumStep, First

\* Of a set of finite subsets that is not empty, one has no other below it.
LEMMA LeastSubset ==
  ASSUME NEW S, IsFiniteSet(S), NEW B \in SUBSET SUBSET S, B # {}
  PROVE  \E T \in B : \A U \in B : ~(U \subseteq T /\ U # T)
<1>1. IsWellFoundedOn(StrictSubsetOrdering(S), SUBSET S)
  BY FS_StrictSubsetOrderingWellFounded, FS_FiniteSubsetsOfFinite
<1>2. PICK T \in B : \A U \in B : <<U, T>> \notin StrictSubsetOrdering(S)
  BY <1>1, WFMin
<1> QED
  BY <1>2 DEF StrictSubsetOrdering

\* Of a set of numbers that is not empty, one has no other below it.
LEMMA LeastNatural ==
  ASSUME NEW N \in SUBSET Nat, N # {}
  PROVE  \E n \in N : \A m \in N : ~(m < n)
<1>1. PICK n \in N : \A m \in N : <<m, n>> \notin OpToRel(<, Nat)
  BY NatLessThanWellFounded, WFMin, Zenon
<1> QED
  BY <1>1 DEF OpToRel

\* The element that the fold takes is one of the set's, and what is left is smaller.
LEMMA FirstIn == ASSUME NEW s, s # {} PROVE First(s) \in s
BY DEF First

LEMMA RestIsSmaller ==
  ASSUME NEW S, IsFiniteSet(S), NEW s \in SUBSET S, s # {}
  PROVE  /\ First(s) \in S /\ s \ {First(s)} \in SUBSET S
         /\ Cardinality(s) \in Nat /\ Cardinality(s \ {First(s)}) = Cardinality(s) - 1
<1>1. IsFiniteSet(s) /\ First(s) \in s
  BY FS_Subset, FirstIn
<1> QED
  BY <1>1, FS_CardinalityType, FS_RemoveElement

\* The sums of the subsets exist, since they do for subsets of any number of elements.
LEMMA SumsExist ==
  ASSUME NEW S, IsFiniteSet(S), NEW f, \A x \in S : f[x] \in Int
  PROVE  \E g \in [SUBSET S -> Int] : Sums(g, f, S)
<1> DEFINE Upto(g, n) == \A s \in SUBSET S : Cardinality(s) < n => g[s] = SumStep(g, f, s)
           N == {n \in Nat : ~\E g \in [SUBSET S -> Int] : Upto(g, n)}
<1>1. N = {}
  <2> SUFFICES ASSUME N # {} PROVE FALSE
    OBVIOUS
  <2>1. PICK n \in N : \A m \in N : ~(m < n)
    BY LeastNatural
  <2>2. n \in Nat /\ n # 0
    <3>1. [s \in SUBSET S |-> 0] \in [SUBSET S -> Int]
      OBVIOUS
    <3>2. Upto([s \in SUBSET S |-> 0], 0)
      <4> SUFFICES ASSUME NEW s \in SUBSET S, Cardinality(s) < 0 PROVE FALSE
        OBVIOUS
      <4> QED
        BY FS_Subset, FS_CardinalityType
    <3> HIDE DEF Upto
    <3> QED
      BY <2>1, <3>1, <3>2
  <2>3. PICK g \in [SUBSET S -> Int] : Upto(g, n - 1)
    <3>1. n - 1 \in Nat /\ n - 1 < n
      BY <2>2
    <3>2. n - 1 \notin N
      BY <2>1, <3>1
    <3> HIDE DEF Upto
    <3> QED
      BY <3>1, <3>2
  <2> DEFINE h == [s \in SUBSET S |-> SumStep(g, f, s)]
  <2>4. h \in [SUBSET S -> Int]
    <3> SUFFICES ASSUME NEW s \in SUBSET S PROVE SumStep(g, f, s) \in Int
      OBVIOUS
    <3>1. CASE s = {}
      BY <3>1 DEF SumStep
    <3>2. CASE s # {}
      <4>1. First(s) \in S /\ s \ {First(s)} \in SUBSET S
        BY <3>2, RestIsSmaller
      <4>2. f[First(s)] \in Int /\ g[s \ {First(s)}] \in Int
        BY <4>1
      <4> QED
        BY <3>2, <4>2 DEF SumStep
    <3> QED
      BY <3>1, <3>2
  <2>5. ASSUME NEW s \in SUBSET S, Cardinality(s) < n
        PROVE  h[s] = SumStep(h, f, s)
    <3>1. CASE s = {}
      BY <3>1 DEF SumStep
    <3>2. CASE s # {}
      <4> DEFINE t == s \ {First(s)}
      <4>1. t \in SUBSET S /\ Cardinality(t) < n - 1
        BY <2>2, <2>5, <3>2, RestIsSmaller
      <4>2. g[t] = h[t]
        BY <2>3, <4>1
      <4> QED
        BY <3>2, <4>2 DEF SumStep
    <3> QED
      BY <3>1, <3>2
  <2>6. Upto(h, n)
    BY <2>5
  <2> HIDE DEF Upto, h
  <2> QED
    BY <2>1, <2>4, <2>6
<1>2. Cardinality(S) + 1 \in Nat
  BY FS_CardinalityType
<1>3. PICK g \in [SUBSET S -> Int] : Upto(g, Cardinality(S) + 1)
  <2> HIDE DEF Upto
  <2> QED
    BY <1>1, <1>2
<1>4. ASSUME NEW s \in SUBSET S PROVE g[s] = SumStep(g, f, s)
  <2>1. Cardinality(s) \in Nat /\ Cardinality(s) <= Cardinality(S) /\ Cardinality(S) \in Nat
    BY FS_Subset, FS_CardinalityType
  <2> QED
    BY <1>3, <2>1
<1> QED
  BY <1>4 DEF Sums

\* There is one such function only, and that of a set holds for its subsets.
LEMMA SumsAgree ==
  ASSUME NEW S, IsFiniteSet(S), NEW T \in SUBSET S, NEW f, NEW g, NEW h,
         Sums(g, f, S), Sums(h, f, T)
  PROVE  \A s \in SUBSET T : g[s] = h[s]
<1> DEFINE B == {s \in SUBSET T : g[s] # h[s]}
<1> SUFFICES ASSUME B # {} PROVE FALSE
  OBVIOUS
<1>1. IsFiniteSet(T)
  BY FS_Subset
<1>2. PICK s \in B : \A t \in B : ~(t \subseteq s /\ t # s)
  <2>1. B \in SUBSET SUBSET T
    OBVIOUS
  <2> HIDE DEF B
  <2> QED
    BY <2>1, <1>1, LeastSubset
<1>3. s \in SUBSET T /\ s \in SUBSET S /\ g[s] = SumStep(g, f, s) /\ h[s] = SumStep(h, f, s)
  BY DEF Sums
<1>4. s # {} /\ g[s \ {First(s)}] # h[s \ {First(s)}]
  BY <1>2, <1>3 DEF SumStep
<1>5. First(s) \in s
  BY <1>4, FirstIn
<1> QED
  BY <1>2, <1>3, <1>4, <1>5

\* So a sum is that of any function that has the equation on a larger set.
LEMMA SumIs ==
  ASSUME NEW S, IsFiniteSet(S), NEW T \in SUBSET S, NEW f, \A x \in S : f[x] \in Int, NEW g,
         Sums(g, f, S)
  PROVE  SumOf(f, T) = g[T]
<1>1. IsFiniteSet(T)
  BY FS_Subset
<1>2. \E h : Sums(h, f, T)
  BY <1>1, SumsExist
<1>3. Sums(CHOOSE h : Sums(h, f, T), f, T)
  BY <1>2
<1> DEFINE h == CHOOSE h : Sums(h, f, T)
<1>4. \A s \in SUBSET T : g[s] = h[s]
  <2> HIDE DEF h
  <2> QED
    BY <1>3, SumsAgree DEF h
<1>5. SumOf(f, T) = h[T]
  BY SumIsChosen
<1> HIDE DEF h
<1> QED
  BY <1>4, <1>5

\* Adding an element to a set adds its value to the sum, whatever the order the fold
\* takes the elements in.
LEMMA SumAdd ==
  ASSUME NEW S, IsFiniteSet(S), NEW f, \A x \in S : f[x] \in Int,
         NEW T \in SUBSET S, NEW x \in S \ T
  PROVE  SumOf(f, T \cup {x}) = SumOf(f, T) + f[x] /\ SumOf(f, T) \in Int
<1>1. PICK g \in [SUBSET S -> Int] : Sums(g, f, S)
  BY SumsExist
<1>2. \A s \in SUBSET S : g[s] = SumStep(g, f, s)
  BY <1>1 DEF Sums
<1> DEFINE Adds(s) == \A y \in S \ s : g[s \cup {y}] = g[s] + f[y]
           B == {s \in SUBSET S : ~Adds(s)}
<1>3. B = {}
  <2> SUFFICES ASSUME B # {} PROVE FALSE
    OBVIOUS
  <2>1. PICK s \in B : \A t \in B : ~(t \subseteq s /\ t # s)
    <3>1. B \in SUBSET SUBSET S
      OBVIOUS
    <3> HIDE DEF B
    <3> QED
      BY <3>1, LeastSubset
  <2>2. s \in SUBSET S
    OBVIOUS
  <2>3. ASSUME NEW y \in S \ s PROVE g[s \cup {y}] = g[s] + f[y]
    <3> DEFINE u == s \cup {y}
               z == First(u)
               t == s \ {z}
    <3>1. u \in SUBSET S /\ u # {} /\ z \in u
      BY <2>2, FirstIn
    <3>2. g[u] = f[z] + g[u \ {z}]
      BY <1>2, <3>1 DEF SumStep
    <3>3. CASE z = y
      <4>1. u \ {z} = s
        BY <3>3
      <4>2. g[s] \in Int /\ f[y] \in Int
        BY <1>1, <2>2
      <4> HIDE DEF u, z, t
      <4> QED
        <5>1. g[u] = f[y] + g[s]
          BY <3>2, <3>3, <4>1
        <5> QED
          BY <4>2, <5>1 DEF u
    <3>4. CASE z # y
      <4>1. z \in s /\ t \in SUBSET S /\ t \subseteq s /\ t # s /\ z \in S \ t /\ y \in S \ t
        BY <2>2, <3>1, <3>4
      <4>2. u \ {z} = t \cup {y} /\ s = t \cup {z}
        BY <3>4, <4>1
      <4>3. Adds(t)
        BY <2>1, <4>1
      <4>4. g[t \cup {y}] = g[t] + f[y] /\ g[t \cup {z}] = g[t] + f[z]
        BY <4>1, <4>3
      <4>5. g[t] \in Int /\ f[y] \in Int /\ f[z] \in Int
        BY <1>1, <4>1
      <4>6. g[u] = f[z] + (g[t] + f[y]) /\ g[s] = g[t] + f[z]
        BY <3>2, <4>2, <4>4
      <4> HIDE DEF u, z, t
      <4> QED
        BY <4>5, <4>6 DEF u
    <3> QED
      BY <3>3, <3>4
  <2> QED
    BY <2>1, <2>3
<1>4. Adds(T) /\ T \cup {x} \in SUBSET S
  BY <1>3
<1>5. SumOf(f, T) = g[T] /\ SumOf(f, T \cup {x}) = g[T \cup {x}]
  BY <1>1, <1>4, SumIs
<1> QED
  BY <1>1, <1>4, <1>5

\* No elements sum up to nothing.
LEMMA SumEmpty == ASSUME NEW f PROVE SumOf(f, {}) = 0
<1>1. PICK g \in [SUBSET {} -> Int] : Sums(g, f, {})
  BY FS_EmptySet, SumsExist
<1>2. SumOf(f, {}) = g[{}]
  BY <1>1, FS_EmptySet, SumIs
<1> QED
  BY <1>1, <1>2 DEF Sums, SumStep

\* The sum over two sets that have no element in common.
LEMMA SumUnion ==
  ASSUME NEW S, IsFiniteSet(S), NEW f, \A x \in S : f[x] \in Int,
         NEW T \in SUBSET S, NEW U \in SUBSET S, T \cap U = {}
  PROVE  /\ SumOf(f, T \cup U) = SumOf(f, T) + SumOf(f, U)
         /\ SumOf(f, T) \in Int /\ SumOf(f, U) \in Int
<1>1. PICK g \in [SUBSET S -> Int] : Sums(g, f, S)
  BY SumsExist
<1>2. \A s \in SUBSET S : SumOf(f, s) = g[s] /\ SumOf(f, s) \in Int
  BY <1>1, SumIs
<1> DEFINE B == {s \in SUBSET U : SumOf(f, T \cup s) # SumOf(f, T) + SumOf(f, s)}
<1>3. B = {}
  <2> SUFFICES ASSUME B # {} PROVE FALSE
    OBVIOUS
  <2>1. IsFiniteSet(U)
    BY FS_Subset
  <2>2. PICK s \in B : \A t \in B : ~(t \subseteq s /\ t # s)
    <3>1. B \in SUBSET SUBSET U
      OBVIOUS
    <3> HIDE DEF B
    <3> QED
      BY <3>1, <2>1, LeastSubset
  <2>3. s # {}
    <3> SUFFICES ASSUME s = {} PROVE FALSE
      OBVIOUS
    <3>1. SumOf(f, {}) = 0 /\ SumOf(f, T) \in Int
      BY <1>2, SumEmpty
    <3>2. T \cup s = T
      OBVIOUS
    <3>3. SumOf(f, T) # SumOf(f, T) + SumOf(f, {})
      BY <3>2
    <3> QED
      BY <3>1, <3>3
  <2>4. PICK x \in s : TRUE
    BY <2>3
  <2> DEFINE t == s \ {x}
  <2>5. t \in SUBSET U /\ t \subseteq s /\ t # s
    BY <2>4
  <2>6. SumOf(f, T \cup t) = SumOf(f, T) + SumOf(f, t)
    BY <2>2, <2>5
  <2>7. SumOf(f, t \cup {x}) = SumOf(f, t) + f[x]
    <3>1. t \in SUBSET S /\ x \in S \ t
      BY <2>4
    <3> HIDE DEF B, t
    <3> QED
      BY <3>1, SumAdd
  <2>8. SumOf(f, (T \cup t) \cup {x}) = SumOf(f, T \cup t) + f[x]
    <3> DEFINE W == T \cup t
    <3>1. W \in SUBSET S /\ x \in S \ W
      BY <2>4
    <3> HIDE DEF B, t, W
    <3> QED
      <4>1. SumOf(f, W \cup {x}) = SumOf(f, W) + f[x]
        BY <3>1, SumAdd
      <4> QED
        BY <4>1 DEF W
  <2>9. t \cup {x} = s /\ (T \cup t) \cup {x} = T \cup s
    BY <2>4
  <2>10. SumOf(f, T) \in Int /\ SumOf(f, t) \in Int /\ f[x] \in Int
    BY <1>2
  <2>11. SumOf(f, T \cup s) = (SumOf(f, T) + SumOf(f, t)) + f[x] /\ SumOf(f, s) = SumOf(f, t) + f[x]
    BY <2>6, <2>7, <2>8, <2>9
  <2> QED
    BY <2>10, <2>11
<1> QED
  BY <1>2, <1>3

\* Of the values of a set, one is the least and one the greatest.
LEMMA LeastExists ==
  ASSUME NEW S, IsFiniteSet(S), S # {}, NEW f, \A x \in S : f[x] \in Int
  PROVE  \E x \in S : \A y \in S : f[x] <= f[y]
<1> DEFINE Has(s) == \E x \in s : \A y \in s : f[x] <= f[y]
           B == {s \in SUBSET S : s # {} /\ ~Has(s)}
<1> SUFFICES ASSUME S \in B PROVE FALSE
  OBVIOUS
<1>1. PICK s \in B : \A t \in B : ~(t \subseteq s /\ t # s)
  <2>1. B \in SUBSET SUBSET S /\ B # {}
    OBVIOUS
  <2> HIDE DEF B
  <2> QED
    BY <2>1, LeastSubset
<1>2. PICK x \in s : TRUE
  OBVIOUS
<1> DEFINE t == s \ {x}
<1>3. CASE t = {}
  <2>1. \A y \in s : y = x /\ f[x] <= f[y]
    BY <1>2, <1>3
  <2> QED
    BY <1>2, <2>1
<1>4. CASE t # {}
  <2>1. Has(t)
    <3>1. t \in SUBSET S /\ t \subseteq s /\ t # s
      BY <1>2
    <3>2. t \notin B
      BY <1>1, <3>1
    <3> HIDE DEF Has, t
    <3> QED
      BY <1>4, <3>1, <3>2
  <2>2. PICK z \in t : \A y \in t : f[z] <= f[y]
    BY <2>1
  <2>3. f[x] \in Int /\ f[z] \in Int /\ \A y \in t : f[y] \in Int
    BY <1>2, <2>2
  <2>4. CASE f[x] <= f[z]
    <3>1. ASSUME NEW y \in s PROVE f[x] <= f[y]
      <4>1. CASE y = x
        BY <2>3, <4>1
      <4>2. CASE y # x
        BY <2>2, <2>3, <2>4, <4>2
      <4> QED
        BY <4>1, <4>2
    <3> QED
      BY <1>2, <3>1
  <2>5. CASE ~(f[x] <= f[z])
    <3>1. ASSUME NEW y \in s PROVE f[z] <= f[y]
      <4>1. CASE y = x
        BY <2>3, <2>5, <4>1
      <4>2. CASE y # x
        BY <2>2, <4>2
      <4> QED
        BY <4>1, <4>2
    <3> QED
      BY <2>2, <3>1
  <2> QED
    BY <2>4, <2>5
<1> QED
  BY <1>3, <1>4

\* The values of finitely many elements have a greatest one.
LEMMA GreatestExists ==
  ASSUME NEW S, IsFiniteSet(S), S # {}, NEW f, \A x \in S : f[x] \in Int
  PROVE  \E x \in S : \A y \in S : f[y] <= f[x]
<1> DEFINE g == [x \in S |-> -f[x]]
<1>1. \A x \in S : g[x] \in Int
  OBVIOUS
<1>2. PICK x \in S : \A y \in S : g[x] <= g[y]
  <2> HIDE DEF g
  <2> QED
    BY <1>1, LeastExists
<1>3. ASSUME NEW y \in S PROVE f[y] <= f[x]
  BY <1>2
<1> QED
  BY <1>3

\* Min and Max choose them.
LEMMA MinIs ==
  ASSUME NEW E \in SUBSET Int, NEW m \in E, \A e \in E : m <= e
  PROVE  Min(E) = m
<1>1. \E n \in E : \A e \in E : n <= e
  OBVIOUS
<1>2. Min(E) \in E /\ \A e \in E : Min(E) <= e
  BY <1>1 DEF Min
<1>3. m \in Int /\ Min(E) \in Int /\ m <= Min(E) /\ Min(E) <= m
  BY <1>2
<1> QED
  BY <1>3

\* An element that no other exceeds is the greatest.
LEMMA MaxIs ==
  ASSUME NEW E \in SUBSET Int, NEW m \in E, \A e \in E : e <= m
  PROVE  Max(E) = m
<1>1. \E n \in E : \A e \in E : n >= e
  OBVIOUS
<1>2. Max(E) \in E /\ \A e \in E : Max(E) >= e
  BY <1>1 DEF Max
<1>3. m \in Int /\ Max(E) \in Int /\ m <= Max(E) /\ Max(E) <= m
  BY <1>2
<1> QED
  BY <1>3

\* With one more element, a set of integers that has them keeps a least and a greatest.
LEMMA MinMaxWith ==
  ASSUME NEW D \in SUBSET Int, NEW v \in Int, NEW w \in Int,
         NEW m \in D, \A e \in D : m <= e, NEW n \in D, \A e \in D : e <= n
  PROVE  Min(D \cup {v}) \in Int /\ Max(D \cup {w}) \in Int
<1>1. Min(D \cup {v}) \in Int
  <2>1. PICK k \in {m, v} : k <= m /\ k <= v
    OBVIOUS
  <2>2. D \cup {v} \in SUBSET Int /\ k \in D \cup {v} /\ \A e \in D \cup {v} : k <= e
    BY <2>1
  <2> QED
    BY <2>2, MinIs
<1>2. Max(D \cup {w}) \in Int
  <2>1. PICK k \in {n, w} : n <= k /\ w <= k
    OBVIOUS
  <2>2. D \cup {w} \in SUBSET Int /\ k \in D \cup {w} /\ \A e \in D \cup {w} : e <= k
    BY <2>1
  <2> QED
    BY <2>2, MaxIs
<1> QED
  BY <1>1, <1>2

-----------------------------------------------------------------------------
(* The statistics.                                                         *)

StatType == [all : Nat, fill : Nat, valid : Nat, sum : Int, low : Int, high : Int]
Valid(P) == {p \in P : IsValid(p)}
Filled(P) == {p \in P : IsFill(p)}
IsLeast(v, P) == \E p \in P : v = ValueAt(p) /\ \A q \in P : v <= ValueAt(q)
IsGreatest(v, P) == \E p \in P : v = ValueAt(p) /\ \A q \in P : ValueAt(q) <= v

\* The statistics s are those of the pixels P, none of which was counted twice.
StatOf(s, P) ==
  /\ s \in StatType
  /\ s.all = Cardinality(P)
  /\ s.fill = Cardinality(Filled(P))
  /\ s.valid = Cardinality(Valid(P))
  /\ s.sum = SumOf(call.picture, Valid(P))
  /\ IF Valid(P) # {} THEN IsLeast(s.low, Valid(P)) /\ IsGreatest(s.high, Valid(P))
     ELSE call.method = "statistic" => s.low = ValidMax /\ s.high = ValidMin

\* A tile has finitely many pixels, and each has a whole number for its value.
LEMMA PixelsFinite == \A P \in SUBSET Pixel : IsFiniteSet(P)
<1>1. IsFiniteSet(0 .. Wid - 1) /\ IsFiniteSet(0 .. Hei - 1)
  BY TileSize, FS_Interval
<1>2. IsFiniteSet(Pixel)
  BY <1>1, FS_Product DEF Pixel
<1> QED
  BY <1>2, FS_Subset

LEMMA ValueType ==
  ASSUME Called, NEW p \in Pixel
  PROVE  ValueAt(p) \in Int /\ call.picture[p] = ValueAt(p)
<1>1. call.picture \in [Pixel -> Int]
  BY ClipAssumption DEF Called, CallsOf
<1> QED
  BY <1>1 DEF ValueAt

\* The sum and the extremes of the model, as the lemmas about sets have them.
LEMMA SumOfValues ==
  ASSUME NEW V
  PROVE  MapThenSumSet(LAMBDA p : ValueAt(p), V) = SumOf(call.picture, V)
BY DEF SumOf, ValueAt

\* Of some pixels, one has the least value and one the greatest.
LEMMA ExtremesOf ==
  ASSUME Called, NEW V \in SUBSET Pixel, V # {}
  PROVE  /\ Extremes(V) \in SUBSET Int
         /\ Min(Extremes(V)) \in Int /\ IsLeast(Min(Extremes(V)), V)
         /\ Max(Extremes(V)) \in Int /\ IsGreatest(Max(Extremes(V)), V)
<1>1. \A p \in V : ValueAt(p) \in Int /\ call.picture[p] = ValueAt(p)
  BY ValueType
<1>2. IsFiniteSet(V)
  BY PixelsFinite
<1>3. PICK a \in V : \A q \in V : ValueAt(a) <= ValueAt(q)
  <2>1. \E a \in V : \A q \in V : call.picture[a] <= call.picture[q]
    BY <1>1, <1>2, LeastExists
  <2> QED
    BY <1>1, <2>1
<1>4. PICK b \in V : \A q \in V : ValueAt(q) <= ValueAt(b)
  <2>1. \E b \in V : \A q \in V : call.picture[q] <= call.picture[b]
    BY <1>1, <1>2, GreatestExists
  <2> QED
    BY <1>1, <2>1
<1>5. /\ Extremes(V) \in SUBSET Int /\ ValueAt(a) \in Extremes(V) /\ ValueAt(b) \in Extremes(V)
      /\ \A e \in Extremes(V) : ValueAt(a) <= e /\ e <= ValueAt(b)
  BY <1>1, <1>3, <1>4 DEF Extremes
<1>6. Min(Extremes(V)) = ValueAt(a) /\ Max(Extremes(V)) = ValueAt(b)
  BY <1>5, MinIs, MaxIs
<1> QED
  BY <1>1, <1>3, <1>4, <1>5, <1>6 DEF IsLeast, IsGreatest

\* Conversely the least value is the one that Min chooses.
LEMMA LeastIsMin ==
  ASSUME Called, NEW V \in SUBSET Pixel, NEW v
  PROVE  /\ IsLeast(v, V) => v = Min(Extremes(V))
         /\ IsGreatest(v, V) => v = Max(Extremes(V))
<1>1. \A p \in V : ValueAt(p) \in Int
  BY ValueType
<1>2. Extremes(V) \in SUBSET Int
  BY <1>1 DEF Extremes
<1>3. ASSUME IsLeast(v, V) PROVE v = Min(Extremes(V))
  <2>1. v \in Extremes(V) /\ \A e \in Extremes(V) : v <= e
    BY <1>3 DEF IsLeast, Extremes
  <2> QED
    BY <1>2, <2>1, MinIs
<1>4. ASSUME IsGreatest(v, V) PROVE v = Max(Extremes(V))
  <2>1. v \in Extremes(V) /\ \A e \in Extremes(V) : e <= v
    BY <1>4 DEF IsGreatest, Extremes
  <2> QED
    BY <1>2, <2>1, MaxIs
<1> QED
  BY <1>3, <1>4

\* The extremes of two sets of pixels together.
LEMMA LeastOfBoth ==
  ASSUME Called, NEW V \in SUBSET Pixel, V # {}, NEW l \in Int, NEW U \in SUBSET Pixel,
         IsLeast(l, U)
  PROVE  LET m == Min(Extremes(V) \cup {l}) IN m \in Int /\ IsLeast(m, U \cup V)
<1>1. \A p \in V \cup U : ValueAt(p) \in Int
  BY ValueType
<1>2. PICK a \in U : l = ValueAt(a) /\ \A q \in U : l <= ValueAt(q)
  BY DEF IsLeast
<1>3. PICK b \in V : \A q \in V : ValueAt(b) <= ValueAt(q)
  BY ExtremesOf DEF IsLeast
<1>4. \E c \in U \cup V : ValueAt(c) \in {l, ValueAt(b)} /\ ValueAt(c) <= l /\ ValueAt(c) <= ValueAt(b)
  BY <1>1, <1>2, <1>3
<1>5. PICK c \in U \cup V : ValueAt(c) \in {l, ValueAt(b)} /\ ValueAt(c) <= l /\ ValueAt(c) <= ValueAt(b)
  BY <1>4
<1>6. \A q \in U \cup V : ValueAt(c) <= ValueAt(q)
  BY <1>1, <1>2, <1>3, <1>5
<1> DEFINE E == Extremes(V) \cup {l}
<1>7. E \in SUBSET Int /\ ValueAt(c) \in E /\ \A e \in E : ValueAt(c) <= e
  BY <1>1, <1>3, <1>5, <1>6 DEF Extremes
<1>8. Min(E) = ValueAt(c)
  <2> HIDE DEF E
  <2> QED
    BY <1>7, MinIs
<1> QED
  BY <1>1, <1>5, <1>6, <1>8 DEF IsLeast

\* The greatest value of two parts of the pixels is the greater of theirs.
LEMMA GreatestOfBoth ==
  ASSUME Called, NEW V \in SUBSET Pixel, V # {}, NEW h \in Int, NEW U \in SUBSET Pixel,
         IsGreatest(h, U)
  PROVE  LET m == Max(Extremes(V) \cup {h}) IN m \in Int /\ IsGreatest(m, U \cup V)
<1>1. \A p \in V \cup U : ValueAt(p) \in Int
  BY ValueType
<1>2. PICK a \in U : h = ValueAt(a) /\ \A q \in U : ValueAt(q) <= h
  BY DEF IsGreatest
<1>3. PICK b \in V : \A q \in V : ValueAt(q) <= ValueAt(b)
  BY ExtremesOf DEF IsGreatest
<1>4. \E c \in U \cup V : ValueAt(c) \in {h, ValueAt(b)} /\ ValueAt(c) >= h /\ ValueAt(c) >= ValueAt(b)
  BY <1>1, <1>2, <1>3
<1>5. PICK c \in U \cup V : ValueAt(c) \in {h, ValueAt(b)} /\ ValueAt(c) >= h /\ ValueAt(c) >= ValueAt(b)
  BY <1>4
<1>6. \A q \in U \cup V : ValueAt(q) <= ValueAt(c)
  BY <1>1, <1>2, <1>3, <1>5
<1> DEFINE E == Extremes(V) \cup {h}
<1>7. E \in SUBSET Int /\ ValueAt(c) \in E /\ \A e \in E : e <= ValueAt(c)
  BY <1>1, <1>3, <1>5, <1>6 DEF Extremes
<1>8. Max(E) = ValueAt(c)
  <2> HIDE DEF E
  <2> QED
    BY <1>7, MaxIs
<1> QED
  BY <1>1, <1>5, <1>6, <1>8 DEF IsGreatest

\* A run adds the pixels it takes to all that is counted.
LEMMA AddedTypes ==
  ASSUME Called, stat \in StatType, NEW Q \in SUBSET Pixel
  PROVE  Added(Q) \in StatType
<1> DEFINE V == {p \in Q : IsValid(p)}
           F == {p \in Q : IsFill(p)}
<1>1. V \in SUBSET Pixel /\ F \in SUBSET Pixel
  OBVIOUS
<1>2. Cardinality(Q) \in Nat /\ Cardinality(F) \in Nat /\ Cardinality(V) \in Nat
  BY <1>1, PixelsFinite, FS_CardinalityType
<1>3. SumOf(call.picture, V) \in Int
  <2>1. \A p \in V : call.picture[p] \in Int
    BY <1>1, ValueType
  <2>2. IsFiniteSet(V) /\ V \in SUBSET V /\ {} \in SUBSET V /\ V \cap {} = {}
    BY <1>1, PixelsFinite
  <2> HIDE DEF V
  <2> QED
    BY <2>1, <2>2, SumUnion
<1>4. /\ stat.all \in Nat /\ stat.fill \in Nat /\ stat.valid \in Nat /\ stat.sum \in Int
      /\ stat.low \in Int /\ stat.high \in Int
  BY DEF StatType
<1>5. LowAfter(V) \in Int /\ HighAfter(V) \in Int
  <2>1. CASE V = {}
    BY <1>4, <2>1 DEF LowAfter, HighAfter
  <2>2. CASE V # {}
    <3>1. /\ Min(Extremes(V)) \in Int /\ Max(Extremes(V)) \in Int
          /\ IsLeast(Min(Extremes(V)), V) /\ IsGreatest(Max(Extremes(V)), V)
          /\ Extremes(V) \in SUBSET Int
      BY <1>1, <2>2, ExtremesOf
    <3>2. \A e \in Extremes(V) : Min(Extremes(V)) <= e /\ e <= Max(Extremes(V))
      BY <3>1 DEF IsLeast, IsGreatest, Extremes
    <3>3. Min(Extremes(V)) \in Extremes(V) /\ Max(Extremes(V)) \in Extremes(V)
      BY <3>1 DEF IsLeast, IsGreatest, Extremes
    <3>4. /\ Min(Extremes(V) \cup {stat.low}) \in Int
          /\ Max(Extremes(V) \cup {stat.high}) \in Int
      <4> DEFINE D == Extremes(V)
      <4>1. /\ D \in SUBSET Int /\ Min(D) \in D /\ \A e \in D : Min(D) <= e
            /\ Max(D) \in D /\ \A e \in D : e <= Max(D)
        BY <3>1, <3>2, <3>3
      <4> HIDE DEF D
      <4>2. Min(D \cup {stat.low}) \in Int /\ Max(D \cup {stat.high}) \in Int
        BY <1>4, <4>1, MinMaxWith
      <4> QED
        BY <4>2 DEF D
    <3> HIDE DEF V
    <3> QED
      BY <2>2, <3>1, <3>4 DEF LowAfter, HighAfter
  <2> QED
    BY <2>1, <2>2
<1>6. Added(Q) = [all   |-> stat.all + Cardinality(Q),
                  fill  |-> stat.fill + Cardinality(F),
                  valid |-> stat.valid + Cardinality(V),
                  sum   |-> stat.sum + SumOf(call.picture, V),
                  low   |-> LowAfter(V),
                  high  |-> HighAfter(V)]
  BY SumOfValues DEF Added
<1> HIDE DEF V, F
<1> QED
  BY <1>2, <1>3, <1>4, <1>5, <1>6 DEF StatType

\* With valid pixels among those added, the extremes are those of all counted so far.
LEMMA AddedExtremes ==
  ASSUME Called, call.method \in {"statistic", "zonal"},
         NEW P \in SUBSET Pixel, NEW Q \in SUBSET Pixel, StatOf(stat, P), Valid(Q) # {}
  PROVE  /\ IsLeast(LowAfter(Valid(Q)), Valid(P) \cup Valid(Q))
         /\ IsGreatest(HighAfter(Valid(Q)), Valid(P) \cup Valid(Q))
<1> DEFINE U == Valid(P)
           V == Valid(Q)
<1>1. /\ U \in SUBSET Pixel /\ V \in SUBSET Pixel /\ V # {}
      /\ stat.low \in Int /\ stat.high \in Int /\ stat.valid = Cardinality(U)
      /\ IF U # {} THEN IsLeast(stat.low, U) /\ IsGreatest(stat.high, U)
         ELSE call.method = "statistic" => stat.low = ValidMax /\ stat.high = ValidMin
  BY DEF StatOf, StatType, Valid
<1>2. stat.valid = 0 <=> U = {}
  BY <1>1, PixelsFinite, FS_EmptySet
<1>3. CASE U # {}
  <2>1. /\ LowAfter(V) = Min(Extremes(V) \cup {stat.low})
        /\ HighAfter(V) = Max(Extremes(V) \cup {stat.high})
    BY <1>1, <1>2, <1>3 DEF LowAfter, HighAfter
  <2> HIDE DEF U, V
  <2>2. IsLeast(LowAfter(V), U \cup V) /\ IsGreatest(HighAfter(V), U \cup V)
    BY <1>1, <1>3, <2>1, LeastOfBoth, GreatestOfBoth
  <2> QED
    BY <2>2 DEF U, V
<1>4. CASE U = {} /\ call.method = "zonal"
  <2>1. LowAfter(V) = Min(Extremes(V)) /\ HighAfter(V) = Max(Extremes(V))
    BY <1>1, <1>2, <1>4 DEF LowAfter, HighAfter
  <2>2. U \cup V = V
    BY <1>4
  <2> HIDE DEF U, V
  <2>3. IsLeast(LowAfter(V), U \cup V) /\ IsGreatest(HighAfter(V), U \cup V)
    BY <1>1, <2>1, <2>2, ExtremesOf
  <2> QED
    BY <2>3 DEF U, V
<1>5. CASE U = {} /\ call.method = "statistic"
  <2> DEFINE E == Extremes(V)
             low == Min(E)
             high == Max(E)
  <2>1. /\ LowAfter(V) = Min(E \cup {ValidMax}) /\ HighAfter(V) = Max(E \cup {ValidMin})
    BY <1>1, <1>2, <1>5 DEF LowAfter, HighAfter
  <2>2. \A p \in V : ValidMin <= ValueAt(p) /\ ValueAt(p) <= ValidMax
    BY DEF Valid, IsValid, InRange
  <2>3. U \cup V = V
    BY <1>5
  <2> HIDE DEF U, V
  <2>4. /\ E \in SUBSET Int /\ low \in Int /\ high \in Int
        /\ IsLeast(low, V) /\ IsGreatest(high, V)
    BY <1>1, ExtremesOf
  <2>5. /\ low \in E /\ high \in E /\ \A e \in E : low <= e /\ e <= high
        /\ low <= ValidMax /\ ValidMin <= high
    BY <2>2, <2>4 DEF IsLeast, IsGreatest, Extremes
  <2>6. ValidMin \in Int /\ ValidMax \in Int
    BY ClipAssumption
  <2> HIDE DEF E, low, high
  <2>7. Min(E \cup {ValidMax}) = low
    <3> DEFINE D == E \cup {ValidMax}
    <3>1. D \in SUBSET Int /\ low \in D /\ \A e \in D : low <= e
      BY <2>4, <2>5, <2>6
    <3> HIDE DEF D
    <3>2. Min(D) = low
      BY <3>1, MinIs
    <3> QED
      BY <3>2 DEF D
  <2>8. Max(E \cup {ValidMin}) = high
    <3> DEFINE D == E \cup {ValidMin}
    <3>1. D \in SUBSET Int /\ high \in D /\ \A e \in D : e <= high
      BY <2>4, <2>5, <2>6
    <3> HIDE DEF D
    <3>2. Max(D) = high
      BY <3>1, MaxIs
    <3> QED
      BY <3>2 DEF D
  <2>9. IsLeast(LowAfter(V), U \cup V) /\ IsGreatest(HighAfter(V), U \cup V)
    BY <2>1, <2>3, <2>4, <2>7, <2>8
  <2> QED
    BY <2>9 DEF U, V
<1> QED
  BY <1>3, <1>4, <1>5

\* The cardinality of two sets of pixels that have none in common.
LEMMA TogetherAre ==
  ASSUME NEW P \in SUBSET Pixel, NEW Q \in SUBSET Pixel, P \cap Q = {}
  PROVE  /\ Cardinality(P \cup Q) = Cardinality(P) + Cardinality(Q)
         /\ Cardinality(P) \in Nat /\ Cardinality(Q) \in Nat
<1>1. IsFiniteSet(P) /\ IsFiniteSet(Q)
  BY PixelsFinite
<1>2. Cardinality(P \cup Q) = Cardinality(P) + Cardinality(Q) - Cardinality(P \cap Q)
  BY <1>1, FS_Union
<1>3. Cardinality(P \cap Q) = 0
  BY FS_EmptySet
<1>4. Cardinality(P) \in Nat /\ Cardinality(Q) \in Nat
  BY <1>1, FS_CardinalityType
<1> QED
  BY <1>2, <1>3, <1>4

\* The statistics stay those of the pixels counted when a run adds its own.
LEMMA AddedAre ==
  ASSUME Called, call.method \in {"statistic", "zonal"},
         NEW P \in SUBSET Pixel, NEW Q \in SUBSET Pixel, P \cap Q = {}, StatOf(stat, P)
  PROVE  StatOf(Added(Q), P \cup Q)
<1> DEFINE U == Valid(P)
           V == Valid(Q)
           F == Filled(P)
           G == Filled(Q)
<1>1. /\ U \in SUBSET Pixel /\ V \in SUBSET Pixel /\ U \cap V = {} /\ Valid(P \cup Q) = U \cup V
      /\ F \in SUBSET Pixel /\ G \in SUBSET Pixel /\ F \cap G = {} /\ Filled(P \cup Q) = F \cup G
  BY DEF Valid, Filled
<1>2. /\ stat.all = Cardinality(P) /\ stat.fill = Cardinality(F) /\ stat.valid = Cardinality(U)
      /\ stat.sum = SumOf(call.picture, U) /\ stat \in StatType
  BY DEF StatOf
<1>3. Added(Q) = [all   |-> stat.all + Cardinality(Q),
                  fill  |-> stat.fill + Cardinality(G),
                  valid |-> stat.valid + Cardinality(V),
                  sum   |-> stat.sum + SumOf(call.picture, V),
                  low   |-> LowAfter(V),
                  high  |-> HighAfter(V)]
  BY SumOfValues DEF Added, Valid, Filled
<1>4. Added(Q) \in StatType
  BY <1>2, AddedTypes
<1>5. SumOf(call.picture, U \cup V) = SumOf(call.picture, U) + SumOf(call.picture, V)
  <2>1. \A p \in Pixel : call.picture[p] \in Int
    BY ValueType
  <2>2. IsFiniteSet(Pixel)
    BY PixelsFinite
  <2>3. U \in SUBSET Pixel /\ V \in SUBSET Pixel /\ U \cap V = {}
    BY <1>1
  <2> DEFINE f == call.picture
  <2> HIDE DEF U, V, f
  <2>4. \A p \in Pixel : f[p] \in Int
    BY <2>1 DEF f
  <2>5. SumOf(f, U \cup V) = SumOf(f, U) + SumOf(f, V)
    BY <2>2, <2>3, <2>4, SumUnion
  <2> QED
    BY <2>5 DEF f
<1>6. IF Valid(P \cup Q) # {}
      THEN /\ IsLeast(Added(Q).low, Valid(P \cup Q))
           /\ IsGreatest(Added(Q).high, Valid(P \cup Q))
      ELSE call.method = "statistic" => Added(Q).low = ValidMax /\ Added(Q).high = ValidMin
  <2>1. CASE V # {}
    <3>1. IsLeast(LowAfter(V), U \cup V) /\ IsGreatest(HighAfter(V), U \cup V)
      BY <2>1, AddedExtremes
    <3>2. Valid(P \cup Q) # {} /\ Added(Q).low = LowAfter(V) /\ Added(Q).high = HighAfter(V)
      BY <1>1, <1>3, <2>1
    <3> HIDE DEF U, V
    <3> QED
      BY <1>1, <3>1, <3>2
  <2>2. CASE V = {}
    <3>1. Valid(P \cup Q) = U /\ LowAfter(V) = stat.low /\ HighAfter(V) = stat.high
      BY <1>1, <2>2 DEF LowAfter, HighAfter
    <3>2. Added(Q).low = stat.low /\ Added(Q).high = stat.high
      BY <1>3, <3>1
    <3> QED
      BY <3>1, <3>2 DEF StatOf
  <2> QED
    BY <2>1, <2>2
<1>7. /\ Cardinality(P \cup Q) = Cardinality(P) + Cardinality(Q)
      /\ Cardinality(F \cup G) = Cardinality(F) + Cardinality(G)
      /\ Cardinality(U \cup V) = Cardinality(U) + Cardinality(V)
  <2> HIDE DEF U, V, F, G
  <2> QED
    BY <1>1, TogetherAre
<1> HIDE DEF U, V, F, G
<1>8. /\ Added(Q).all = Cardinality(P \cup Q) /\ Added(Q).fill = Cardinality(F \cup G)
      /\ Added(Q).valid = Cardinality(U \cup V)
      /\ Added(Q).sum = SumOf(call.picture, U \cup V)
  BY <1>2, <1>3, <1>5, <1>7
<1> QED
  BY <1>1, <1>4, <1>6, <1>8 DEF StatOf

-----------------------------------------------------------------------------
(* The scans for statistics count the pixels of each run once.             *)

\* A run of zonalstat holds the pixels of its row from x0 to x1.
LEMMA ZonalHolds ==
  ASSUME HasRuns, call.method = "zonal", NEW i \in DOMAIN Runs, NEW p \in Pixel
  PROVE  RunHolds(Runs[i], p) <=> /\ Runs[i].y = Top + p[2]
                                  /\ Runs[i].x0 <= Left + p[1]
                                  /\ Left + p[1] <= Runs[i].x1
<1>1. Cell = 1
  BY DEF Cell, Flat
<1>2. Left + p[1] \in Nat /\ Top + p[2] \in Nat
  BY PixelParts
<1>3. (Left + p[1]) \div Cell = Left + p[1] /\ (Top + p[2]) \div Cell = Top + p[2]
  BY <1>1, <1>2, Z3
<1> QED
  BY <1>3 DEF RunHolds

ZonalMeets ==
  Current.y >= Top /\ Current.y < Bottom /\ Current.x0 < Right /\ Current.x1 >= Left

\* The run at hand adds just the pixels it holds, or holds none; and when it is below
\* the tile, so are all that follow.
LEMMA ZonalRunExact ==
  ASSUME HasRuns, call.method = "zonal", run \in DOMAIN Runs
  PROVE  /\ ZonalMeets => ZonalRun = {p \in Pixel : RunHolds(Current, p)}
         /\ ~ZonalMeets => \A p \in Pixel : ~RunHolds(Current, p)
         /\ Current.y >= Bottom =>
              \A i \in run .. Len(Runs), p \in Pixel : ~RunHolds(Runs[i], p)
<1>1. /\ Top \in Nat /\ Left \in Nat /\ Bottom = Top + Hei /\ Right = Left + Wid
      /\ Wid \in Nat /\ Hei \in Nat
  BY Arguments, TileSize
<1>2. Current.y \in Nat /\ Current.x0 \in Nat /\ Current.x1 \in Nat
  BY Arguments DEF Current
<1>3. \A p \in Pixel :
        /\ RunHolds(Current, p) <=> /\ Current.y = Top + p[2]
                                    /\ Current.x0 <= Left + p[1]
                                    /\ Left + p[1] <= Current.x1
        /\ p = <<p[1], p[2]>> /\ p[1] \in 0 .. Wid - 1 /\ p[2] \in 0 .. Hei - 1
  BY ZonalHolds, PixelParts DEF Current
<1> USE DEF ZonalMeets
<1>4. ASSUME ~ZonalMeets, NEW p \in Pixel, RunHolds(Current, p)
      PROVE  FALSE
  <2>1. /\ Current.y = Top + p[2] /\ Current.x0 <= Left + p[1] /\ Left + p[1] <= Current.x1
        /\ p[1] \in 0 .. Wid - 1 /\ p[2] \in 0 .. Hei - 1
    BY <1>2, <1>3, <1>4
  <2> QED
    BY <1>1, <1>2, <1>4, <2>1, SMTT(20)
<1>5. ASSUME ZonalMeets
      PROVE  ZonalRun = {p \in Pixel : RunHolds(Current, p)}
  <2>1. ASSUME NEW p \in ZonalRun
        PROVE  p \in Pixel /\ RunHolds(Current, p)
    <3>1. PICK x \in Larger(0, Current.x0 - Left) .. Smaller(Wid - 1, Current.x1 - Left) :
            p = <<x, Current.y - Top>>
      BY <2>1 DEF ZonalRun
    <3>2. /\ x \in 0 .. Wid - 1 /\ Current.y - Top \in 0 .. Hei - 1
          /\ Current.x0 <= Left + x /\ Left + x <= Current.x1
      BY <1>1, <1>2, <1>5, <3>1, SMTT(20) DEF Larger, Smaller
    <3>3. p \in Pixel /\ p[1] = x /\ p[2] = Current.y - Top
      BY <3>1, <3>2 DEF Pixel
    <3>4. Current.y = Top + p[2]
      BY <1>1, <1>2, <3>3
    <3> QED
      BY <1>2, <1>3, <3>2, <3>3, <3>4
  <2>2. ASSUME NEW p \in Pixel, RunHolds(Current, p)
        PROVE  p \in ZonalRun
    <3>1. /\ Current.y = Top + p[2] /\ Current.x0 <= Left + p[1] /\ Left + p[1] <= Current.x1
          /\ p = <<p[1], p[2]>> /\ p[1] \in 0 .. Wid - 1 /\ p[2] \in 0 .. Hei - 1
      BY <1>2, <1>3, <2>2
    <3>2. /\ p = <<p[1], Current.y - Top>>
          /\ p[1] \in Larger(0, Current.x0 - Left) .. Smaller(Wid - 1, Current.x1 - Left)
      BY <1>1, <1>2, <3>1, SMTT(20) DEF Larger, Smaller
    <3> QED
      BY <3>2 DEF ZonalRun
  <2> QED
    BY <2>1, <2>2
<1>6. ASSUME Current.y >= Bottom, NEW i \in run .. Len(Runs), NEW p \in Pixel,
             RunHolds(Runs[i], p)
      PROVE  FALSE
  <2>1. /\ run \in DOMAIN Runs /\ i \in DOMAIN Runs /\ run <= i /\ Runs[i].y \in Nat
        /\ SortedByRow(Runs) /\ run \in Int /\ i \in Int
    BY Arguments
  <2>2. Current.y <= Runs[i].y
    BY <1>2, <2>1 DEF SortedByRow, Current
  <2>3. Runs[i].y = Top + p[2] /\ p[2] \in 0 .. Hei - 1
    BY <1>6, <2>1, ZonalHolds, PixelParts
  <2> QED
    BY <1>1, <1>2, <1>6, <2>1, <2>2, <2>3
<1>7. ZonalMeets => ZonalRun = {p \in Pixel : RunHolds(Current, p)}
  BY <1>5
<1>8. ~ZonalMeets => \A p \in Pixel : ~RunHolds(Current, p)
  BY <1>4
<1>9. Current.y >= Bottom => \A i \in run .. Len(Runs), p \in Pixel : ~RunHolds(Runs[i], p)
  BY <1>6
<1> HIDE DEF ZonalMeets
<1> QED
  BY <1>7, <1>8, <1>9

\* Runs that are apart hold no pixel in common.
LEMMA ApartHold ==
  ASSUME RunsApart, HasRuns, call.method \in {"statistic", "zonal"},
         NEW i \in DOMAIN Runs, NEW j \in DOMAIN Runs, i # j, NEW p \in Pixel,
         RunHolds(Runs[i], p), RunHolds(Runs[j], p)
  PROVE  FALSE
<1> DEFINE x == (Left + p[1]) \div Cell
<1>1. x \in Nat
  <2>1. Cell \in Nat \ {0} /\ Left + p[1] \in Nat
    BY Arguments, PixelParts
  <2> QED
    BY <2>1, CellBracket
<1>2. /\ Runs[i].y = Runs[j].y
      /\ Runs[i].x0 <= x /\ x <= Runs[i].x1 /\ Runs[j].x0 <= x /\ x <= Runs[j].x1
  BY DEF RunHolds
<1>3. Runs[i].x1 < Runs[j].x0 \/ Runs[j].x1 < Runs[i].x0
  <2> DEFINE k == IF Flat THEN 1 ELSE Level
  <2>1. k \in DOMAIN call.levels /\ Runs = call.levels[k]
    BY CallParts DEF Runs, Level
  <2>2. call.levels \in Regions[call.method]
    BY DEF HasRuns, Called, CallsOf
  <2>3. Apart(Runs)
    BY <2>1, <2>2 DEF RunsApart
  <2> QED
    BY <1>2, <2>3 DEF Apart
<1>4. /\ Runs[i].x0 \in Nat /\ Runs[i].x1 \in Nat /\ Runs[j].x0 \in Nat /\ Runs[j].x1 \in Nat
  BY Arguments
<1> HIDE DEF x
<1> QED
  BY <1>1, <1>2, <1>3, <1>4

\* The pixels that the first n runs hold.
HeldBy(n) == {p \in Pixel : \E i \in 1 .. n : RunHolds(Runs[i], p)}

\* No run holds nothing; all of them hold the region.
LEMMA HeldByAll ==
  ASSUME HasRuns
  PROVE  HeldBy(0) = {} /\ HeldBy(Len(Runs)) = Covered
BY Arguments, CoveredHas DEF HeldBy

\* The next run holds pixels that none before it holds.
LEMMA HeldByNext ==
  ASSUME RunsApart, HasRuns, call.method \in {"statistic", "zonal"}, run \in DOMAIN Runs
  PROVE  LET Q == {p \in Pixel : RunHolds(Current, p)}
         IN  HeldBy(run) = HeldBy(run - 1) \cup Q /\ HeldBy(run - 1) \cap Q = {}
<1>1. DOMAIN Runs = 1 .. Len(Runs) /\ Len(Runs) \in Nat
  BY Arguments
<1>2. 1 .. run = (1 .. run - 1) \cup {run}
  BY <1>1
<1>3. \A i \in 1 .. run - 1 : i \in DOMAIN Runs /\ i # run
  BY <1>1
<1> DEFINE Q == {p \in Pixel : RunHolds(Current, p)}
<1>4. HeldBy(run) = HeldBy(run - 1) \cup Q
  BY <1>2 DEF HeldBy, Current
<1>5. ASSUME NEW p \in HeldBy(run - 1) \cap Q PROVE FALSE
  <2>1. PICK i \in 1 .. run - 1 : RunHolds(Runs[i], p)
    BY DEF HeldBy
  <2>2. p \in Pixel /\ RunHolds(Runs[run], p)
    BY DEF Current
  <2> QED
    BY <1>3, <2>1, <2>2, ApartHold
<1> QED
  BY <1>4, <1>5

-----------------------------------------------------------------------------
(* The invariant of the statistics.                                        *)

\* The kinds of every variable, and where a scan for statistics is.
KindInv ==
  /\ clipPc \in {"idle", "called", "outside", "copy", "level", "zonal", "done"}
  /\ row \in Nat /\ run \in Nat \ {0}
  /\ kept \subseteq Pixel
  /\ stat \in StatType
  /\ answer \in {"none", "dataset", "null", "passed", "results"}
CountInv ==
  /\ clipPc \in {"idle", "called"} => stat = NoStat
  /\ clipPc = "level" /\ call.method = "statistic" => StatOf(stat, HeldBy(run - 1))
  /\ clipPc = "zonal" => StatOf(stat, HeldBy(run - 1))
  /\ answer = "results" => call.method \in {"statistic", "zonal"} /\ StatOf(stat, Counted)

\* A scan starts from the statistics of no pixels.
LEMMA EmptyCount ==
  /\ NoStat \in StatType
  /\ call.method # "statistic" => StatOf(NoStat, {})
  /\ StatOf([NoStat EXCEPT !.low = ValidMax, !.high = ValidMin], {})
<1>1. ValidMin \in Int /\ ValidMax \in Int
  BY ClipAssumption
<1>2. Cardinality({}) = 0 /\ Valid({}) = {} /\ Filled({}) = {}
  BY FS_EmptySet DEF Valid, Filled
<1>3. SumOf(call.picture, {}) = 0
  BY SumEmpty
<1> DEFINE start == [NoStat EXCEPT !.low = ValidMax, !.high = ValidMin]
<1>4. /\ start.all = 0 /\ start.fill = 0 /\ start.valid = 0 /\ start.sum = 0
      /\ start.low = ValidMax /\ start.high = ValidMin
  BY <1>1 DEF NoStat
<1>5. start \in StatType
  <2>1. NoStat \in StatType
    BY DEF StatType, NoStat
  <2> QED
    BY <1>1, <2>1 DEF StatType
<1>6. StatOf(start, {})
  <2> HIDE DEF start
  <2> QED
    BY <1>2, <1>3, <1>4, <1>5 DEF StatOf
<1>7. /\ NoStat \in StatType
      /\ NoStat.all = 0 /\ NoStat.fill = 0 /\ NoStat.valid = 0 /\ NoStat.sum = 0
  BY DEF StatType, NoStat
<1>8. call.method # "statistic" => StatOf(NoStat, {})
  BY <1>2, <1>3, <1>7 DEF StatOf
<1> QED
  BY <1>6, <1>7, <1>8

\* The counts read nothing but the call.
LEMMA CountFrame ==
  ASSUME UNCHANGED call
  PROVE  /\ \A s, P : StatOf(s, P)' <=> StatOf(s, P)
         /\ \A n : HeldBy(n)' = HeldBy(n)
         /\ Counted' = Counted
<1>1. \A p : ValueAt(p)' = ValueAt(p)
  BY DEF ValueAt
<1>2. \A p : IsValid(p)' = IsValid(p) /\ IsFill(p)' = IsFill(p)
  BY <1>1 DEF IsValid, IsFill, InRange
<1>3. \A P : Valid(P)' = Valid(P) /\ Filled(P)' = Filled(P)
  BY <1>2 DEF Valid, Filled
<1>4. \A v, P : (IsLeast(v, P)' <=> IsLeast(v, P)) /\ (IsGreatest(v, P)' <=> IsGreatest(v, P))
  BY <1>1 DEF IsLeast, IsGreatest
<1>5. \A s, P : StatOf(s, P)' <=> StatOf(s, P)
  BY <1>3, <1>4 DEF StatOf
<1>6. \A n : HeldBy(n)' = HeldBy(n)
  BY Frame DEF HeldBy
<1>7. Counted' = Counted
  BY Frame DEF Counted
<1> QED
  BY <1>5, <1>6, <1>7

\* A run that is passed by held none of the pixels; one that is added held those that
\* it adds.
LEMMA LevelCount ==
  ASSUME RunsApart, ClipInv, KindInv, CountInv, LevelStep, call.method = "statistic"
  PROVE  StatOf(stat', HeldBy(run' - 1))
<1> DEFINE above == Top >= RunBottom
           below == Bottom <= RunTop
           Q == {p \in Pixel : RunHolds(Current, p)}
<1>1. /\ HasRuns /\ ~Flat /\ run \in DOMAIN Runs /\ DOMAIN Runs = 1 .. Len(Runs)
      /\ Len(Runs) \in Nat /\ Called /\ StatOf(stat, HeldBy(run - 1))
  BY Arguments DEF ClipInv, LevelInv, LevelStep, CountInv
<1>2. /\ stat' = IF ~above /\ ~below THEN Added(LevelRun) ELSE stat
      /\ run' = IF ~above /\ below THEN Len(Runs) + 1 ELSE run + 1
  BY DEF LevelStep
<1>3. /\ ~above /\ ~below => LevelRun = Q
      /\ above => Q = {}
      /\ below => \A i \in run .. Len(Runs), p \in Pixel : ~RunHolds(Runs[i], p)
  BY <1>1, LevelRunExact
<1>4. HeldBy(run) = HeldBy(run - 1) \cup Q /\ HeldBy(run - 1) \cap Q = {}
  BY <1>1, HeldByNext
<1>5. HeldBy(run - 1) \in SUBSET Pixel /\ Q \in SUBSET Pixel
  BY DEF HeldBy
<1> HIDE DEF above, below, Q
<1>6. CASE ~above /\ ~below
  <2>1. stat' = Added(Q) /\ run' - 1 = run
    BY <1>1, <1>2, <1>3, <1>6
  <2>2. StatOf(Added(Q), HeldBy(run - 1) \cup Q)
    BY <1>1, <1>4, <1>5, AddedAre
  <2> QED
    BY <1>4, <2>1, <2>2
<1>7. CASE above
  <2>1. stat' = stat /\ run' - 1 = run
    BY <1>1, <1>2, <1>7
  <2>2. HeldBy(run) = HeldBy(run - 1)
    BY <1>3, <1>4, <1>7
  <2> QED
    BY <1>1, <2>1, <2>2
<1>8. CASE ~above /\ below
  <2>1. stat' = stat /\ run' - 1 = Len(Runs)
    BY <1>1, <1>2, <1>8
  <2>2. HeldBy(Len(Runs)) = HeldBy(run - 1)
    <3>1. \A i \in 1 .. Len(Runs) : i \in 1 .. run - 1 \/ i \in run .. Len(Runs)
      BY <1>1
    <3>2. \A i \in 1 .. run - 1 : i \in 1 .. Len(Runs)
      BY <1>1
    <3> QED
      BY <1>3, <1>8, <3>1, <3>2 DEF HeldBy
  <2> QED
    BY <1>1, <2>1, <2>2
<1> QED
  BY <1>6, <1>7, <1>8

\* The same for the scan of zonalstat, which has no levels.
LEMMA ZonalCount ==
  ASSUME RunsApart, ClipInv, ZonalInv, KindInv, CountInv, ZonalStep
  PROVE  StatOf(stat', HeldBy(run' - 1))
<1> DEFINE Q == {p \in Pixel : RunHolds(Current, p)}
<1>1. /\ HasRuns /\ call.method = "zonal" /\ run \in DOMAIN Runs /\ DOMAIN Runs = 1 .. Len(Runs)
      /\ Len(Runs) \in Nat /\ Called /\ StatOf(stat, HeldBy(run - 1))
  BY Arguments DEF ClipInv, ZonalInv, ZonalStep, CountInv
<1>2. /\ stat' = IF ZonalMeets THEN Added(ZonalRun) ELSE stat
      /\ run' = IF Current.y >= Bottom THEN Len(Runs) + 1 ELSE run + 1
  BY DEF ZonalStep, ZonalMeets
<1>3. /\ ZonalMeets => ZonalRun = Q
      /\ ~ZonalMeets => Q = {}
      /\ Current.y >= Bottom =>
           \A i \in run .. Len(Runs), p \in Pixel : ~RunHolds(Runs[i], p)
  BY <1>1, ZonalRunExact
<1>4. HeldBy(run) = HeldBy(run - 1) \cup Q /\ HeldBy(run - 1) \cap Q = {}
  BY <1>1, HeldByNext
<1>5. HeldBy(run - 1) \in SUBSET Pixel /\ Q \in SUBSET Pixel
  BY DEF HeldBy
<1> HIDE DEF Q
<1>6. StatOf(stat', HeldBy(run))
  <2>1. CASE ZonalMeets
    <3>1. StatOf(Added(Q), HeldBy(run - 1) \cup Q)
      BY <1>1, <1>4, <1>5, AddedAre
    <3> QED
      BY <1>2, <1>3, <1>4, <2>1, <3>1
  <2>2. CASE ~ZonalMeets
    BY <1>1, <1>2, <1>3, <1>4, <2>2
  <2> QED
    BY <2>1, <2>2
<1>7. CASE ~(Current.y >= Bottom)
  <2>1. run' - 1 = run
    BY <1>1, <1>2, <1>7
  <2> QED
    BY <1>6, <2>1
<1>8. CASE Current.y >= Bottom
  <2>1. run' - 1 = Len(Runs)
    BY <1>1, <1>2, <1>8
  <2>2. HeldBy(Len(Runs)) = HeldBy(run)
    <3>1. \A i \in 1 .. Len(Runs) : i \in 1 .. run \/ i \in run .. Len(Runs)
      BY <1>1
    <3>2. \A i \in 1 .. run : i \in 1 .. Len(Runs)
      BY <1>1
    <3> QED
      BY <1>3, <1>8, <3>1, <3>2 DEF HeldBy
  <2> QED
    BY <1>6, <2>1, <2>2
<1> QED
  BY <1>7, <1>8

\* The kinds stay, whatever the order of the steps.
LEMMA KindStep == ClipInv /\ ZonalInv /\ KindInv /\ [ClipNext]_clipVars => KindInv'
<1> SUFFICES ASSUME ClipInv, ZonalInv, KindInv, [ClipNext]_clipVars PROVE KindInv'
  OBVIOUS
<1>1. CASE Request \/ ScriptClip2 \/ ConnectorClip \/ LevelOver \/ TestOver \/ CopyOver
             \/ ZonalStat \/ ZonalOver \/ UNCHANGED clipVars
  BY <1>1 DEF KindInv, Request, ScriptClip2, ConnectorClip, LevelOver, TestOver, CopyOver,
     ZonalStat, ZonalOver, clipVars, Return, Scan
<1>2. CASE ConnectorStatistic
  <2>1. stat' \in StatType
    BY <1>2, EmptyCount DEF ConnectorStatistic, StatOf
  <2> QED
    BY <1>2, <2>1 DEF KindInv, ConnectorStatistic, Return, Scan
<1>3. CASE ScriptClip
  <2>1. Top \in Nat
    BY <1>3, Arguments DEF ScriptClip, ClipInv, HasRuns, Flat
  <2> QED
    BY <1>3, <2>1 DEF KindInv, ScriptClip, Return, Scan
<1>4. CASE TestRun
  <2>1. /\ HasRuns /\ row \in Nat /\ run \in 1 .. Len(Runs) /\ Ordered /\ UNCHANGED call
        /\ Top \in Nat /\ Len(Runs)' = Len(Runs) /\ Len(Runs) \in Nat
    BY <1>4, Arguments, Frame DEF TestRun, ClipInv, ScanInv, KindInv
  <2>2. row' \in Nat /\ run' \in Nat \ {0}
    <3>1. CASE Meets
      BY <1>4, <2>1, <3>1 DEF TestRun
    <3>2. CASE ~Meets
      <4>1. Advance
        BY <1>4, <3>2 DEF TestRun
      <4>2. row' \in {row, row + 1} /\ run' \in 1 .. Len(Runs)'
        BY <2>1, <4>1, AdvanceStep
      <4> QED
        BY <2>1, <4>2
    <3> QED
      BY <3>1, <3>2
  <2> QED
    BY <1>4, <2>2 DEF KindInv, TestRun
<1>5. CASE CopyRun
  <2>1. /\ HasRuns /\ row \in Top .. Bottom - 1 /\ run \in 1 .. Len(Runs) /\ Ordered
        /\ UNCHANGED call /\ row \in Nat /\ run \in DOMAIN Runs /\ call.method = "clip"
        /\ Len(Runs)' = Len(Runs) /\ Len(Runs) \in Nat
    BY <1>5, Arguments, TileSize, Frame DEF CopyRun, ClipInv, ScanInv, KindInv
  <2>2. row' \in Nat /\ run' \in Nat \ {0}
    <3>1. Advance
      BY <1>5 DEF CopyRun
    <3>2. row' \in {row, row + 1} /\ run' \in 1 .. Len(Runs)'
      BY <2>1, <3>1, AdvanceStep
    <3> QED
      BY <2>1, <3>2
  <2>3. Meets => RowRun \subseteq Pixel
    BY <2>1, RowRunExact
  <2> QED
    BY <1>5, <2>2, <2>3 DEF KindInv, CopyRun
<1>6. CASE LevelStep
  <2>1. /\ HasRuns /\ ~Flat /\ run \in DOMAIN Runs /\ Called /\ Len(Runs) \in Nat /\ run \in Nat
    BY <1>6, Arguments DEF LevelStep, ClipInv, LevelInv
  <2>2. ~(Top >= RunBottom) /\ ~(Bottom <= RunTop) =>
           LevelRun \subseteq Pixel /\ Added(LevelRun) \in StatType
    <3>1. ~(Top >= RunBottom) /\ ~(Bottom <= RunTop) => LevelRun \subseteq Pixel
      BY <2>1, LevelRunExact
    <3> QED
      BY <2>1, <3>1, AddedTypes DEF KindInv
  <2>3. run' \in Nat \ {0}
    BY <1>6, <2>1 DEF LevelStep
  <2>4. kept' \subseteq Pixel /\ stat' \in StatType
    BY <1>6, <2>2 DEF LevelStep, KindInv
  <2> QED
    BY <1>6, <2>3, <2>4 DEF KindInv, LevelStep
<1>7. CASE ZonalStep
  <2>1. /\ HasRuns /\ call.method = "zonal" /\ run \in DOMAIN Runs /\ Called
        /\ Len(Runs) \in Nat /\ run \in Nat
    BY <1>7, Arguments DEF ZonalStep, ZonalInv, ClipInv
  <2>2. ZonalMeets => Added(ZonalRun) \in StatType
    <3>1. ZonalMeets => ZonalRun \subseteq Pixel
      BY <2>1, ZonalRunExact
    <3> QED
      BY <2>1, <3>1, AddedTypes DEF KindInv
  <2>3. run' \in Nat \ {0}
    BY <1>7, <2>1 DEF ZonalStep
  <2>4. stat' \in StatType
    BY <1>7, <2>2 DEF ZonalStep, KindInv, ZonalMeets
  <2> QED
    BY <1>7, <2>3, <2>4 DEF KindInv, ZonalStep
<1> QED
  BY <1>1, <1>2, <1>3, <1>4, <1>5, <1>6, <1>7 DEF ClipNext

\* What is counted stays that of the runs done, and in the end of the whole region.
LEMMA CountStep ==
  ASSUME RunsApart, ClipInv, ZonalInv, KindInv, CountInv, [ClipNext]_clipVars
  PROVE  CountInv'
<1>0. ClipInv'
  BY ClipInvStep
<1>1. CASE Request
  BY <1>1 DEF CountInv, Request, ClipInv
<1>2. CASE ScriptClip \/ TestRun \/ TestOver \/ CopyRun \/ CopyOver \/ ScriptClip2 \/ ConnectorClip
  BY <1>2 DEF CountInv, ClipInv, ScriptClip, TestRun, TestOver, CopyRun, CopyOver,
     ScriptClip2, ConnectorClip, Return, Scan, ScanInv
<1>3. CASE ConnectorStatistic
  <2>1. /\ stat' = [NoStat EXCEPT !.low = ValidMax, !.high = ValidMin] /\ UNCHANGED call
        /\ call.method = "statistic" /\ run = 1 /\ run' = 1 /\ answer = "none" /\ Called
        /\ clipPc = "called"
    BY <1>3 DEF ConnectorStatistic, ClipInv
  <2>2. StatOf(stat', {})
    BY <2>1, EmptyCount
  <2>3. /\ clipPc' \in {"level", "done"}
        /\ clipPc' = "level" => call.levels # <<>> /\ answer' = "none"
        /\ answer' = "results" => call.levels # <<>> /\ ~MayOverlap
    BY <1>3, <2>1 DEF ConnectorStatistic, Return, Scan
  <2>4. call.levels # <<>> => HasRuns /\ ~Flat
    BY <2>1 DEF HasRuns, Flat
  <2>5. clipPc' = "level" => StatOf(stat', HeldBy(run' - 1))
    BY <2>1, <2>2, <2>3, <2>4, HeldByAll
  <2>6. answer' = "results" => StatOf(stat', Counted)
    BY <2>2, <2>3, <2>4, NoOverlap DEF Counted
  <2> QED
    BY <2>1, <2>3, <2>5, <2>6, CountFrame DEF CountInv
<1>4. CASE LevelStep
  <2>1. /\ clipPc = "level" /\ clipPc' = "level" /\ UNCHANGED call /\ answer' = "none"
    BY <1>4 DEF LevelStep, ClipInv
  <2>2. call.method = "statistic" => StatOf(stat', HeldBy(run' - 1))
    BY <1>4, LevelCount
  <2> QED
    BY <2>1, <2>2, CountFrame DEF CountInv
<1>5. CASE LevelOver
  <2>1. /\ clipPc = "level" /\ clipPc' = "done" /\ UNCHANGED <<call, stat>> /\ LevelInv
        /\ answer' = IF call.method = "statistic" THEN "results" ELSE "dataset"
        /\ run > Len(Runs)
    BY <1>5 DEF LevelOver, ClipInv, Return
  <2>2. HasRuns /\ ~Flat /\ MayOverlap /\ Len(Runs) \in Nat /\ run - 1 = Len(Runs)
    BY <2>1, Arguments DEF LevelInv
  <2>3. ~BeginsBelow
    BY <2>2, OverlapBegins
  <2>4. call.method = "statistic" => StatOf(stat, Counted)
    BY <2>1, <2>2, <2>3, HeldByAll DEF CountInv, Counted
  <2> QED
    BY <2>1, <2>4, CountFrame DEF CountInv
<1>6. CASE ZonalStat
  <2>1. /\ clipPc = "called" /\ clipPc' = "zonal" /\ UNCHANGED <<call, stat>> /\ run' = 1
        /\ call.method = "zonal" /\ answer' = "none" /\ stat = NoStat /\ HasRuns
    BY <1>6 DEF ZonalStat, ClipInv, CountInv, HasRuns, Flat, Scan
  <2>2. StatOf(stat', HeldBy(run' - 1))
    BY <2>1, EmptyCount, HeldByAll
  <2> QED
    BY <2>1, <2>2, CountFrame DEF CountInv
<1>7. CASE ZonalStep
  <2>1. clipPc = "zonal" /\ clipPc' = "zonal" /\ UNCHANGED call /\ answer' = "none"
    BY <1>7 DEF ZonalStep, ClipInv
  <2>2. StatOf(stat', HeldBy(run' - 1))
    BY <1>7, ZonalCount
  <2> QED
    BY <2>1, <2>2, CountFrame DEF CountInv
<1>8. CASE ZonalOver
  <2>1. /\ clipPc = "zonal" /\ clipPc' = "done" /\ UNCHANGED <<call, stat>> /\ answer' = "results"
        /\ HasRuns /\ call.method = "zonal" /\ run \in 1 .. Len(Runs) + 1 /\ run > Len(Runs)
    BY <1>8 DEF ZonalOver, ZonalInv, Return
  <2>2. run - 1 = Len(Runs)
    BY <2>1, Arguments
  <2>3. StatOf(stat, Counted)
    BY <2>1, <2>2, HeldByAll DEF CountInv, Counted, Flat
  <2> QED
    BY <2>1, <2>3, CountFrame DEF CountInv
<1>9. CASE UNCHANGED clipVars
  BY <1>9, CountFrame DEF CountInv, clipVars
<1> QED
  BY <1>1, <1>2, <1>3, <1>4, <1>5, <1>6, <1>7, <1>8, <1>9 DEF ClipNext

\* Every variable stays in its domain, for regions of any runs: no scan writes outside
\* the arrays of the tile, and what is added up stays a number.
THEOREM ClipTypes == ClipSpec => []ClipTypeOK
<1>1. ClipInit => ClipInv /\ ZonalInv /\ KindInv
  BY ClipInvInit, EmptyCount DEF ClipInit, ZonalInv, KindInv
<1>2. ClipInv /\ ZonalInv /\ KindInv /\ [ClipNext]_clipVars => (ClipInv /\ ZonalInv /\ KindInv)'
  BY ClipInvStep, ZonalInvStep, KindStep
<1>3. ClipInv /\ KindInv => ClipTypeOK
  BY DEF ClipInv, KindInv, ClipTypeOK, Called, StatType
<1> QED
  BY <1>1, <1>2, <1>3, PTL DEF ClipSpec

\* What is counted of the whole region is what the statistics should be.
LEMMA ExactWhenCounted == ASSUME ClipInv, CountInv PROVE StatExact
<1> SUFFICES ASSUME answer = "results"
             PROVE  LET V == {p \in Counted : IsValid(p)}
                    IN  /\ stat.all = Cardinality(Counted)
                        /\ stat.fill = Cardinality({p \in Counted : IsFill(p)})
                        /\ stat.valid = Cardinality(V)
                        /\ stat.sum = MapThenSumSet(LAMBDA p : ValueAt(p), V)
                        /\ V # {} => stat.low = Min(Extremes(V)) /\ stat.high = Max(Extremes(V))
  BY DEF StatExact
<1> DEFINE V == Valid(Counted)
<1>1. StatOf(stat, Counted) /\ Called
  BY DEF CountInv, ClipInv
<1>2. V \in SUBSET Pixel
  BY DEF Valid, Counted, Covered
<1>3. V # {} => stat.low = Min(Extremes(V)) /\ stat.high = Max(Extremes(V))
  <2>1. V # {} => IsLeast(stat.low, V) /\ IsGreatest(stat.high, V)
    BY <1>1 DEF StatOf
  <2> HIDE DEF V
  <2> QED
    BY <1>1, <1>2, <2>1, LeastIsMin
<1>4. stat.sum = MapThenSumSet(LAMBDA p : ValueAt(p), V)
  BY <1>1, SumOfValues DEF StatOf
<1> QED
  BY <1>1, <1>3, <1>4 DEF StatOf, Valid, Filled

\* Statistics asked of regions whose runs are apart are those of the pixels of the
\* region, each counted once, for tiles of any size, at every level.
THEOREM StatisticsAreExact == RunsApart => (ClipSpec => []StatExact)
<1> SUFFICES ASSUME RunsApart PROVE ClipSpec => []StatExact
  OBVIOUS
<1>1. ClipInit => ClipInv /\ ZonalInv /\ KindInv /\ CountInv
  BY ClipInvInit, EmptyCount DEF ClipInit, ZonalInv, KindInv, CountInv
<1>2. ClipInv /\ ZonalInv /\ KindInv /\ CountInv /\ [ClipNext]_clipVars
        => (ClipInv /\ ZonalInv /\ KindInv /\ CountInv)'
  BY ClipInvStep, ZonalInvStep, KindStep, CountStep
<1>3. ClipInv /\ CountInv => StatExact
  BY ExactWhenCounted
<1> QED
  BY <1>1, <1>2, <1>3, PTL DEF ClipSpec

=============================================================================
