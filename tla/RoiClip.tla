------------------------------- MODULE RoiClip -------------------------------
(***************************************************************************)
(* Cutting a region out of a tile, and statistics over a region.  A region *)
(* is a list of horizontal runs of pixels, in pixels of the whole image at *)
(* one zoom level; a tile is Wid by Hei of these pixels.                   *)
(*                                                                         *)
(*   clip        script function: runs [x0, x1) of a PeRoi (peroi.cpp),    *)
(*               built for the zoom level of the tile                      *)
(*   clip2       script function: a region fetched from Java, with a list  *)
(*               of runs [x0, x1] for each of the first zoom levels;       *)
(*               deeper tiles use the last list, magnified                 *)
(*   tileclip    the connector's clipping of a finished tile, as clip2     *)
(*   statistic   the connector's statistics, over the runs of clip2        *)
(*   zonal       CppZonalStat: statistics, runs [x0, x1] at the tile's own *)
(*               zoom level                                                *)
(*                                                                         *)
(* The code has five copies of the scan.  A step here is one pass through  *)
(* the innermost loop over runs.  Bands are treated alike: one is enough.  *)
(***************************************************************************)
EXTENDS Integers, Sequences, FiniteSets, FiniteSetsExt

CONSTANTS
  Wid, Hei,           \* the size of a tile
  Tiles,              \* the tiles asked for, [z, y, x]
  Regions,            \* method -> the regions it is called with
  Pictures, Fills,    \* what the tiles hold, the fill values of the calls
  ValidMin, ValidMax  \* the range of values statistics are about

Pixel == (0 .. Wid - 1) \X (0 .. Hei - 1)   \* of a tile, <<column, row>>
Run == [y : Nat, x0 : Nat, x1 : Nat]
ClipMethods == {"clip", "clip2", "tileclip", "statistic", "zonal"}

\* compareFunc: std::sort orders the runs by row, and by nothing else.
SortedByRow(s) == \A i, j \in DOMAIN s : i < j => s[i].y <= s[j].y

\* A region: its lists of runs for the zoom levels 0, 1, ...; clip and zonal are
\* given one list, that of the zoom level of the tile.
Region == Seq({s \in Seq(Run) : SortedByRow(s)})

ASSUME ClipAssumption ==
  /\ Wid \in Nat \ {0} /\ Hei \in Nat \ {0}
  /\ Tiles \subseteq [z : Nat, y : Nat, x : Nat]
  /\ \A m \in ClipMethods : Regions[m] \subseteq Region
  /\ \A m \in {"clip", "zonal"} : \A r \in Regions[m] : Len(r) = 1
  /\ 2^0 = 1 /\ \A t \in Tiles : \A n \in 0 .. t.z : 2^n \in Nat \ {0}
  /\ Pictures \subseteq [Pixel -> Int] /\ Fills \subseteq Int
  /\ ValidMin \in Int /\ ValidMax \in Int /\ ValidMin <= ValidMax

VARIABLES
  call,      \* the arguments
  clipPc,    \* idle, called, outside, copy, level, zonal (the scans), done
  row,       \* curtiley
  run,       \* iseg: an index into the runs
  kept,      \* the pixels of the target that were copied; the others hold fill
  stat,      \* WStatisticData, StatResult
  answer     \* what the caller gets: dataset, null, passed, results, or none yet

clipVars == <<call, clipPc, row, run, kept, stat, answer>>

NoStat == [all |-> 0, fill |-> 0, valid |-> 0, sum |-> 0, low |-> 0, high |-> 0]

-----------------------------------------------------------------------------
(* The arguments as the code sees them.                                    *)

Top    == call.tile.y * Hei   \* tilefully0
Bottom == Top + Hei           \* tilefully1, exclusive
Left   == call.tile.x * Wid   \* tilefullx0
Right  == Left + Wid          \* tilefullx1, exclusive

Flat == call.method \in {"clip", "zonal"}

\* iroilevel and hseg_scale_to_tilez: deeper than the last list, double for
\* each level.
Deeper == call.tile.z - (Len(call.levels) - 1)
Level == IF call.tile.z < Len(call.levels) THEN call.tile.z + 1 ELSE Len(call.levels)
Scale_Slip == IF Flat \/ Deeper <= 1 THEN 1 ELSE 2^(Deeper - 1)
Scale == IF Flat \/ call.tile.z < Len(call.levels) THEN 1 ELSE 2^Deeper

Runs == call.levels[IF Flat THEN 1 ELSE Level]
Current == Runs[run]
FirstRow == Runs[1].y * Scale             \* roi_top_y_in_full
LastRow == Runs[Len(Runs)].y * Scale      \* roi_btm_y_in_full
MayOverlap_Slip == Runs # <<>> /\ FirstRow < Bottom /\ LastRow > Top
MayOverlap == Runs # <<>> /\ FirstRow < Bottom /\ LastRow >= Top

Larger(a, b)  == IF a < b THEN b ELSE a
Smaller(a, b) == IF b < a THEN b ELSE a

-----------------------------------------------------------------------------
(* What a region is, whatever the scan.                                    *)

\* A run holds a pixel if it holds the cell of its level that the pixel lies in:
\* list l is for zoom level l - 1, whose cells are Cell pixels of the tile's wide.
Cell == IF Flat THEN 1 ELSE 2^(call.tile.z - (Level - 1))
RunHolds(r, p) ==
  LET x == (Left + p[1]) \div Cell
      y == (Top + p[2]) \div Cell
  IN  /\ r.y = y
      /\ r.x0 <= x
      /\ IF call.method = "clip" THEN x < r.x1 ELSE x <= r.x1
InRegion(p) == \E i \in DOMAIN Runs : RunHolds(Runs[i], p)
Covered == {p \in Pixel : InRegion(p)}

-----------------------------------------------------------------------------
(* The scans.  First the row by row scan of innerTileOutsideRoi and        *)
(* innerCopyRoiData, whose cursor never goes back.                         *)

Meets == Current.y = row /\ Current.x0 < Right /\ Current.x1 >= Left
RowRun ==
  {<<x, row - Top>> : x \in Larger(Left, Current.x0) - Left
                         .. Smaller(Right, Current.x1) - Left - 1}

\* The next run of the row, or the next row, which starts at the run where this
\* one stopped.
Advance_Slip ==
  IF Current.y > row \/ run = Len(Runs) THEN row' = row + 1 /\ run' = Len(Runs)
                                        ELSE row' = row /\ run' = run + 1
Advance_Restart ==
  IF Current.y > row \/ run = Len(Runs) THEN row' = row + 1 /\ run' = 1
                                        ELSE row' = row /\ run' = run + 1
Advance ==
  IF Current.y > row \/ run = Len(Runs) THEN row' = row + 1 /\ run' = run
                                        ELSE row' = row /\ run' = run + 1

\* Then the run by run scan of innerCopyRoiData2 and computeStatistic: a run is
\* Scale rows high.
RunTop == Current.y * Scale
RunBottom == RunTop + Scale
LevelRows_Slip == {RunTop - Top} \cap (0 .. Hei - 1)
LevelRows == {y - Top : y \in RunTop .. RunBottom - 1} \cap (0 .. Hei - 1)
LevelColumns_Slip == Larger(0, Current.x0 * Scale - Left) .. (Current.x1 + 1) * Scale - Left - 1
LevelColumns ==
  Larger(0, Current.x0 * Scale - Left) .. Smaller(Wid, (Current.x1 + 1) * Scale - Left) - 1
LevelRun == LevelColumns \X LevelRows

\* And that of zonalstat.
ZonalRun_Slip ==
  {<<x, Current.y - Top>> : x \in Larger(0, Current.x0 - Left)
                               .. Smaller(Wid, Current.x1 - Left) - 1}
ZonalRun ==
  {<<x, Current.y - Top>> : x \in Larger(0, Current.x0 - Left)
                               .. Smaller(Wid - 1, Current.x1 - Left)}

-----------------------------------------------------------------------------
(* What the two statistics add up.                                         *)

ValueAt(p) == call.picture[p]
InRange(p) == ValidMin <= ValueAt(p) /\ ValueAt(p) <= ValidMax

\* computeStatistic asks for the fill value first, zonalstat for the range.
IsFill(p) == ValueAt(p) = call.fill /\ (call.method = "statistic" \/ ~InRange(p))
IsValid(p) == InRange(p) /\ ~IsFill(p)

\* Where the extremes start: validMin at the top of the range and validMax at
\* its bottom, or at the first valid value.
Extremes(P) == {ValueAt(p) : p \in P}
LowAfter(V) ==
  IF V = {} THEN stat.low
  ELSE IF call.method = "zonal" /\ stat.valid = 0 THEN Min(Extremes(V))
  ELSE Min(Extremes(V) \cup {stat.low})
HighAfter(V) ==
  IF V = {} THEN stat.high
  ELSE IF call.method = "zonal" /\ stat.valid = 0 THEN Max(Extremes(V))
  ELSE Max(Extremes(V) \cup {stat.high})

\* The statistics after the pixels of one run.
Added(P) ==
  LET V == {p \in P : IsValid(p)}
  IN  [all   |-> stat.all + Cardinality(P),
       fill  |-> stat.fill + Cardinality({p \in P : IsFill(p)}),
       valid |-> stat.valid + Cardinality(V),
       sum   |-> stat.sum + MapThenSumSet(LAMBDA p : ValueAt(p), V),
       low   |-> LowAfter(V),
       high  |-> HighAfter(V)]

-----------------------------------------------------------------------------
None == [method |-> "none"]

\* The calls of a method.
CallsOf(m) ==
  [method : {m}, tile : Tiles, levels : Regions[m], picture : Pictures, fill : Fills]

ClipInit ==
  /\ call = None
  /\ clipPc = "idle"
  /\ row = 0 /\ run = 1
  /\ kept = {}
  /\ stat = NoStat
  /\ answer = "none"

Return(a) == clipPc' = "done" /\ answer' = a
Scan(pc) == clipPc' = pc /\ answer' = answer

Request ==
  /\ clipPc = "idle"
  /\ \E m \in ClipMethods : call' \in CallsOf(m)
  /\ clipPc' = "called"
  /\ UNCHANGED <<row, run, kept, stat, answer>>

\* GlobalFunc_ClipCallBack, with good arguments: a tile outside has no result.
ScriptClip ==
  /\ clipPc = "called" /\ call.method = "clip"
  /\ row' = Top
  /\ IF MayOverlap THEN Scan("outside") ELSE Return("null")
  /\ UNCHANGED <<call, run, kept, stat>>

\* One pass of innerTileOutsideRoi; the first run met ends it, and the copying
\* starts from the top.
TestRun ==
  /\ clipPc = "outside" /\ row < Bottom
  /\ IF Meets THEN clipPc' = "copy" /\ row' = Top /\ run' = 1
              ELSE clipPc' = clipPc /\ Advance
  /\ UNCHANGED <<call, kept, stat, answer>>

TestOver ==
  /\ clipPc = "outside" /\ row = Bottom
  /\ Return("null")
  /\ UNCHANGED <<call, row, run, kept, stat>>

\* One pass of innerCopyRoiData.
CopyRun ==
  /\ clipPc = "copy" /\ row < Bottom
  /\ kept' = IF Meets THEN kept \cup RowRun ELSE kept
  /\ Advance
  /\ UNCHANGED <<call, clipPc, stat, answer>>

CopyOver ==
  /\ clipPc = "copy" /\ row = Bottom
  /\ Return("dataset")
  /\ UNCHANGED <<call, row, run, kept, stat>>

\* GlobalFunc_Clip2CallBack: the identifier, the fill value, Java or the region's
\* data may be at fault, or isTileOverlay (external) sees no overlap, which it may
\* only say of a tile the region does not cover.  A region without lists makes
\* innerCopyRoiData2 return false, which the callback does not look at.
ScriptClip2 ==
  /\ clipPc = "called" /\ call.method = "clip2"
  /\ \/ Return("null")
     \/ \E overlay \in BOOLEAN :
          /\ (call.levels # <<>> /\ Covered # {}) => overlay
          /\ IF ~overlay THEN Return("null")
             ELSE IF call.levels # <<>> /\ MayOverlap THEN Scan("level")
             ELSE Return("dataset")
  /\ UNCHANGED <<call, row, run, kept, stat>>

\* The connector's methods: a tile without data (status not 0) is passed on, a
\* region without lists is an error.
ConnectorClip ==
  /\ clipPc = "called" /\ call.method = "tileclip"
  /\ \/ Return("passed")
     \/ call.levels = <<>> /\ Return("null")
     \/ /\ call.levels # <<>>
        /\ IF MayOverlap THEN Scan("level") ELSE Return("dataset")
  /\ UNCHANGED <<call, row, run, kept, stat>>

ConnectorStatistic ==
  /\ clipPc = "called" /\ call.method = "statistic"
  /\ stat' = [NoStat EXCEPT !.low = ValidMax, !.high = ValidMin]
  /\ \/ Return("passed")
     \/ call.levels = <<>> /\ Return("null")
     \/ /\ call.levels # <<>>
        /\ IF MayOverlap THEN Scan("level") ELSE Return("results")
  /\ UNCHANGED <<call, row, run, kept>>

\* Java_com_pixelengine_CppZonalStat_doit.
ZonalStat ==
  /\ clipPc = "called" /\ call.method = "zonal"
  /\ Scan("zonal")
  /\ UNCHANGED <<call, row, run, kept, stat>>

\* One pass of innerCopyRoiData2 or computeStatistic over a run: above the tile,
\* below it (the end), or in it.
LevelStep ==
  /\ clipPc = "level" /\ run <= Len(Runs)
  /\ LET inside == ~(Top >= RunBottom) /\ ~(Bottom <= RunTop)
         below == ~(Top >= RunBottom) /\ Bottom <= RunTop
     IN  /\ kept' = IF inside /\ call.method # "statistic" THEN kept \cup LevelRun ELSE kept
         /\ stat' = IF inside /\ call.method = "statistic" THEN Added(LevelRun) ELSE stat
         /\ run' = IF below THEN Len(Runs) + 1 ELSE run + 1
  /\ UNCHANGED <<call, clipPc, row, answer>>

LevelOver ==
  /\ clipPc = "level" /\ run > Len(Runs)
  /\ Return(IF call.method = "statistic" THEN "results" ELSE "dataset")
  /\ UNCHANGED <<call, row, run, kept, stat>>

\* One pass of zonalstat.
ZonalStep ==
  /\ clipPc = "zonal" /\ run <= Len(Runs)
  /\ stat' = IF /\ Current.y >= Top /\ Current.y < Bottom
                /\ Current.x0 < Right /\ Current.x1 >= Left
             THEN Added(ZonalRun) ELSE stat
  /\ run' = IF Current.y >= Bottom THEN Len(Runs) + 1 ELSE run + 1
  /\ UNCHANGED <<call, clipPc, row, kept, answer>>

ZonalOver ==
  /\ clipPc = "zonal" /\ run > Len(Runs)
  /\ Return("results")
  /\ UNCHANGED <<call, row, run, kept, stat>>

ClipNext ==
  \/ Request \/ ScriptClip \/ TestRun \/ TestOver \/ CopyRun \/ CopyOver
  \/ ScriptClip2 \/ ConnectorClip \/ ConnectorStatistic \/ LevelStep \/ LevelOver
  \/ ZonalStat \/ ZonalStep \/ ZonalOver

ClipSpec == ClipInit /\ [][ClipNext]_clipVars

-----------------------------------------------------------------------------
(* Properties                                                              *)

\* Every variable stays in its domain; in particular no pixel outside the arrays
\* of the tile is written, however a run sticks out of it.
ClipTypeOK ==
  /\ clipPc # "idle" => call \in CallsOf(call.method) /\ call.method \in ClipMethods
  /\ clipPc \in {"idle", "called", "outside", "copy", "level", "zonal", "done"}
  /\ row \in Nat /\ run \in Nat \ {0}
  /\ kept \subseteq Pixel
  /\ stat \in [all : Nat, fill : Nat, valid : Nat, sum : Int, low : Int, high : Int]
  /\ answer \in {"none", "dataset", "null", "passed", "results"}

\* clip keeps the pixels of the region and no others, whatever the order of the
\* runs of a row and however they overlap; and it answers null for no tile that
\* the region covers a part of (its cursor skips no run).
ClipExact ==
  call.method = "clip" =>
    /\ kept \subseteq Covered
    /\ answer = "dataset" => kept = Covered
    /\ answer = "null" => Covered = {}

\* A tile that begins below the first pixel row of the last run, magnified or not.
BeginsBelow == Runs # <<>> /\ LastRow < Top

\* clip2 and the connector's clipping keep no pixel outside the region at any
\* level, and all those inside unless the tile begins below the top of the last
\* run, where they keep none.
LevelClipExact ==
  call.method \in {"clip2", "tileclip"} /\ call.levels # <<>> =>
    /\ kept \subseteq Covered
    /\ answer = "dataset" => kept = IF BeginsBelow THEN {} ELSE Covered

\* With tiles a whole number of magnified pixels high (256 rows, up to eight levels
\* deeper than the last list) no tile begins inside a run, and all pixels inside
\* are kept at every level.
LevelClipWhole ==
  /\ call.method \in {"clip2", "tileclip"} /\ call.levels # <<>>
  /\ answer = "dataset" /\ Hei % Scale = 0
  => kept = Covered

\* Every scan comes to an end, and is no longer than the rows of the tile and the
\* runs of the region together, twice over for clip: no pass leaves the cursor
\* where it was or takes it back.
PassesLeft ==
  CASE clipPc = "called"  -> IF call.levels = <<>> THEN 1 ELSE 2 * (Hei + Len(Runs)) + 4
    [] clipPc = "outside" -> (Bottom - row) + (Len(Runs) - run) + (Hei + Len(Runs)) + 3
    [] clipPc = "copy"    -> (Bottom - row) + (Len(Runs) - run) + 1
    [] clipPc \in {"level", "zonal"} -> (Len(Runs) - run) + 2
    [] OTHER -> 0
ClipShortens ==
  [][clipPc # "idle" => PassesLeft' < PassesLeft /\ PassesLeft' >= 0]_clipVars

\* Runs of the same row do not overlap, as in the list of a region coded by its rows;
\* and the regions that statistics are asked of are lists of such runs.
Apart(l) ==
  \A i, j \in DOMAIN l :
    i # j /\ l[i].y = l[j].y => l[i].x1 < l[j].x0 \/ l[j].x1 < l[i].x0
RunsApart ==
  \A m \in {"statistic", "zonal"} :
    \A r \in Regions[m] : \A k \in DOMAIN r : Apart(r[k])

\* Both statistics are those of the pixels of the region, each counted once, for
\* runs that do not overlap; the fill value comes before the range in one and
\* after it in the other.
Counted == IF ~Flat /\ BeginsBelow THEN {} ELSE Covered
StatExact ==
  answer = "results" =>
    LET V == {p \in Counted : IsValid(p)}
    IN  /\ stat.all = Cardinality(Counted)
        /\ stat.fill = Cardinality({p \in Counted : IsFill(p)})
        /\ stat.valid = Cardinality(V)
        /\ stat.sum = MapThenSumSet(LAMBDA p : ValueAt(p), V)
        /\ V # {} => stat.low = Min(Extremes(V)) /\ stat.high = Max(Extremes(V))
=============================================================================
