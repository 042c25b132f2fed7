------------------------------ MODULE TileFinish ------------------------------
(***************************************************************************)
(* Finishing a tile: the connector cuts a region out of the tile that a    *)
(* script has answered, ClipBinaryTileData, makes a picture of the result, *)
(* RenderTileData2Rgba, and lays it out for PNG, ConvertRgbaData2PngBinary.*)
(* The three native methods share nothing: Java hands the bytes of one to  *)
(* the next.  Clipping and rendering also go on by themselves, as RoiClip  *)
(* and StyleRender have it.                                                *)
(***************************************************************************)
EXTENDS RoiClip, StyleRender

CONSTANT FinishStyles  \* the styles that clipped tiles are rendered by

ASSUME FinishAssumption ==
  /\ Area = Wid * Hei
  /\ FinishStyles \subseteq Styles

finishVars == <<clipVars, styleVars>>

FinishInit == ClipInit /\ StyleInit

\* The pixels of a tile row by row, as its bytes are.
PixelOf(p) == <<p % Wid, p \div Wid>>

\* What ClipBinaryTileData gives: an array of the tile's type, in which the pixels
\* that were not copied hold the fill value.
ClippedTile_Slip ==
  [whole |-> TRUE,
   bands |-> <<[p \in Dots |-> Unit * IF PixelOf(p) \in kept THEN call.picture[PixelOf(p)] ELSE 0]>>]
ClippedTile ==
  [whole |-> TRUE,
   bands |-> <<[p \in Dots |->
                  Unit * IF PixelOf(p) \in kept THEN call.picture[PixelOf(p)] ELSE call.fill]>>]

RenderClipped ==
  /\ stylePc = "idle" /\ clipPc = "done"
  /\ call.method = "tileclip" /\ answer = "dataset"
  /\ \E s \in FinishStyles : RenderStyle("connector", s, ClippedTile)
  /\ UNCHANGED clipVars

FinishNext ==
  \/ stylePc = "idle" /\ ClipNext /\ UNCHANGED styleVars
  \/ (clipPc = "idle" \/ stylePc # "idle") /\ StyleNext /\ UNCHANGED clipVars
  \/ RenderClipped

FinishSpec == FinishInit /\ [][FinishNext]_finishVars /\ StyleFair

-----------------------------------------------------------------------------
(* Properties                                                              *)

\* A picture of a clipped tile, by a style that lists its values one by one and
\* has the fill value for no data: pixels outside the region have the colour for
\* no data; those inside have the colour of their own value before clipping,
\* unless the style does not list it.  The region is not scaled, shifted or turned
\* on its way through three arrays of different layout.
FinishedExact ==
  /\ call.method = "tileclip" /\ answer = "dataset" /\ ~BeginsBelow
  /\ image.as = "pixels" /\ job.how = "exact" /\ job.nodata.v = Unit * call.fill
  => \A p \in Dots :
       LET v == Unit * call.picture[PixelOf(p)]
           same == {i \in 0 .. Count - 1 : V(i) = v}
       IN  IF ~InRegion(PixelOf(p)) \/ v = job.nodata.v \/ same = {}
           THEN Shown(p) = job.nodata.c
           ELSE \A i \in same : Shown(p) = At(i).c

\* The styles list whole numbers, in increasing order.
ListsValues ==
  \A s \in FinishStyles :
    s.type = "exact" =>
      /\ s.table # <<>>
      /\ \A i, j \in 1 .. Len(s.table) :
           Trunc(s.table[i].v) = s.table[i].v /\ (i < j => s.table[i].v < s.table[j].v)

-----------------------------------------------------------------------------
(* The strengthening of this property that every step preserves.           *)

\* A picture of a clipped tile: by one of the styles, of what the call has kept.
FinishJob ==
  stylePc # "idle" /\ clipPc # "idle" =>
    /\ clipPc = "done" /\ call.method = "tileclip" /\ answer = "dataset"
    /\ job.via = "connector" /\ job.whole
    /\ \E s \in FinishStyles :
         /\ job.how = s.type /\ job.table = s.table
         /\ job.count = Len(s.table) /\ job.nodata = s.nodata
    /\ job.plane = ClippedTile.bands[1]
ListsGiven == call.method = "tileclip" /\ answer = "dataset" => call.levels # <<>>
FinishInv == ListsGiven /\ FinishJob
=============================================================================
