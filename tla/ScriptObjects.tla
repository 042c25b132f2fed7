---------------------------- MODULE ScriptObjects ----------------------------
(***************************************************************************)
(* The objects a script works on while its main() runs: Datasets (one      *)
(* typed array) and DatasetCollections (one typed array per datetime), the *)
(* arrays themselves, which objects may come to share, and m_dsnameDtVec,  *)
(* the record of what the script has read.                                 *)
(*                                                                         *)
(* A value is abstracted to what it depends on: a cell of an array is the  *)
(* set of <<source, pixel>> it was computed from, a source being one band  *)
(* of one tile of a data set.  Arrays are flat, as in the code: band b of  *)
(* pixel p is cell (b - 1) * size + p.  `made' is history: for each array, *)
(* band and pixel the sources the script asked for.  Width times height is *)
(* one number, `size'.  The labels dsName, dsDt, z, y and x, which no      *)
(* callback modelled here reads, and the log are left out.                 *)
(*                                                                         *)
(* A call that returns early is an action only where it has done something *)
(* by then.  Every object stays reachable: the script may use any of them. *)
(***************************************************************************)
EXTENDS Naturals, Sequences, FiniteSets

CONSTANTS
    Names,          \* the data sets Java can read
    Product,        \* [Names -> Shape]: what a tile of each looks like
    Stated,         \* datetimes as scripts state them, 0 and relative ones too
    ResolvedAt,     \* [Stated -> moments]: what pe.Dataset makes of them
    Tiles, Here,    \* tile coordinates; those of the engine's tileInfo
    Region,         \* [Tiles -> set of pixels]: a region, tile by tile
    DtLists,        \* the datetime arrays a script passes, empty ones too
    ListLists,      \* the lists of such arrays it passes
    Neighbours,     \* the tiles a script asks GetTileData for
    Finds,          \* the moments Java may find between two datetimes
    NewShapes,      \* the shapes a script makes objects of
    OutTypes,       \* the types a script asks for
    MaxElements,    \* bound on arrays of objects, bands and datetimes made
    MaxCalls,       \* bound on the calls of a script
    Careless,       \* what callbacks leave to scripts, and scripts ignore
    Unknown         \* the source of a cell that was misread

Byte    == 1
Short   == 3
Float64 == 7
Types   == 1 .. 7

(* What a script has to see to, since no callback does: bands that exist, types
   a callback serves, masks of one band, collections of one shape, arrays for
   each element of their own and of one shape, tiles that are the engine's; and
   to convert nothing but doubles, the only data a conversion reads as such. *)
Duties == {"band", "type", "mask", "shape", "array", "tile", "double"}

Shape == [type : Types, size : Nat \ {0}, nband : Nat \ {0}]

Moments == {ResolvedAt[t] : t \in Stated}

Source == [name : Names, moment : Stated \cup Moments,
           tile : Tiles, band : Nat]

ASSUME ObjectsAssumption ==
    /\ Product \in [Names -> Shape]
    /\ 0 \in Stated
    /\ NewShapes \subseteq Shape
    /\ OutTypes \subseteq Nat
    /\ Here \in Tiles
    /\ Region \in [Tiles -> SUBSET Nat]
    /\ DtLists \subseteq Seq(Stated)
    /\ ListLists \subseteq Seq(DtLists)
    /\ Neighbours \subseteq Tiles
    /\ Finds \subseteq Seq(Moments)
    /\ MaxElements \in Nat /\ MaxCalls \in Nat
    /\ Careless \subseteq Duties
    /\ Unknown \notin Source

VARIABLES
    objs,           \* the objects, in the order of their making
    mem,            \* the arrays behind them: <<object, element>> -> array
    record,         \* m_dsnameDtVec: <<name, datetime as stated>>
    unrecorded,     \* history: the sources read by callbacks that record nothing
    calls           \* calls so far

records == <<record, unrecorded>>
vars == <<objs, mem, records, calls>>

Datasets    == {o \in DOMAIN objs : objs[o].kind = "dataset"}
Collections == {o \in DOMAIN objs : objs[o].kind = "collection"}
DsArrays    == {o \in DOMAIN objs : objs[o].kind = "dsarray"}

Kinds == {"dataset", "collection", "dsarray", "tiledata", "png"}

Lists(S) == UNION {[1 .. n -> S] : n \in 1 .. MaxElements}

-----------------------------------------------------------------------------
(* Flat arrays. *)

Block(b, p, size) == (b - 1) * size + p
PixelOf(i, size)  == ((i - 1) % size) + 1
BandOf(i, size)   == ((i - 1) \div size) + 1

ArrayOf(type, cells) == [type |-> type, cells |-> cells]

Cells(nband, size) == 1 .. nband * size

BandsOf(nband, size) == (1 .. nband) \X (1 .. size)

(* What a callback finds that takes element i of an array for one of a type:
   the element, or something else where type or length are not the array's. *)
Read(a, type, i) ==
    IF mem[a].type = type /\ i \in DOMAIN mem[a].cells
    THEN mem[a].cells[i]
    ELSE {<<Unknown, 0>>}

Data(d) == objs[d].bufs[1]

Pixel(d, i) == Read(Data(d), objs[d].type, i)

(* `made', where it says something. *)
MadeIn(g, b, p) == IF <<b, p>> \in DOMAIN g THEN g[<<b, p>>] ELSE {}

Made(o, e, b, p) == MadeIn(objs[o].made[e], b, p)

Fits(o, e) ==
    Len(mem[objs[o].bufs[e]].cells) = objs[o].nband * objs[o].size

SameShape(o, q) ==
    objs[o].type = objs[q].type /\ objs[o].size = objs[q].size

-----------------------------------------------------------------------------
(* CPP_NewDataset and CPP_NewDatasetCollection: new objects get new arrays. *)

Called == calls < MaxCalls /\ calls' = calls + 1

Arrays(o, n) == [e \in 1 .. n |-> <<o, e>>]

Object(kind, shape, arrays, made) ==
    [kind |-> kind, type |-> shape.type, size |-> shape.size,
     nband |-> shape.nband, arrays |-> arrays, made |-> made]

Allocate(news) ==
    LET n == Len(objs)
        fresh == UNION {{<<n + k, e>> : e \in DOMAIN news[k].arrays} :
                            k \in DOMAIN news}
    IN /\ objs' = objs \o [k \in DOMAIN news |->
            [kind |-> news[k].kind, type |-> news[k].type,
             size |-> news[k].size, nband |-> news[k].nband,
             bufs |-> Arrays(n + k, Len(news[k].arrays)),
             made |-> news[k].made]]
       /\ mem' = [a \in DOMAIN mem \cup fresh |->
            IF a \in DOMAIN mem THEN mem[a] ELSE news[a[1] - n].arrays[a[2]]]

(* A new Dataset with its cells and their history. *)
CPP_NewDataset(type, size, nband, cells, made) ==
    Allocate(<<Object("dataset", [type |-> type, size |-> size, nband |-> nband],
                      <<ArrayOf(type, cells)>>, <<made>>)>>)

(* New collections: for each the arrays of its elements, and their histories. *)
CPP_NewDatasetCollection(shape, arrays, mades) ==
    Allocate([k \in DOMAIN arrays |->
                  Object("collection", shape, arrays[k], mades[k])])

Init ==
    /\ objs = <<>>
    /\ mem = <<>>
    /\ record = {}
    /\ unrecorded = {}
    /\ calls = 0

-----------------------------------------------------------------------------
(* Loading, through Java, which may have nothing. *)

SourceOf(name, moment, tile, b) ==
    [name |-> name, moment |-> moment, tile |-> tile, band |-> b]

Loaded(name, moment, tile) ==
    LET shape == Product[name]
    IN ArrayOf(shape.type, [i \in Cells(shape.nband, shape.size) |->
            {<<SourceOf(name, moment, tile, BandOf(i, shape.size)),
               PixelOf(i, shape.size)>>}])

MadeOf(name, moment, tile) ==
    [bp \in BandsOf(Product[name].nband, Product[name].size) |->
        {SourceOf(name, moment, tile, bp[1])}]

(* A slip: only the first datetime of a list is recorded. *)
Asked_Slip(name, dts) == IF dts = <<>> THEN {} ELSE {<<name, dts[1]>>}

Asked(name, dts) == {<<name, dts[i]>> : i \in DOMAIN dts}

LoadDataset(name, moment, tile) ==
    Allocate(<<Object("dataset", Product[name],
                      <<Loaded(name, moment, tile)>>,
                      <<MadeOf(name, moment, tile)>>)>>)

(* pe.Dataset: recorded as stated, before it is resolved and read.  A script
   may name another tile than the engine's, and the bands, here all. *)
Dataset(name, t, tile) ==
    /\ Called
    /\ record' = record \cup Asked(name, <<t>>)
    /\ UNCHANGED unrecorded
    /\ \/ UNCHANGED <<objs, mem>>
       \/ LoadDataset(name, ResolvedAt[t], tile)

(* pe.Datafile: Java looks for datetime 0, which means any. *)
Datafile(name) ==
    /\ Called
    /\ record' = record \cup Asked(name, <<0>>)
    /\ UNCHANGED unrecorded
    /\ \/ UNCHANGED <<objs, mem>>
       \/ LoadDataset(name, 0, Here)

(* What Java may return for a list: some of its datetimes. *)
Got(dts) == {g \in UNION {[1 .. n -> {dts[i] : i \in DOMAIN dts}] :
                              n \in 1 .. Len(dts)} :
                \A i, j \in DOMAIN g : g[i] = g[j] => i = j}

LoadCollections(name, got) ==
    CPP_NewDatasetCollection(Product[name],
        [k \in DOMAIN got |->
            [e \in DOMAIN got[k] |-> Loaded(name, got[k][e], Here)]],
        [k \in DOMAIN got |->
            [e \in DOMAIN got[k] |-> MadeOf(name, got[k][e], Here)]])

(* pe.DatasetCollection: the datetimes are not resolved. *)
DatasetCollection(name, dts) ==
    /\ Called
    /\ dts # <<>>
    /\ record' = record \cup Asked(name, dts)
    /\ UNCHANGED unrecorded
    /\ \/ UNCHANGED <<objs, mem>>
       \/ \E g \in Got(dts) : LoadCollections(name, <<g>>)

(* pe.DatasetCollections: one list after the other.  At the first that is
   empty, before it is recorded, or fails, the script gets nothing. *)
DatasetCollections(name, lists) ==
    /\ Called
    /\ UNCHANGED unrecorded
    /\ \/ \E k \in DOMAIN lists :
            /\ \A j \in 1 .. k - 1 : lists[j] # <<>>
            /\ record' = record \cup UNION {Asked(name, lists[j]) : j \in 1 .. k}
            /\ UNCHANGED <<objs, mem>>
       \/ /\ \A j \in DOMAIN lists : lists[j] # <<>>
          /\ record' = record \cup
                UNION {Asked(name, lists[j]) : j \in DOMAIN lists}
          /\ \E got \in [DOMAIN lists -> UNION {Got(lists[j]) :
                                                 j \in DOMAIN lists}] :
                /\ \A j \in DOMAIN lists : got[j] \in Got(lists[j])
                /\ LoadCollections(name, got)

-----------------------------------------------------------------------------
(* The older callbacks, which record nothing. *)

SourcesOf(name, moment, tile) ==
    {SourceOf(name, moment, tile, b) : b \in 1 .. Product[name].nband}

(* pe.DatasetArray: what Java finds between two datetimes, perhaps nothing.  Of
   types but byte and short the arrays are left out, and cannot be read. *)
DatasetArray(name, found) ==
    /\ Called
    /\ UNCHANGED record
    /\ \/ UNCHANGED <<objs, mem, unrecorded>>
       \/ /\ Product[name].type \in {Byte, Short}
          /\ unrecorded' = unrecorded \cup
                UNION {SourcesOf(name, found[e], Here) : e \in DOMAIN found}
          /\ Allocate(<<Object("dsarray", Product[name],
                              [e \in DOMAIN found |-> Loaded(name, found[e], Here)],
                              [e \in DOMAIN found |-> MadeOf(name, found[e], Here)])>>)

(* pe.GetTileData: an array of any tile, and no object around it. *)
GetTileData(name, t, tile) ==
    /\ Called
    /\ UNCHANGED record
    /\ \/ UNCHANGED <<objs, mem, unrecorded>>
       \/ /\ unrecorded' = unrecorded \cup SourcesOf(name, ResolvedAt[t], tile)
          /\ Allocate(<<Object("tiledata", Product[name],
                              <<Loaded(name, ResolvedAt[t], tile)>>,
                              <<MadeOf(name, ResolvedAt[t], tile)>>)>>)

-----------------------------------------------------------------------------
(* New objects, filled with zeros. *)

Zeros(shape) ==
    ArrayOf(shape.type, [i \in Cells(shape.nband, shape.size) |-> {}])
NoSource(shape) == [bp \in BandsOf(shape.nband, shape.size) |-> {}]

(* pe.NewDataset *)
NewDataset(shape) ==
    /\ Called
    /\ Allocate(<<Object("dataset", shape, <<Zeros(shape)>>,
                         <<NoSource(shape)>>)>>)
    /\ UNCHANGED records

(* pe.NewDatasetCollection *)
NewDatasetCollection(shape, n) ==
    /\ Called
    /\ CPP_NewDatasetCollection(shape, <<[e \in 1 .. n |-> Zeros(shape)]>>,
                                <<[e \in 1 .. n |-> NoSource(shape)]>>)
    /\ UNCHANGED records

-----------------------------------------------------------------------------
(* Dataset to Dataset. *)

(* A slip: the upper bound is forgotten. *)
ValidType_Slip(type) == type >= 1

ValidType(type) == type \in Types

(* innerCopyArrayData: no case of its outer switch ends in a break, so that of
   doubles, the last one, is run for data of every type, and overwrites what the
   case of the type has copied: bytes are read as doubles, and beyond their end. *)
Converted(d, i) == Read(Data(d), Float64, i)

(* dataset.convertToDataType, and toByte ... toFloat64, which call it. *)
ConvertToDataType(d, type) ==
    LET size == objs[d].size
        nband == objs[d].nband
        cells == [i \in Cells(nband, size) |-> Converted(d, i)]
        made == [bp \in BandsOf(nband, size) |-> Made(d, 1, bp[1], bp[2])]
    IN /\ Called
       /\ ValidType(type)
       /\ CPP_NewDataset(type, size, nband, cells, made)
       /\ UNCHANGED records

(* Four bands of bytes, each from one band of d, or from none (0). *)
Render(d, type, from) ==
    LET size == objs[d].size
        cells == [i \in Cells(4, size) |->
            IF from[BandOf(i, size)] = 0
            THEN {}
            ELSE Read(Data(d), type,
                      Block(from[BandOf(i, size)], PixelOf(i, size), size))]
        made == [bp \in BandsOf(4, size) |->
            IF from[bp[1]] = 0 THEN {} ELSE Made(d, 1, from[bp[1]], bp[2])]
    IN /\ Called
       /\ CPP_NewDataset(Byte, size, 4, cells, made)
       /\ UNCHANGED records

(* The band of a call is not checked. *)
BandArgs(d) == 1 .. objs[d].nband + (IF "band" \in Careless THEN 1 ELSE 0)

(* These take whatever is not a short for a byte. *)
ShortOrByte(d) == IF objs[d].type = Short THEN Short ELSE Byte
TypeServed(d) == "type" \in Careless \/ objs[d].type = ShortOrByte(d)

(* dataset.renderGray *)
RenderGray(d, band) == Render(d, objs[d].type, [b \in 1 .. 4 |-> band])

(* dataset.renderRGB: the fourth band is 255. *)
RenderRGB(d, r, g, b) ==
    TypeServed(d) /\ Render(d, ShortOrByte(d), <<r, g, b, 0>>)

(* dataset.renderPsuedColor *)
RenderPsuedColor(d, band) ==
    TypeServed(d) /\ Render(d, ShortOrByte(d), [b \in 1 .. 4 |-> band])

(* A slip: no copy where there is but one band. *)
Extract_Slip(d, band) ==
    /\ Called
    /\ band = 1 /\ objs[d].nband = 1
    /\ objs' = Append(objs, objs[d])
    /\ UNCHANGED <<mem, records>>

(* dataset.extract *)
Extract(d, band) ==
    LET size == objs[d].size
        offset == (band - 1) * size
        cells == [i \in Cells(1, size) |-> Pixel(d, offset + i)]
        made == [bp \in BandsOf(1, size) |-> Made(d, 1, band, bp[2])]
    IN /\ Called
       /\ band \in 1 .. objs[d].nband
       /\ CPP_NewDataset(objs[d].type, size, 1, cells, made)
       /\ UNCHANGED records

(* Bands of ds before its k-th member. *)
BandsBefore(ds, k) ==
    Cardinality(UNION {{<<j, b>> : b \in 1 .. objs[ds[j]].nband} :
                          j \in 1 .. k - 1})

(* A slip: the size of a band is forgotten. *)
TargetOffset_Slip(ds, k, size) == BandsBefore(ds, k)

(* Where the array of the k-th member goes. *)
TargetOffset(ds, k, size) == BandsBefore(ds, k) * size

(* The member whose bands reach from before `band' to it: there is one. *)
MembersAt(ds, band) ==
    {k \in DOMAIN ds : BandsBefore(ds, k) < band /\ band <= BandsBefore(ds, k + 1)}

(* pe.StackDatasets: each array is copied behind the one before. *)
StackDatasets(ds) ==
    LET size == objs[ds[1]].size
        total == BandsBefore(ds, Len(ds) + 1)
        cells == [i \in Cells(total, size) |->
            UNION {Pixel(ds[k], i - TargetOffset(ds, k, size)) :
                       k \in MembersAt(ds, BandOf(i, size))}]
        made == [bp \in BandsOf(total, size) |->
            UNION {Made(ds[k], 1, bp[1] - BandsBefore(ds, k), bp[2]) :
                       k \in MembersAt(ds, bp[1])}]
    IN /\ Called
       /\ \A k \in DOMAIN ds : SameShape(ds[k], ds[1])
       /\ CPP_NewDataset(objs[ds[1]].type, size, total, cells, made)
       /\ UNCHANGED records

(* dataset.subtract *)
Subtract(d, q) ==
    LET size == objs[d].size
        nband == objs[d].nband
        cells == [i \in Cells(nband, size) |-> Pixel(d, i) \cup Pixel(q, i)]
        made == [bp \in BandsOf(nband, size) |->
            Made(d, 1, bp[1], bp[2]) \cup Made(q, 1, bp[1], bp[2])]
    IN /\ Called
       /\ SameShape(d, q) /\ objs[q].nband = nband
       /\ CPP_NewDataset(objs[d].type, size, nband, cells, made)
       /\ UNCHANGED records

(* dataset.clip and dataset.clip2: the region's part in the engine's tile is
   kept, whatever tile the data is of; a region elsewhere gives null. *)
KeptAt(p) == p \in Region[Here]

Clip(d) ==
    LET size == objs[d].size
        nband == objs[d].nband
        cells == [i \in Cells(nband, size) |->
            IF KeptAt(PixelOf(i, size)) THEN Pixel(d, i) ELSE {}]
        made == [bp \in BandsOf(nband, size) |->
            {s \in Made(d, 1, bp[1], bp[2]) : bp[2] \in Region[s.tile]}]
    IN /\ Called
       /\ Region[Here] # {}
       /\ CPP_NewDataset(objs[d].type, size, nband, cells, made)
       /\ UNCHANGED records

(* dataset.buildmask and dataset.buildmask2: of the first band only. *)
BuildMask(d) ==
    LET size == objs[d].size
        cells == [i \in Cells(1, size) |-> Pixel(d, i)]
        made == [bp \in BandsOf(1, size) |-> Made(d, 1, 1, bp[2])]
    IN /\ Called
       /\ CPP_NewDataset(Byte, size, 1, cells, made)
       /\ UNCHANGED records

(* dataset.forEachPixel: a function of the bands of a pixel, which returns a
   number (k = 1) or an array of k, for every pixel alike. *)
ForEachPixel(d, k) ==
    LET size == objs[d].size
        bands == 1 .. objs[d].nband
        cells == [i \in Cells(k, size) |->
            UNION {Pixel(d, Block(b, PixelOf(i, size), size)) : b \in bands}]
        made == [bp \in BandsOf(k, size) |->
            UNION {Made(d, 1, b, bp[2]) : b \in bands}]
    IN /\ Called
       /\ CPP_NewDataset(objs[d].type, size, k, cells, made)
       /\ UNCHANGED records

(* datasetArray.forEachPixel: a function of the bands of a pixel in all the
   elements. *)
DA_ForEachPixel(a, k) ==
    LET size == objs[a].size
        all == (1 .. objs[a].nband) \X DOMAIN objs[a].bufs
        cells == [i \in Cells(k, size) |->
            UNION {Read(objs[a].bufs[be[2]], objs[a].type,
                        Block(be[1], PixelOf(i, size), size)) : be \in all}]
        made == [bp \in BandsOf(k, size) |->
            UNION {Made(a, be[2], be[1], bp[2]) : be \in all}]
    IN /\ Called
       /\ CPP_NewDataset(objs[a].type, size, k, cells, made)
       /\ UNCHANGED records

(* Dataset2Png, of what main() returned, when the script is over: the four
   channels of a pixel lie side by side.  Of four bands each is a channel; of
   three the fourth channel is 255; else all are drawn from the first band. *)
ChannelsOf(nband) ==
    CASE nband = 4 -> <<1, 2, 3, 4>>
      [] nband = 3 -> <<1, 2, 3, 0>>
      [] OTHER     -> <<1, 1, 1, 0>>

Interleaved(channel, p) == (p - 1) * 4 + channel

Dataset2Png(d) ==
    LET size == objs[d].size
        from == ChannelsOf(objs[d].nband)
        cells == [i \in Cells(4, size) |->
            LET p == ((i - 1) \div 4) + 1
                band == from[((i - 1) % 4) + 1]
            IN IF band = 0 THEN {} ELSE Pixel(d, Block(band, p, size))]
        made == [bp \in BandsOf(4, size) |->
            IF from[bp[1]] = 0 THEN {} ELSE Made(d, 1, from[bp[1]], bp[2])]
    IN /\ calls < MaxCalls /\ calls' = MaxCalls
       /\ objs[d].type \in {Byte, Short} /\ objs[d].nband # 0
       /\ mem[Data(d)].type = objs[d].type /\ Fits(d, 1)
       /\ Allocate(<<Object("png", [type |-> Byte, size |-> size, nband |-> 4],
                           <<ArrayOf(Byte, cells)>>, <<made>>)>>)
       /\ UNCHANGED records

-----------------------------------------------------------------------------
(* Changes in place. *)

(* New cells for some arrays, new histories for some elements of o. *)
InPlace(o, cells, made) ==
    /\ mem' = [a \in DOMAIN mem |->
                  IF a \in DOMAIN cells
                  THEN ArrayOf(mem[a].type, cells[a])
                  ELSE mem[a]]
    /\ objs' = [objs EXCEPT ![o].made =
                  [e \in DOMAIN @ |-> IF e \in DOMAIN made THEN made[e] ELSE @[e]]]

(* dataset.fillRange: a ramp of values over one band. *)
FillRange(d, band) ==
    LET size == objs[d].size
        offset == (band - 1) * size
        cells == [a \in {Data(d)} |-> [i \in DOMAIN mem[a].cells |->
            IF i \in offset + 1 .. offset + size THEN {} ELSE mem[a].cells[i]]]
        made == [e \in {1} |-> [bp \in BandsOf(objs[d].nband, size) |->
            IF bp[1] = band THEN {} ELSE Made(d, e, bp[1], bp[2])]]
    IN /\ Called
       /\ band \in 1 .. objs[d].nband
       /\ objs[d].type = ShortOrByte(d)
       /\ InPlace(d, cells, made)
       /\ UNCHANGED records

(* dataset.map and dataset.map2: each cell is what it was or the new value,
   depending on what it was. *)
DsMap(d) ==
    LET all == Cells(objs[d].nband, objs[d].size)
        cells == [a \in {Data(d)} |-> [i \in DOMAIN mem[a].cells |->
            IF i \in all THEN Pixel(d, i) ELSE mem[a].cells[i]]]
    IN /\ Called
       /\ InPlace(d, cells, <<>>)
       /\ UNCHANGED records

(* Masked with array f of object q: each cell depends on the mask too. *)
Masked(o, elements, q, f) ==
    LET size == objs[o].size
        mask == mem[objs[q].bufs[f]]
        cells == [a \in {objs[o].bufs[e] : e \in elements} |->
            [i \in DOMAIN mem[a].cells |->
                mem[a].cells[i] \cup mask.cells[PixelOf(i, size)]]]
        made == [e \in elements |-> [bp \in BandsOf(objs[o].nband, size) |->
            Made(o, e, bp[1], bp[2]) \cup Made(q, f, 1, bp[2])]]
    IN /\ Called
       /\ mask.type = Byte
       /\ Len(mask.cells) = size
       /\ "mask" \in Careless \/ objs[q].nband = 1
       /\ InPlace(o, cells, made)
       /\ UNCHANGED records

(* dataset.mask *)
DsMask(d, q, f) == Masked(d, {1}, q, f)

(* datasetCollection.mask: the elements up to the first of a wrong length. *)
DsCollectionMask(c, q, f) ==
    LET elements == {e \in DOMAIN objs[c].bufs : \A j \in 1 .. e : Fits(c, j)}
    IN /\ \A e \in elements : mem[objs[c].bufs[e]].type = objs[c].type
       /\ Masked(c, elements, q, f)

-----------------------------------------------------------------------------
(* Collections. *)

(* A Dataset of the given shape from all elements of the collections, each
   read as elements of shape.type. *)
Composite(cs, shape, outType) ==
    LET all == UNION {{<<k, e>> : e \in DOMAIN objs[cs[k]].bufs} :
                         k \in DOMAIN cs}
        cells == [i \in Cells(shape.nband, shape.size) |->
            UNION {Read(objs[cs[ke[1]]].bufs[ke[2]], shape.type, i) : ke \in all}]
        made == [bp \in BandsOf(shape.nband, shape.size) |->
            UNION {Made(cs[ke[1]], ke[2], bp[1], bp[2]) : ke \in all}]
    IN /\ Called
       /\ CPP_NewDataset(outType, shape.size, shape.nband, cells, made)
       /\ UNCHANGED records

(* datasetCollection.compose looks at the length of each element. *)
Compose(c, outType) ==
    /\ \A e \in DOMAIN objs[c].bufs : Fits(c, e)
    /\ Composite(<<c>>, objs[c], outType)

(* pe.CompositeDsCollection looks at none. *)
CompositeDsCollection(c, outType) == Composite(<<c>>, objs[c], outType)

(* pe.CompositeDsCollections takes the number of bands of the first for all,
   type and size from the last. *)
CompositeDsCollections(cs, outType) ==
    /\ \A k \in DOMAIN cs : objs[cs[k]].nband = objs[cs[1]].nband
    /\ "shape" \in Careless \/ \A k \in DOMAIN cs : SameShape(cs[k], cs[1])
    /\ Composite(cs, objs[cs[Len(cs)]], outType)

(* datasetCollection.forEachData: the function returns an array for each
   element, a new one of k bands, or (`same') the one it was given.  The first
   decides on shape and type; the arrays are taken as they are. *)
ForEachData(c, type, k, same) ==
    LET o == Len(objs) + 1
        n == Len(objs[c].bufs)
        size == objs[c].size
        first == objs[c].bufs[1]
        bands == 1 .. objs[c].nband
        cells == [e \in 1 .. n |-> [i \in Cells(k, size) |->
            UNION {Read(objs[c].bufs[e], objs[c].type,
                        Block(b, PixelOf(i, size), size)) : b \in bands}]]
        made == [e \in 1 .. n |-> [bp \in BandsOf(k, size) |->
            UNION {Made(c, e, b, bp[2]) : b \in bands}]]
    IN /\ Called
       /\ "array" \in Careless \/ same = {}
       /\ objs' = Append(objs,
            [kind  |-> "collection",
             type  |-> IF 1 \in same THEN mem[first].type ELSE type,
             size  |-> size,
             nband |-> IF 1 \in same
                       THEN Len(mem[first].cells) \div size
                       ELSE k,
             bufs  |-> [e \in 1 .. n |-> IF e \in same THEN objs[c].bufs[e]
                                                       ELSE <<o, e>>],
             made  |-> [e \in 1 .. n |->
                          IF e \in same
                          THEN objs[c].made[e]
                          ELSE made[e]]])
       /\ mem' = [a \in DOMAIN mem \cup {<<o, e>> : e \in 1 .. n \ same} |->
                    IF a \in DOMAIN mem
                    THEN mem[a]
                    ELSE ArrayOf(type, cells[a[2]])]
       /\ UNCHANGED records

-----------------------------------------------------------------------------
(* A script: any calls with any of its objects. *)

OwnTile(d) ==
    \A b \in 1 .. objs[d].nband, p \in 1 .. objs[d].size :
        \A s \in Made(d, 1, b, p) : s.tile = Here

Load ==
    \E name \in Names :
        \/ \E t \in Stated, tile \in Tiles : Dataset(name, t, tile)
        \/ Datafile(name)
        \/ \E t \in Stated, tile \in Neighbours : GetTileData(name, t, tile)
        \/ \E found \in Finds : DatasetArray(name, found)
        \/ \E dts \in DtLists : DatasetCollection(name, dts)
        \/ \E lists \in ListLists : DatasetCollections(name, lists)

Make ==
    \E shape \in NewShapes :
        \/ NewDataset(shape)
        \/ \E n \in 1 .. MaxElements : NewDatasetCollection(shape, n)

Convert ==
    \/ \E d \in Datasets :
        \/ /\ "double" \in Careless \/ objs[d].type = Float64
           /\ \E type \in OutTypes : ConvertToDataType(d, type)
        \/ \E band \in BandArgs(d) : RenderGray(d, band)
        \/ \E r, g, b \in BandArgs(d) : RenderRGB(d, r, g, b)
        \/ \E band \in BandArgs(d) : RenderPsuedColor(d, band)
        \/ \E band \in BandArgs(d) : Extract(d, band)
        \/ ("tile" \in Careless \/ OwnTile(d)) /\ Clip(d)
        \/ BuildMask(d)
        \/ \E k \in 1 .. MaxElements : ForEachPixel(d, k)
        \/ \E q \in Datasets : Subtract(d, q)
        \/ Dataset2Png(d)
    \/ \E a \in DsArrays, k \in 1 .. MaxElements : DA_ForEachPixel(a, k)
    \/ \E ds \in Lists(Datasets) : StackDatasets(ds)

(* The picture is not the script's. *)
Held == {o \in DOMAIN objs : objs[o].kind # "png"}

Change ==
    \E o, q \in Held : \E f \in DOMAIN objs[q].bufs :
        \/ o \in Datasets /\ DsMask(o, q, f)
        \/ o \in Collections /\ DsCollectionMask(o, q, f)

Fill ==
    \E d \in Datasets :
        \/ \E band \in BandArgs(d) : FillRange(d, band)
        \/ DsMap(d)

(* No callback looks at the type it is to compose to: scripts name a known one. *)
Merge ==
    \/ \E c \in Collections :
        \/ \E type \in OutTypes \cap Types : Compose(c, type)
        \/ \E type \in OutTypes \cap Types : CompositeDsCollection(c, type)
        \/ \E type \in OutTypes \cap Types, k \in 1 .. MaxElements,
              same \in SUBSET DOMAIN objs[c].bufs :
                ForEachData(c, type, k, same)
    \/ \E cs \in Lists(Collections), type \in OutTypes \cap Types :
            CompositeDsCollections(cs, type)

Next == Load \/ Make \/ Convert \/ Change \/ Fill \/ Merge

Spec == Init /\ [][Next]_vars

-----------------------------------------------------------------------------
(* Every object has a type the engine knows, and one history for each of its
   arrays, which are all there. *)
TypeOK ==
    /\ calls \in 0 .. MaxCalls
    /\ record \subseteq Names \X Stated
    /\ unrecorded \subseteq Source
    /\ \A o \in DOMAIN objs :
        /\ objs[o].kind \in Kinds
        /\ objs[o].type \in Types
        /\ objs[o].size \in Nat /\ objs[o].nband \in Nat
        /\ DOMAIN objs[o].made = DOMAIN objs[o].bufs
        /\ \A e \in DOMAIN objs[o].bufs : objs[o].bufs[e] \in DOMAIN mem

(* However bands are copied, converted, stacked, extracted, clipped, masked,
   drawn and composed through flat offsets, each cell of each array comes from exactly
   the sources the script asked for at that band and pixel, each read at that
   pixel; and the array has the type and the length of its object. *)
CellAt(kind, b, p, size) ==
    IF kind = "png" THEN Interleaved(b, p) ELSE Block(b, p, size)

ReadAt(sources, p) == {<<s, p>> : s \in sources}

Aligned(a, object, made) ==
    /\ a.type = object.type
    /\ Len(a.cells) = object.nband * object.size
    /\ \A b \in 1 .. object.nband, p \in 1 .. object.size :
          a.cells[CellAt(object.kind, b, p, object.size)] =
              ReadAt(MadeIn(made, b, p), p)

PixelAligned ==
    \A o \in DOMAIN objs : \A e \in DOMAIN objs[o].bufs :
        Aligned(mem[objs[o].bufs[e]], objs[o], objs[o].made[e])

(* Nothing an object holds was read without an entry in m_dsnameDtVec from
   which its data set and its moment can be told, also when a later list of
   the same call failed; only DatasetArray and GetTileData escape that. *)
Explains(entry, s) ==
    entry[1] = s.name /\ (entry[2] = s.moment \/ ResolvedAt[entry[2]] = s.moment)

Told(cell) ==
    \A sp \in cell : \/ sp[1] \in unrecorded \cup {Unknown}
                    \/ \E entry \in record : Explains(entry, sp[1])

Recorded ==
    \A a \in DOMAIN mem : \A i \in DOMAIN mem[a].cells : Told(mem[a].cells[i])

(* A call changes what at most one object holds: objects do not share arrays
   that one of them changes in place. *)
Content(o) == [e \in DOMAIN objs[o].bufs |-> mem[objs[o].bufs[e]]]

OneObjectChanges ==
    [][\A o, q \in DOMAIN objs :
          Content(o)' # Content(o) /\ Content(q)' # Content(q) => o = q]_vars

-----------------------------------------------------------------------------
(* What the proofs of these properties rest on. *)

IsList(s) == s \in Seq({s[i] : i \in DOMAIN s})

(* Objects and arrays are whole: every array belongs to an object there is. *)
ShapeInv ==
    /\ IsList(objs)
    /\ \A o \in DOMAIN objs :
        /\ objs[o].size # 0 /\ "made" \in DOMAIN objs[o]
        /\ IsList(objs[o].bufs)
        /\ o \in Datasets => 1 \in DOMAIN objs[o].bufs
    /\ \A a \in DOMAIN mem :
        /\ a \in (DOMAIN objs) \X Nat
        /\ mem[a].type \in Types
        /\ IsList(mem[a].cells)

(* Where scripts return new arrays from forEachData, each element of each object
   has an array of its own. *)
OwnInv ==
    "array" \notin Careless =>
        \A o \in DOMAIN objs : \A e \in DOMAIN objs[o].bufs :
            objs[o].bufs[e] = <<o, e>>
=============================================================================
