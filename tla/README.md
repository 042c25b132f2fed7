# Verification of pixelengine

TLA+ models of the tile computing engine in `src/pe_tilecompute`, TLC runs that
check them on small instances, and TLAPS proofs of what matters most for every
size. Paths below are relative to `src/pe_tilecompute` unless they begin with
`src/`. `PROJECT.json` lists runs, mutants, theorems, findings and hazards, and
maps every definition to the lines it models.

## The system

pixelengine runs JavaScript over remote-sensing tiles. A Java service calls one of
two native libraries; the library makes a `PixelEngine`, which compiles the script
in a V8 isolate, gives it the object `pe` with some fifty callbacks (load a tile,
build a time series, composite, mask, clip, log), fetches tiles back through Java,
and turns what `main()` returned into tile data, a PNG, text or JSON. Large jobs
go to a service that receives orders over ZeroMQ and runs Spark on them.

| Component | State it keeps | Operations | Interacts with |
|---|---|---|---|
| Offline-task service (`offtask_cppspark_0mqservice/.../main.cpp`, `offtaskworkerresult.*`) | order list, mutex, two threads, ZeroMQ sockets | receive, queue, take, report running, run job, report outcome | Task17 and its collector (messages), Spark and gots worker (`system()`) |
| Start of V8, native libraries (`TileComputeV8Helper.cpp`, `HBasePeHelperCppConnector/`) | the static `v8Platform`, three static callback pointers | `JNI_OnLoad`, `initV8`, the native methods | Java threads (shared state), the engine |
| Script runs (`PixelEngine.cpp`, `.h`) | per request: isolate, `currentDateTime`, `pe_logs`, access records | the eleven `Run...`/`Check...` entry points, `pe.log` | native methods (calls), script (callbacks) |
| Script functions on datasets (`PixelEngine.cpp`) | JS objects Dataset and DatasetCollection, `m_dsnameDtVec`, `roiVector` | `pe.Dataset`, `DatasetCollection(s)`, `compose`, `mask`, `map`, `clip2`, `stack`, ... | Java helper (calls) |
| Collection compositing (`template_methods.*`) | output buffer, sums, counters during a call | min, max, average, sum; masks, maps | called by the script functions |
| Series compositing, zonal statistics (`jni_zonalstat/CppZonalStat.cpp`) | result tile and counters, kept by Java between calls | `assignDataBytes`, `combineDataBytes`, `doit` | Java time-series analysis |
| Data access (`JavaPixelEngineHelperInterface.cpp`) | none | get tile, get tiles, datetime collections, nearest datetime | `HBasePixelEngineHelper` (Java) |
| Datetimes (`wdatetimeUtil.h`) | none | relative datetimes, date lists | script functions |
| Regions (`peroi.cpp`, `pemultipolygon.cpp`) | run-length segments per zoom level | load, clip, count | script functions, connector, zonal statistics |
| Styles, colour ramps, legends (`PeStyle.*`, `PixelEngine.cpp`, `pelegend/`) | colour tables, a buffer of pixels | parse, look up, stretch, draw | script functions, entry points, connector |
| Script parsing (`wAST.cpp`, `esprimacpptool.h`) | none | find data sets of a script | connector |
| Records, workers, utilities | none | JSON, database, files, command line | |

What is hard here: the threads of Java meet process-wide statics; the service has
two threads, a bounded list, sockets that lose things and jobs that last for hours;
composites depend on marks and counters that live in narrow types, over tiles that
arrive in any order; requests fail at five stages and must say why; a script's
operations work on objects whose labels and buffers were set by earlier ones; and a
call into Java may fail in the middle.

What makes each component correct:

* service: no order lost or doubled inside the process, taken in turn, reported
  once, finally settled, its outcome collected;
* start of V8: no isolate before V8 is ready, one platform, never replaced;
* script runs: the tiles asked for, a failure told as one, a log that is bounded and tells
  where it was cut;
* compositing: the result is a function of the set (or sum) of the valid values,
  whatever their order; series the same, within the rounding of each step;
* script functions: labels describe buffers, the access record is complete, a
  failed load leaves no half-built object;
* regions: the five clipping and counting routines agree with membership in the region;
* colours: each pixel gets the colour that the table gives its value, in every layout.

## Modules

| Module | Models | Built on |
|---|---|---|
| `OrderLedger` | what the service promises: the stages of each order | |
| `OfftaskService` | the service, thread by thread | refines `OrderLedger` |
| `OfftaskServiceProofs` | theorems about it | |
| `PixelComposite`, `PixelCompositeProofs` | `TemplateMethods_Composite` for one pixel | |
| `SeriesComposite`, `SeriesCompositeProofs` | `assignDatas`/`combineDatas` for one pixel | |
| `V8Startup`, `V8StartupProofs` | `initV8` under Java threads, for both libraries | |
| `ScriptRun`, `ScriptRunProofs` | a thread's requests through the entry points | |
| `ScriptObjects`, `ScriptObjectsProofs` | what the callbacks do to a script's objects during one of these requests | |
| `RoiClip`, `RoiClipProofs` | cutting regions out of tiles, statistics over regions | |
| `StyleRender` | colour ramps, styles, pictures of tiles | |
| `TileFinish`, `TileFinishProofs` | clipping, rendering and layout of a finished tile, one after the other | composes `RoiClip` and `StyleRender` |
| `MC...` | constants for TLC | the module they name |

A definition named `X_Slip` is `X` with a plausible mistake in it. It is part of no
specification: `PROJECT.json` pairs it with a property, which fails when the slip
takes the place of `X`.

### OfftaskService

State: the receiving socket (`sent`, `got`: orders are numbered as Task17 pushes
them), the receiver's local message, `list` and `mutex` (`global_orderMsgList`,
`g_list_mutex`), the worker's local message and job code, the sockets opened so
far, the reports under way and collected, and the history `fate` of each order.
Each action is the code between two points at which the other thread can see or
change something: taking the front of the list is two actions under the mutex
(`CopyFront`, `PopFront`), so that the mutex matters to the checks. A report is
queued on a socket of its own or lost: when the 2 s time-out passes (`Lossy`) or
when ZeroMQ has no more sockets (`MaxSockets`). `Crash` takes all memory, the
orders ZeroMQ had already pulled into the process and any of the reports that had
not left. `zmq_recv` is taken to return a message that fits the buffer.

### PixelComposite

The loops treat every pixel alike and apart, so one pixel is enough. `Tile(v)` is
one pass of the loop over tiles for it; values are integers and conversion to the
output type wraps for integers and is undefined (any value) for a double the type
cannot hold. `seen`, `num` and `total` are history: what took part.

### SeriesComposite

Java hands tiles over one at a time and keeps the result and a `short[]` of counts.
`CombineData` is one call for one pixel; the counter wraps at 32767 and the running
average is cut to the type at each step. `CallFails` is a call that returns early.

### V8Startup

Each statement of `initV8` that another thread can observe is an action. `library`
chooses between `helper`, which runs `initV8` in `JNI_OnLoad`, and `connector`,
which runs it at the beginning of each native method. The process loads one of the
two. A data race on the pointer itself is taken as seeing the old value or the new.
The helper's three static callbacks are stored by the first calls, under a test of the
second (`TestCallbacks`, `Register`; in any order, since nothing orders plain stores).
A script that lacks one finds no data: `MissingOnlyAtFirst` bounds when that can be.

### ScriptRun

A kind stands for an entry point; one request goes `Request`, `Enter`, compile,
script, result, `Dispose`, possibly `Render`, `Answer`. The script is any sequence
of log calls and reads. What it computes is left open, the kind of what it returns
is chosen freely. `CallTileCompute` gives the log away, `CallTileComputeV2` does
not; the kinds whose caller gets the log are `Explaining`. The kinds that read a
global variable of the script for a map-reduce job (`Telling`) give the reason of a
failure back in `retError`, and `style` in `retLogText`, which its native method prints
and does not hand on; those that look for extents or data sets without running
`main` go through `ScanExtent` and `ScanPairs`, the latter over the syntax tree that
`RunScriptForAST` makes (`ParsesScript`; what is in the tree is left open).

An error in the log says where a request failed, and not always why: of a result that is no tile only a label is logged
(`TileResult`; `errorText`, which follows it, is never set in `innerV8Dataset2TileData`).
The kind `text` hands back neither log nor reason. The history `said` holds all that has
been logged; `CutIsMarked` compares the log with it.

### ScriptObjects

The objects of one script run and the arrays behind them. A cell is not a number
but the set of what it was computed from, pairs of a source (a band of a tile of a
data set at a moment) and the pixel it was read at; `made` keeps beside it what the
script asked for, by band and pixel. The code addresses flat arrays by offsets in
elements or bytes; `PixelAligned` says that these always meet the band and pixel
meant. Arrays have identities, since `forEachData` lets objects share them and
`mask` and `fillRange` change them in place. `record` is `m_dsnameDtVec`. Java
answers nothing, or some of the datetimes asked for.

Callbacks check little. `Duties` lists what they leave to the script: that a band
exists, that a type is one they serve (drawing takes any type but short for byte),
that a mask has one band, that collections composed together have one shape, that
`forEachData` is given an array of its own for each element, that a Dataset to be
clipped is of the engine's tile, and that nothing but doubles is converted: the switch of
`innerCopyArrayData` has no `break`, so that whatever its type an array is read as one of
doubles in the end (`Converted`). `Careless` names the duties a run lets scripts
neglect; what the code does then is modelled (a misread cell is `Unknown`).

Two older callbacks record nothing: `DatasetArray`, whose elements
`datasetArray.forEachPixel` reads side by side, and `GetTileData`, which gives an array
with no object around it. The history `unrecorded` holds what they have read, so that
`Recorded` can say that nothing else escapes the record. `Dataset2Png` is what
becomes of `main()`'s Dataset in one entry point: four channels, pixel by pixel, of
one, three or four bands; the picture is an object of its own that no call changes.

The labels `dsName`, `dsDt`, `z`, `y`, `x` are left out: only `getPixel` reads
them, and asks `PixelEngineOjbect`, a name that does not exist, for the tile next door. The
regions read (`m_roi2Vec`), `pe.Roi`, `getPixel`, `LocalDataset` (for tests on one
machine) and the date functions are not modelled.

### RoiClip

A region is a list of horizontal runs, for one zoom level or for each of the first
ones. Five copies of a scan over them are modelled, one pass of the innermost loop
at a time: `innerTileOutsideRoi` and `innerCopyRoiData` (`clip`: row by row with a
cursor into the runs that never goes back), `innerCopyRoiData2` (`clip2` and the
connector: run by run, magnified for tiles deeper than the last list),
`computeStatistic` (the same scan, counting) and `zonalstat`. The references are
`Covered`, the pixels whose cell some run holds, and sums over them. Runs are
half-open for `clip` and closed for the others, as the code has them. `clip2` and
the connector compare the tile with the first pixel row of the last run and not
with its last: a tile that begins inside a magnified run is taken for one outside.
With 256 rows that takes tiles more than eight levels deeper than the last list;
`LevelClipExact` states what is lost and `LevelClipWhole` that otherwise nothing is.
Areas in square kilometres are left out, and so are the sums of squares.

### StyleRender

Three ways to a picture: a script's `renderPsuedColor` (with a ramp it has built by
`add`, or one of the engine's stretched over a range), `RenderTileData2Rgba` and
`ConvertRgbaData2PngBinary` of the connector, and the entry points that render.
The four copies of the binary search are one here, one pass of the loop at a time;
where they differ (what is cut to the type of the tile, what is compared with the
value for no data, what is clamped) the model follows each. Numbers are multiples
of 1/`Unit`. What the code leaves undefined is a choice: what lies beyond the
arrays of a ramp (`Beyond`), a colour from 0/0 (`Undefined`). The weights of a
linear colour are floats; `Rounding` is how far that may take the quotient from the
exact one before it is cut to a byte, in parts of its divisor: a whole number may
come out one less (15 and 15 at a third give 14). The conversions between pixels
and planes are modelled cell by cell.

### TileFinish

Java asks the connector to clip a finished tile, to render the result, and to lay it
out for PNG; the methods share nothing but the bytes handed on. `RenderClipped`
takes over what `ClipBinaryTileData` left (`ClippedTile`: pixels not copied hold the
fill value). Clipping and rendering also go on by themselves, so that this module's
run is that of all three. `FinishedExact` relates the last buffer to the region and
the first tile.

## Runs

| Run | Bounds | What it shows |
|---|---|---|
| `service_crash` | 4 orders (Spark, id 0, gots, mode 5), list of 2, 12 sockets, lossy sends, 1 crash | safety properties and the refinement of `OrderLedger` |
| `service_live` | as above, no loss, no crash, 8 sockets (two for each order) | everything settles, outcomes arrive |
| `service_leak` | as above, 3 sockets | *violation*: an outcome is lost once sockets run out |
| `pixel_composite` | values -3..3 in a 3-bit type, up to 4 tiles, a counter that wraps after 2, 2 valid ranges, 3 fill values, 4 methods | composites are exact |
| `pixel_composite_byte` | values 0..3 in an unsigned 2-bit type, fill value -3 | *violation*: the converted fill value takes part in a minimum |
| `series_composite` | a type -2..3, up to 8 tiles, a counter that wraps after 2 | extremes exact, averages bounded |
| `v8_startup` | 3 threads, 2 calls each, both libraries, symmetry on threads | preloading is safe, callbacks are missing only during first calls, a start that is over stays over |
| `v8_startup_race` | 2 threads, 1 call each, connector | *violation*: an isolate before `V8::Initialize` |
| `script_run` | all kinds, 2 moments, messages of length 1 or 3 with a limit of 4, 4 script calls | a failure ends the log with an error or comes back with a reason, also over a log the script has filled; what is cut from the log is marked; the log is bounded |
| `script_objects` | a product of two bands of shorts and one of a band of bytes, 2 pixels, 2 tiles, 2 datetimes, lists and searches of up to two of them, the types byte and double to convert and compose to, 3 calls, careful scripts | cells come from where they should, also in the picture; reads are recorded but for two callbacks; no call changes two objects |
| `script_objects_convert` | as above, 2 calls, scripts that convert data of any type | *violation*: a Dataset of shorts or bytes is read as one of doubles |
| `tile_finish` | tiles of 3 by 2 pixels at four zoom levels, regions of up to three runs in and around a tile (`clip`) or two lists of up to two (the others); ramps of up to six colours in arrays for five, styles of nine tables, with halves, equal neighbours and wrong order, tiles of one to three bands | clipping and statistics against membership, colours against a linear search, layouts, the end of every scan |

Why the bounds are enough. Four orders fill a list of two while one is with the
worker and one with the receiver, so that dropping happens, and each fate has an
order; the properties relate at most two orders. One crash shows loss and restart;
a second one meets the same states. A counter that wraps after 2 wraps twice in
eight tiles; a range of six or seven values has a least, a greatest, ones inside
and outside the valid range, and a sign change. Three threads are one more than a
race needs. With a limit of 4 and messages of 3 the log is over-full after two
calls, gets its mark with the third and takes nothing with the fourth. The proofs
remove the bounds. In `script_objects` two calls give any two objects, or one
object made from another, and the third works on both; with two pixels and two
bands, a confusion of band, pixel and offset shows in some cell. Three calls are also
what a conversion takes that scripts may rely on: load a collection, compose it to
doubles, convert these. Each mutant of that run is found within three calls.

In `tile_finish` a run can begin and end before,
at, in, at the end of and after a tile's three columns and two rows, and three runs
give two of one row and one of another in any order; a table of five has a middle,
both its neighbours and both ends, and the sixth colour of a ramp is the one too many.

Symmetry is used only in `v8_startup`, whose threads are interchangeable; its
action property treats them alike too. Deadlock is checked except where something ends: a call in the two composites, a
series in `series_composite`, the calls of a script in the two runs of its objects,
the requests of `tile_finish`.
The service never stops: the worker's idle loop goes on for ever.

Fairness. In `tile_finish`, weak fairness of the loops over pixels and of the search
in them (`StyleFair`): a loop in one thread runs on. In `service_live`, weak fairness of each thread's own steps: the
operating system runs both threads, and no step but the two locks can wait on the
other. Strong fairness of the two locks: the threads take turns at a free mutex,
which they hold only for a few statements; the worker sleeps a second whenever it
finds nothing. Weak fairness of `JobEnds` says that a job returns: `system()` has no
time-out in the code, so this is an assumption on Spark and the gots worker, and
without it no order behind a job would ever settle. Weak fairness of `Deliver`
says that ZeroMQ delivers what it has queued. None is assumed of Task17, of a
crash or of a restart.

## Findings

* `service_leak`, `sendResultMsgBackToTask17`: contexts and sockets are never closed.
* `pixel_composite_byte`: the mark of an empty pixel is lost when `fillval` does not
  fit the output type.
* `v8_startup_race`: `initV8` is not safe to call from several threads at once.
* `script_objects_convert`: `convertToDataType`, and `toByte` to `toFloat64` with it,
  read data of any type but double as doubles, and beyond the end of its array.

More disagreements were read in the code and are not checked by a run. The
deprecated `RunScriptForTileWithRender` (`PixelEngine.cpp:4583`) passes on the member
`currentDateTime`, which the constructor leaves uninitialised, instead of its
parameter: `ScriptRun` models it as the kind `render`, and its `RightMoment` is a theorem
for the other kinds only. `clip` and `clip2` cut a Dataset of any tile with the engine's
own (`PixelEngine.cpp:5676`), where `pe.Dataset` can load other tiles (2417) and labels them
as the engine's (2578); with `Careless = {"tile"}` in `ScriptObjects_convert.cfg` TLC
shows the region of the wrong tile cut out, in two calls. The
outcome of an order goes out with the status 0 that a constructor gives it, where
`offtaskworkerresult.h` documents 2 and 3. `RunScriptForTextResultWithExtra`
documents null as an answer of `main()` and "null" as a result (`PixelEngine.h:488-489`); it
fails on it, and answers "" as for an exception, without the reason it has logged. `RenderTileData2Rgba`
documents NULL for a failure (`com_pixelengine_HBasePeHelperCppConnector.cpp:1252`)
and answers a blank picture. `clip` documents null for a tile outside the region
(`PixelEngine.cpp:5601`) and answers a Dataset of fill values where a run ends just
at the tile's left edge. The comment at `PixelEngine.h:637` promises statistics of 0
where no pixel is inside; the extremes are then those of the valid range.
`RunScriptForDatasetDatetimePairs` has a parameter `errorText` that the connector
passes on to Java (`com_pixelengine_HBasePeHelperCppConnector.cpp:184`) and that
no failure ever sets. `getPixel` is for windows that reach into the tiles around
(`PixelEngine.cpp:2970`): with a misspelt name (3907) it throws there, and in the column
right of the tile (`isample> twidth`, 3876) it reads the next line instead.

## Proofs

Every theorem holds for all values of the constants that satisfy the assumption
named in the module (`ServiceAssumption`, `CompositeAssumption`, ...), which only
give each constant its type and keep marker values apart. In each proof module an
inductive invariant `IInv` is shown to hold initially and to be preserved by every
action, and each property follows from it.

* **OfftaskService**: type, exclusion, bound, conservation, order, reporting once,
  and `ImplementsLedger`. `ControlInv` ties control points to the mutex and the
  local messages. `PlaceInv` says that worker's hand, list, receiver's message and
  socket hold increasing order numbers: that is what makes "in turn" inductive,
  and conservation follows since equal numbers cannot be in two places.
  `ReportInv` adds that an open order's report can only concern the order at the
  worker, without which "reported once" is not preserved. The refinement maps
  `fate`, `sent` and the worker's state to a stage; each step is one of the ledger
  or a stutter. `FinishedIsReported` is a theorem under `NothingLost`: no message is
  lost on the way and the context has two sockets for each order. `SocketInv` says
  that the service opens them in turn, so that none is ever refused. `WorkShrinks`
  and `DoneIsSettled` are what `EveryOrderSettled` says apart from fairness: `WorkLeft`
  counts the steps that orders and reports still need (twelve for one that has not left
  the socket), every step made for one takes from it, none adds to it, neither a crash
  nor a lost report, and at 0 every order has met its fate. That it reaches 0 is what
  fairness adds. `FlightFinite` (a report more is still finitely many) is the
  strengthening they need.
* **PixelComposite**: exactness of extremes and sums for every type, collection and
  call whose values and fill value fit the output. `FillLeftOut` (the mark of an
  empty pixel is never a value) is the strengthening that extremes need,
  `CountInv` and `SumPending` those of sums.
* **SeriesComposite**: exact extremes up to 2^16 valid values, averages within the
  range of their values, drift of at most num(num-1)/2. `CounterInv` gives the
  counter as a function of the number of values through its wrap.
* **V8Startup**: preloading is safe for any number of threads; once settled, the
  start stays settled; callbacks. `StartInv` says which places a thread cannot be in,
  `CallbackInv` that callbacks stored in part have a thread at work on them.
  `SafeWhenAlone` says what would be enough where nothing is preloaded, and so what the
  race of `v8_startup_race` comes down to: that no call comes in while another is
  between the test and the end of the start, as under a lock. It follows from
  `AloneInv`: a start that is not interrupted has made exactly what its place in
  `initV8` says.
* **ScriptRun**: failures told, cuts marked, log bounded, for every set of kinds. `LogInv`
  compares the log's length with what the script has logged: before a failure it is no
  longer, unless the script has gone past the limit. `CutInv` adds to `CutIsMarked` that
  nothing is missing before the limit is passed. `CapInv` tells the one mark from other
  text past the limit. `EachReadsItsMoment` is `RightMoment` of every request but one of
  kind `render`, also after one of that kind, with no assumption on the kinds in use. It
  is in no run: for kinds that set the datetime it says little more than that they do,
  and for `render` it is false.

* **RoiClip**: `ClipInv` says what the scan has copied so far: of the rows above the
  cursor's all that the region covers, of its row what the runs before it cover; and
  that no run from the cursor on lies above the row, which is why a cursor that never
  goes back misses none. It needs the runs sorted by row and nothing else about them.
  For the scans by levels it says which runs are done; `WholeCells` is the arithmetic
  that makes `LevelClipWhole` follow. `ClipShortens` follows from where `ClipInv` and
  `ZonalInv` keep the cursors: each pass takes one of the passes that are left.
  `StatExact` needs the runs of a list to lie apart (`RunsApart`, as the coding of a
  region by its rows makes them; the regions of `tile_finish` are built so), or pixels
  would be counted twice. `CountInv` says that after each pass the counts, sums and
  extremes are those of the cells visited so far; the cells of one pass are new
  because runs lie apart. The sums are folds over sets; the lemmas about
  them are proved from the definition by choosing a least set against
  the lemma (`WFMin` on finite subsets): the sum of two sets that share nothing is
  that of their sums, and a set may be mapped one to one. `KindInv` ties each place of
  the scans to the method called.
* **StyleRender** and **TileFinish**, as composed in `TileFinish`: `StyleIInv` is
  preserved by every step of a picture. Its core is `SearchInv`: the value lies
  strictly between the two entries of the search, and where a table in order has the
  very value, the entry that has it lies between them too; `PaintedInv` says of the
  pixels painted so far what `LookupRight` and `LinearBetween` say of all. `MeanBetween`
  bounds a weighted mean after the rounding of floats and the conversion to a byte;
  `Quarters`, `QuarterParts` and `PlanesFacts` are the arithmetic of the layouts. `RenderShortens`
  and `RenderGoesOn` are what `RenderEnds` says apart from fairness: each step leaves
  fewer (`StepsLeft`), a pass of the search at most half of the entries, and while a
  picture is under way there is a step to make, whatever the value and the table. For
  `FinishedExact`, `FinishInv` says that a picture of a clipped tile is of what
  `ClipInv` says was kept; the theorem assumes `ListsValues` (the styles list whole
  numbers in increasing order), as the styles of the run do.

* **ScriptObjects**: type; `Recorded`; `PixelAligned` for scripts that neglect no
  duty; `OneObjectChanges` for scripts that give each element of `forEachData` an array
  of its own, whatever else they neglect. Of conversions `PixelAligned` says what the duties
  leave: those of doubles. Every callback is shown once to be one of two kinds: it adds
  objects with arrays that nothing else has (`Grows`), or changes one object in place
  (`Changes`). What either kind preserves is shown once (`GrowsKeeps`,
  `ChangesKeeps`), and each callback only owes that the cells it writes are right.
  `OwnInv` is the strengthening that `OneObjectChanges` needs: no two elements have
  an array in common. `PixelAligned` needs `ShapeInv` (arrays are as long as
  their labels say) and that every object has a band; the lemmas on blocks and cells
  are the arithmetic of the flat offsets, for tiles of any size.

Only model-checked: liveness (`EveryOrderSettled`, `OutcomeArrives`, `RenderEnds`)
and the violations. The provers at hand do no liveness under fairness, and no induction
by the library's theorems that take an operator; the sums above need none. Every other
property of a run is a theorem. The properties that are proved and in no run
(`ListBounded`, `WorkShrinks`, `DoneIsSettled`, `RenderShortens`, `RenderGoesOn`, `SafeWhenAlone`, and
`RightMoment` without `render`) hold under TLC too, on the constants of the runs of their
modules. The theorems about the
scans are of `ClipSpec`, the clipping on its own; those about pictures are of
`FinishSpec`, which the run checks.

## Not modelled

Command lines, configuration, log wording, JSON forms and PNG encoding: no property
is about them. Vendored code (`esprima`, `lodepng`, `ajson5`, `spdlog`, V8), except
for what this code relies on. Records and command-line workers, which are
sequential input and output. The compositing of floating-point tiles (rounding of
doubles is out of TLC's reach): integer types only.

Datetimes: relative datetimes and weekdays go through the C library's calendar
(`mktime`, `localtime`), and the rest of `wdatetimeUtil.h` is the splitting and joining
of decimal digits. Regions: the coding of a polygon as runs, which is geometry in doubles, and areas. Data access: datetime
collections as Java returns them, in pieces of lists; `ScriptObjects` takes the answers.
`getPixel`, which throws where it reaches beyond the tile; `LocalDataset`, for tests on one machine.

## Plan

Done: the service and its ledger, the two ways of compositing, the start of V8, the
script runs, the objects of a script, regions, colours, and the last two composed;
proofs about each of them.

Left, in this order:

1. `TileServer`: `V8Startup` and `ScriptRun` composed, several threads each with a
   request, shown to implement requests that happen one at a time.
2. Datetime collections and the nearest datetime, with their partial failures, in place
   of the free answers that `ScriptObjects` takes from Java.
