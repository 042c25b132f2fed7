------------------------------ MODULE ScriptRun ------------------------------
(***************************************************************************)
(* One thread's requests to the script engine: the Run... methods of       *)
(* PixelEngine (src/pe_tilecompute/PixelEngine.cpp), called by the native  *)
(* methods of HBasePeHelperCppConnector and TileComputeV8Helper.cpp.       *)
(*                                                                         *)
(* Each request makes a new engine, lets it compile and run the script in  *)
(* an isolate of its own, turns what main() returned into the answer, and  *)
(* hands it back with the engine's log.  What a script computes is left    *)
(* open; what matters of it is which tiles it reads, what it logs and how  *)
(* it ends.  A kind stands for an entry point:                             *)
(*   png  RunScriptForTile        once         RunScriptForComputeOnce     *)
(*   tile ...WithoutRender        render       ...WithRender               *)
(*   extra ...WithoutRenderWithExtra  extraRender  ...WithRenderWithExtra  *)
(*   function RunScriptFunctionForTileResult                               *)
(*   functionText RunScriptFunctionForTextResultOrNothing                  *)
(*   text RunScriptForTextResultWithExtra                                  *)
(*   style RunToGetStyleFromScript      check  CheckScriptOk               *)
(*   variable RunScriptAndGetVariableJsonText, MapRedRunScriptForMapFunc   *)
(*   reduce MapRedRunScriptForReduceFunc, ...Zlevel, SharedObj, MainFunc   *)
(*   extent MapRedRunScriptForExtent  pairs RunScriptForDatasetDatetimePairs*)
(***************************************************************************)
EXTENDS Naturals, Sequences

CONSTANTS
  Kinds,     \* the entry points that are called
  Moments,   \* the datetimes that may be asked for
  Sizes,     \* the lengths of messages, counted in marks ("...\n", 4 characters)
  LogCap,    \* the length after which the log takes no more (2048 characters)
  MaxSteps   \* how many calls a script makes (a bound, for TLC)

AllKinds == {"png", "once", "tile", "render", "extra", "extraRender", "function",
             "functionText", "text", "style", "check", "variable", "reduce", "extent",
             "pairs"}

Zero == 0   \* PE_CURRENTDATETIME: as a script's argument, the engine's datetime

ASSUME ScriptAssumption ==
  /\ Kinds \subseteq AllKinds
  /\ Moments \subseteq Nat \ {Zero}
  /\ Sizes \subseteq Nat
  /\ LogCap \in Nat
  /\ MaxSteps \in Nat

Times == Moments \cup {Zero}

\* Entry points with a datetime parameter, those that draw a PNG from a tile, and
\* those that turn a Dataset into a tile.
Dated      == {"png", "once", "tile", "render", "variable"}
Drawing    == {"render", "extraRender"}
TileKinds  == {"tile", "extra", "function"} \cup Drawing
\* Those that answer with the engine's log (V8HelperResult.logs, TileComputeResult.log,
\* the text after ";;;log;;;").
Explaining == TileKinds \cup {"png", "functionText"}
\* Those that read a global variable of the script, and tell the reason of a failure in
\* retError instead; and those that give a reason at all, style in its retLogText.
Telling    == {"variable", "reduce", "extent"}
Giving     == Telling \cup {"style"}

VARIABLES
  req,      \* the request: its kind and, for the dated ones, the moment asked for
  pc,
  currentDateTime,
  steps,    \* how many calls the script has made
  reads,    \* history: the tiles it read with the engine's datetime, by datetime
  value,    \* what main() returned
  log,      \* pe_logs, by entry
  size,     \* its length
  own,      \* history: the length of what the script itself has logged
  said,     \* history: all that has been logged, by script and engine
  outcome,
  text,     \* resultStr, the text of the answer
  reason    \* retError or retLogText, where the entry point has such a parameter

script == <<steps, reads, value>>
logs   == <<log, size, own, said>>
answer == <<outcome, text, reason>>
vars == <<req, pc, currentDateTime, script, logs, answer>>

Values   == {"none", "null", "dataset", "string", "other"}
Entries  == {"text", "dots", "error", "mark"}
Outcomes == {"none", "ok", "failed"}
Texts    == {"empty", "null", "not_string", "result"}
Reasons  == {"none", "given"}
Places   == {"idle", "entered", "compile", "script", "result", "dispose", "render", "scan",
             "answer"}

Init ==
  /\ req \in [kind : Kinds, moment : Moments]
  /\ pc = "idle"
  /\ currentDateTime \in Times
  /\ steps = 0
  /\ reads = {}
  /\ value = "none"
  /\ log = << >> /\ size = 0 /\ own = 0 /\ said = << >>
  /\ outcome = "none"
  /\ text = "empty"
  /\ reason = "none"

\* PixelEngine::log.  Past its limit the log takes a mark, unless it ends in one or in a
\* message that has "..." in its last characters itself.
Last(s) == s[Len(s)]
Write_Slip(entry, length) ==
  /\ log' = Append(log, entry)
  /\ size' = size + length
Write_Silent(entry, length) ==
  IF size <= LogCap
  THEN log' = Append(log, entry) /\ size' = size + length
  ELSE UNCHANGED <<log, size>>
Write(entry, length) ==
  CASE size <= LogCap ->
         log' = Append(log, entry) /\ size' = size + length
    [] size > LogCap /\ Last(log) \notin {"dots", "mark"} ->
         log' = Append(log, "mark") /\ size' = size + 1
    [] OTHER -> UNCHANGED <<log, size>>

Say(entry, length) == Write(entry, length) /\ said' = Append(said, entry)

SayError == \E length \in Sizes : Say("error", length) /\ UNCHANGED own

GiveReason == IF req.kind \in Giving THEN reason' = "given" ELSE UNCHANGED reason

\* Where the reason of a failure goes: into the log, or back to the caller; style does
\* both.
Explain ==
  /\ IF req.kind \in Telling THEN UNCHANGED logs ELSE SayError
  /\ GiveReason

-----------------------------------------------------------------------------

\* A native method is called and makes an engine.  The constructor leaves the
\* datetime as it finds it in memory.
Request ==
  /\ pc = "idle"
  /\ req' \in [kind : Kinds, moment : Moments]
  /\ currentDateTime' \in Times
  /\ steps' = 0
  /\ reads' = {}
  /\ value' = "none"
  /\ log' = << >> /\ size' = 0 /\ own' = 0 /\ said' = << >>
  /\ outcome' = "none"
  /\ text' = "empty"
  /\ reason' = "none"
  /\ pc' = "entered"

\* The engine's datetime when its script runs.  WithRender passes the member
\* currentDateTime on, not its parameter currentDatetime; style and check set nothing.
Given ==
  CASE req.kind \in Dated \ {"render"} -> req.moment
    [] req.kind \in {"extra", "extraRender", "function", "functionText", "text", "reduce",
                    "extent"} -> Zero
    [] OTHER -> currentDateTime

Enter ==
  /\ pc = "entered"
  /\ currentDateTime' = Given
  /\ pc' = "compile"
  /\ UNCHANGED <<req, script, logs, answer>>

Fail == outcome' = "failed" /\ pc' = "dispose"
Succeed == outcome' = "ok" /\ pc' = "dispose"

\* ComputeOnce, style and check do not log that the script does not compile; style gives
\* the reason.
CompileFails ==
  /\ pc = "compile"
  /\ req.kind # "pairs"
  /\ IF req.kind \in {"once", "style", "check"} THEN UNCHANGED logs /\ GiveReason ELSE Explain
  /\ Fail
  /\ UNCHANGED <<req, currentDateTime, script, text>>

Compiles ==
  /\ pc = "compile"
  /\ req.kind # "pairs"
  /\ IF req.kind = "check" THEN Succeed ELSE pc' = "script" /\ UNCHANGED outcome
  /\ UNCHANGED <<req, currentDateTime, script, logs, text, reason>>

\* RunScriptForAST: the script is parsed by a script of the engine's own, and not run.
\* Why that fails is kept from the caller, whose errorText nothing is written to.
ParsesScript ==
  /\ pc = "compile"
  /\ req.kind = "pairs"
  /\ Succeed \/ Fail
  /\ UNCHANGED <<req, currentDateTime, script, logs, text, reason>>

\* Nor is it, where the parser cannot be read; then no isolate has been made.
NoParser ==
  /\ pc = "compile"
  /\ req.kind = "pairs"
  /\ outcome' = "failed"
  /\ pc' = "answer"
  /\ UNCHANGED <<req, currentDateTime, script, logs, text, reason>>

-----------------------------------------------------------------------------
(* The script. *)

\* pe.log(...)
ScriptLogs ==
  /\ pc = "script"
  /\ steps < MaxSteps
  /\ steps' = steps + 1
  /\ \E entry \in {"text", "dots"}, length \in Sizes :
       Say(entry, length) /\ own' = own + length
  /\ UNCHANGED <<req, pc, currentDateTime, reads, value, answer>>

\* pe.Dataset, DatasetArray and GetTileData with a datetime of 0, or a negative one
\* relative to it; in any other datetime the engine's plays no part.
ScriptReads ==
  /\ pc = "script"
  /\ steps < MaxSteps
  /\ steps' = steps + 1
  /\ reads' = reads \cup {currentDateTime}
  /\ UNCHANGED <<req, pc, currentDateTime, value, logs, answer>>

Throws ==
  /\ pc = "script"
  /\ Explain
  /\ Fail
  /\ UNCHANGED <<req, currentDateTime, script, text>>

Returns ==
  /\ pc = "script"
  /\ value' \in Values \ {"none"}
  /\ pc' = "result"
  /\ UNCHANGED <<req, currentDateTime, steps, reads, logs, answer>>

-----------------------------------------------------------------------------
(* The result of main(). *)

\* IsMaybeLocalOK: null and undefined are an error, except for a function that may
\* return nothing.
NullResult ==
  /\ pc = "result"
  /\ value = "null"
  /\ IF req.kind = "functionText"
     THEN Succeed /\ UNCHANGED <<logs, reason>>
     ELSE Fail /\ Explain
  /\ UNCHANGED <<req, currentDateTime, script, text>>

\* innerV8Dataset2TileData.  The line logged says that it failed, and no more: the error
\* text it ends with is never set.
TileResult_Slip ==
  /\ pc = "result"
  /\ value # "null"
  /\ req.kind \in TileKinds
  /\ IF value = "dataset" THEN Succeed ELSE Fail
  /\ UNCHANGED <<req, currentDateTime, script, logs, text, reason>>
TileResult ==
  /\ pc = "result"
  /\ value # "null"
  /\ req.kind \in TileKinds
  /\ IF value = "dataset" THEN Succeed /\ UNCHANGED logs ELSE Fail /\ SayError
  /\ UNCHANGED <<req, currentDateTime, script, text, reason>>

\* A main() that must return a string: anything else fails without a word in the log,
\* which the native method does not hand back anyway.
TextResult_Slip ==
  /\ pc = "result"
  /\ value # "null"
  /\ req.kind = "text"
  /\ Succeed
  /\ text' = value
  /\ UNCHANGED <<req, currentDateTime, script, logs, reason>>
TextResult ==
  /\ pc = "result"
  /\ value # "null"
  /\ req.kind = "text"
  /\ IF value = "string" THEN Succeed /\ text' = "result" ELSE Fail /\ text' = "not_string"
  /\ UNCHANGED <<req, currentDateTime, script, logs, reason>>

\* Any value of the variable becomes a string.
VariableResult ==
  /\ pc = "result"
  /\ value # "null"
  /\ req.kind \in Telling
  /\ Succeed
  /\ text' = "result"
  /\ UNCHANGED <<req, currentDateTime, script, logs, reason>>

\* Dataset2Png has no result: what cannot be drawn becomes an empty PNG, and
\* everything becomes some text or JSON.
AnyResult ==
  /\ pc = "result"
  /\ value # "null"
  /\ req.kind \in {"png", "once", "functionText"}
  /\ Succeed
  /\ UNCHANGED <<req, currentDateTime, script, logs, text, reason>>

\* setStyle(): a style, the id of one that Java finds, or neither.  The reason is that of
\* retLogText, which the native method prints.
StyleResult ==
  /\ pc = "result"
  /\ value # "null"
  /\ req.kind = "style"
  /\ \/ Succeed /\ UNCHANGED reason
     \/ Fail /\ GiveReason
  /\ UNCHANGED <<req, currentDateTime, script, logs, text>>

\* Where a good request goes when its isolate is gone.
Onward ==
  CASE req.kind \in Drawing           -> "render"
    [] req.kind \in {"extent", "pairs"} -> "scan"
    [] OTHER                          -> "answer"

Dispose ==
  /\ pc = "dispose"
  /\ pc' = IF outcome = "ok" THEN Onward ELSE "answer"
  /\ UNCHANGED <<req, currentDateTime, script, logs, answer>>

\* innerRenderTileDataWithoutStyle, ...ByPeStyle: after the isolate has gone.
Render ==
  /\ pc = "render"
  /\ \/ UNCHANGED <<logs, outcome>>
     \/ SayError /\ outcome' = "failed"
  /\ pc' = "answer"
  /\ UNCHANGED <<req, currentDateTime, script, text, reason>>

\* The text of the variable is no array of four numbers.
ScanExtent ==
  /\ pc = "scan"
  /\ req.kind = "extent"
  /\ \/ UNCHANGED <<outcome, reason>>
     \/ outcome' = "failed" /\ reason' = "given"
  /\ pc' = "answer"
  /\ UNCHANGED <<req, currentDateTime, script, logs, text>>

\* The syntax tree has no main() that returns something, or names no data set: the
\* reason is printed only.
ScanPairs ==
  /\ pc = "scan"
  /\ req.kind = "pairs"
  /\ outcome' \in {"ok", "failed"}
  /\ pc' = "answer"
  /\ UNCHANGED <<req, currentDateTime, script, logs, text, reason>>

\* The native method copies the outcome and the log into the Java object.
Answer ==
  /\ pc = "answer"
  /\ pc' = "idle"
  /\ UNCHANGED <<req, currentDateTime, script, logs, answer>>

Next ==
  \/ Request \/ Enter \/ CompileFails \/ Compiles \/ ParsesScript \/ NoParser
  \/ ScriptLogs \/ ScriptReads \/ Throws \/ Returns
  \/ NullResult \/ TileResult \/ TextResult \/ VariableResult \/ AnyResult \/ StyleResult
  \/ Dispose \/ Render \/ ScanExtent \/ ScanPairs \/ Answer

Spec == Init /\ [][Next]_vars

-----------------------------------------------------------------------------

\* Every variable stays in its domain: the script, the log and the answer.
TypeOK ==
  /\ req \in [kind : Kinds, moment : Moments]
  /\ pc \in Places
  /\ currentDateTime \in Times
  /\ steps \in 0..MaxSteps
  /\ reads \subseteq Times
  /\ value \in Values
  /\ log \in Seq(Entries)
  /\ size \in Nat
  /\ own \in Nat
  /\ said \in Seq(Entries \ {"mark"})
  /\ outcome \in Outcomes
  /\ text \in Texts
  /\ reason \in Reasons

\* TileComputeResult.java, "String log; // error or log messages": when a request
\* fails its log ends with an error, unless the script itself has filled the log before,
\* which then ends in "..."; and a request that succeeds has no error in its log.  Those
\* that give a reason give one exactly when they fail.
ErrorExplained ==
  pc = "answer" =>
    /\ req.kind \in Explaining =>
         /\ outcome = "failed" =>
              /\ log # << >>
              /\ \/ Last(log) = "error"
                 \/ Last(log) \in {"dots", "mark"} /\ own > LogCap
         /\ outcome = "ok" => \A i \in 1..Len(log) : log[i] # "error"
    /\ req.kind \in Giving => (outcome = "failed" <=> reason = "given")

\* The log is all that script and engine have logged, in order, or its beginning; where
\* anything is missing its last characters have "..." (PixelEngine.cpp:1076-1092).
CutIsMarked ==
  /\ Len(log) <= Len(said)
  /\ \A i \in 1..Len(log) : log[i] = said[i] \/ (i = Len(log) /\ log[i] = "mark")
  /\ log # said => log # << >> /\ Last(log) \in {"dots", "mark"}

\* The log outgrows its limit by one message and one mark at most, whatever the
\* script logs (PixelEngine.cpp:1076-1092).
LogBounded ==
  \A most \in Sizes : (\A length \in Sizes : length <= most) => size <= LogCap + most + 1

\* The tiles a script reads "now" are those of the datetime the caller asked for
\* (PixelEngine.h:432, "int64_t currentDatetime"; only the entry points with extra
\* data do without it, PixelEngine.h:436, 442).  "render" reads those of whatever its
\* engine was made with (PixelEngine.cpp:4583).
RightMoment == req.kind \in Dated => reads \subseteq {req.moment}

-----------------------------------------------------------------------------
(* The strengthening of these properties that every step preserves. *)

\* How far a request has got, and what has happened by then.
ProgressInv ==
  /\ pc \in {"entered", "compile"} => reads = {} /\ log = << >>
  /\ pc \in {"entered", "compile", "script", "result"} => outcome = "none"
  /\ pc \in {"dispose", "render", "scan", "answer"} => outcome # "none"
  /\ pc \in {"render", "scan"} => outcome = "ok"
  /\ pc = "render" => req.kind \in Drawing

\* Until a request fails its log holds what the script has logged, and no error.
LogInv ==
  /\ log = << >> => size = 0
  /\ outcome # "failed" => size <= own \/ own > LogCap
  /\ outcome # "failed" => \A i \in 1..Len(log) : log[i] # "error"
  /\ outcome = "failed" /\ req.kind \in Explaining =>
       /\ log # << >>
       /\ Last(log) = "error" \/ (Last(log) \in {"dots", "mark"} /\ own > LogCap)

\* A reason is given by the step that fails the request.
ReasonInv ==
  req.kind \in Giving => (outcome = "failed" <=> reason = "given")

\* Nothing is missing until the limit is passed.
CutInv == CutIsMarked /\ (log # said => size > LogCap)

\* Only the mark is written past the limit, and only once.
CapInv ==
  \A most \in Sizes : (\A length \in Sizes : length <= most) =>
    \/ size <= LogCap + most
    \/ size <= LogCap + most + 1 /\ log # << >> /\ Last(log) = "mark"

\* A dated request other than "render" runs with the datetime it was given.
MomentInv ==
  req.kind \in Dated \ {"render"} =>
    /\ reads \subseteq {req.moment}
    /\ pc \notin {"idle", "entered"} => currentDateTime = req.moment

IInv == TypeOK /\ ProgressInv /\ LogInv /\ ReasonInv /\ CutInv /\ CapInv /\ MomentInv

=============================================================================
