--------------------------- MODULE ScriptRunProofs ---------------------------
(***************************************************************************)
(* Proofs about ScriptRun, for every set of entry points, moments and      *)
(* message lengths and every limit of the log.  IInv is inductive; the     *)
(* properties the runs check follow from it.                               *)
(***************************************************************************)
EXTENDS ScriptRun, TLAPS

(* What a write leaves alone, what it adds, and how far it lets the log grow. *)
LEMMA WriteIsBounded ==
  ASSUME TypeOK, LogInv, CapInv, NEW entry \in Entries, NEW length \in Sizes,
         Write(entry, length)
  PROVE  /\ log' \in Seq(Entries) /\ size' \in Nat /\ log' # << >>
         /\ size > LogCap => log # << >>
         /\ size <= LogCap => size' = size + length /\ log' = Append(log, entry)
         /\ size > LogCap => /\ size' > LogCap /\ (log' = log \/ log' = Append(log, "mark"))
                             /\ Last(log') \in {"dots", "mark"}
         /\ CapInv'
<1> USE ScriptAssumption
<1>1. size \in Nat /\ length \in Nat /\ LogCap \in Nat /\ log \in Seq(Entries)
      /\ (log = << >> => size = 0)
  BY DEF TypeOK, LogInv
<1>2. CASE size <= LogCap
  <2>1. log' = Append(log, entry) /\ size' = size + length
    BY <1>1, <1>2 DEF Write
  <2>2. \A most \in Sizes : (\A l \in Sizes : l <= most) => size' <= LogCap + most
    BY <1>1, <1>2, <2>1
  <2>3. CapInv'
    BY <2>2 DEF CapInv
  <2> QED
    BY <1>1, <1>2, <2>1, <2>3
<1>3. CASE size > LogCap /\ Last(log) \notin {"dots", "mark"}
  <2>1. log' = Append(log, "mark") /\ size' = size + 1
    BY <1>1, <1>3 DEF Write
  <2>2. log' \in Seq(Entries) /\ log' # << >> /\ log'[Len(log')] = "mark"
    BY <1>1, <2>1 DEF Entries
  <2>3. ASSUME NEW most \in Sizes, \A l \in Sizes : l <= most
        PROVE  size' <= LogCap + most + 1
    BY <1>1, <1>3, <2>1, <2>3 DEF CapInv
  <2>4. CapInv'
    BY <2>2, <2>3 DEF CapInv, Last
  <2> QED
    BY <1>1, <1>3, <2>1, <2>2, <2>4 DEF Last
<1>4. CASE size > LogCap /\ Last(log) \in {"dots", "mark"}
  <2>1. UNCHANGED <<log, size>>
    BY <1>1, <1>4 DEF Write
  <2>2. CapInv'
    BY <2>1 DEF CapInv, Last
  <2> QED
    BY <1>1, <1>4, <2>1, <2>2 DEF Last
<1> QED
  BY <1>1, <1>2, <1>3, <1>4

(* What is said is kept in its place, or missed by what follows it. *)
LEMMA SayKeepsCut ==
  ASSUME TypeOK, LogInv, CutInv, CapInv, NEW entry \in Entries \ {"mark"},
         NEW length \in Sizes, Say(entry, length)
  PROVE  /\ CutInv' /\ said' \in Seq(Entries \ {"mark"})
         /\ Write(entry, length)
<1> USE ScriptAssumption
<1>1. /\ log \in Seq(Entries) /\ said \in Seq(Entries \ {"mark"}) /\ size \in Nat
      /\ length \in Nat /\ LogCap \in Nat /\ said' = Append(said, entry)
      /\ Write(entry, length)
  BY DEF TypeOK, Say
<1>2. /\ said' \in Seq(Entries \ {"mark"}) /\ Len(said') = Len(said) + 1
      /\ \A i \in 1..Len(said) : said'[i] = said[i]
      /\ said'[Len(said) + 1] = entry
  BY <1>1
<1>3. /\ Len(log) <= Len(said) /\ Len(log) \in Nat /\ Len(said) \in Nat
      /\ \A i \in 1..Len(log) : log[i] = said[i] \/ (i = Len(log) /\ log[i] = "mark")
      /\ log # said => log # << >> /\ Last(log) \in {"dots", "mark"} /\ size > LogCap
  BY <1>1 DEF CutInv, CutIsMarked
<1>4. CASE size <= LogCap
  <2>1. log = said /\ log' = Append(log, entry) /\ size' = size + length
    BY <1>1, <1>3, <1>4 DEF Write
  <2>2. log' = said'
    BY <1>1, <2>1
  <2> QED
    BY <1>1, <1>2, <2>2 DEF CutInv, CutIsMarked
<1>5. CASE size > LogCap /\ Last(log) \notin {"dots", "mark"}
  <2>1. log = said /\ log' = Append(log, "mark") /\ size' = size + 1
    BY <1>1, <1>3, <1>5 DEF Write
  <2>2. /\ Len(log') = Len(said) + 1 /\ log'[Len(log')] = "mark" /\ log' # << >>
        /\ \A i \in 1..Len(said) : log'[i] = said'[i]
    BY <1>1, <1>2, <2>1
  <2>3. CutIsMarked'
    BY <1>2, <1>3, <2>2 DEF CutIsMarked, Last
  <2> QED
    BY <1>1, <1>2, <1>5, <2>1, <2>3 DEF CutInv
<1>6. CASE size > LogCap /\ Last(log) \in {"dots", "mark"}
  <2>1. log' = log /\ size' = size
    BY <1>1, <1>6 DEF Write
  <2>2. log # << >>
    BY <1>1, <1>6 DEF LogInv
  <2>3. Len(log') <= Len(said') /\ log' # << >> /\ Last(log') \in {"dots", "mark"}
    BY <1>2, <1>3, <1>6, <2>1, <2>2 DEF Last
  <2>4. \A i \in 1..Len(log') : log'[i] = said'[i] \/ (i = Len(log') /\ log'[i] = "mark")
    BY <1>2, <1>3, <2>1
  <2> QED
    BY <1>1, <1>2, <1>6, <2>1, <2>3, <2>4 DEF CutInv, CutIsMarked
<1> QED
  BY <1>1, <1>4, <1>5, <1>6

(* A message of the script brings no error into a log that has none. *)
LEMMA ScriptMessageKeepsLog ==
  ASSUME TypeOK, LogInv, CapInv, outcome # "failed",
         NEW entry \in Entries \ {"error"}, NEW length \in Sizes,
         Write(entry, length), own' = own + length
  PROVE  /\ size' <= own' \/ own' > LogCap
         /\ \A i \in 1..Len(log') : log'[i] # "error"
         /\ CapInv' /\ log' \in Seq(Entries) /\ size' \in Nat /\ log' # << >>
<1> USE ScriptAssumption
<1>1. /\ log \in Seq(Entries) /\ size \in Nat /\ own \in Nat /\ length \in Nat /\ LogCap \in Nat
      /\ size <= own \/ own > LogCap
      /\ \A i \in 1..Len(log) : log[i] # "error"
  BY DEF TypeOK, LogInv
<1>2. /\ log' \in Seq(Entries) /\ size' \in Nat /\ log' # << >>
      /\ size <= LogCap => size' = size + length /\ log' = Append(log, entry)
      /\ size > LogCap => log' = log \/ log' = Append(log, "mark")
      /\ CapInv'
  BY WriteIsBounded
<1>3. log' = log \/ \E e \in Entries \ {"error"} : log' = Append(log, e)
  BY <1>1, <1>2 DEF Entries
<1>4. \A i \in 1..Len(log') : log'[i] # "error"
  BY <1>1, <1>3
<1>5. size' <= own' \/ own' > LogCap
  BY <1>1, <1>2
<1> QED
  BY <1>2, <1>4, <1>5

(* A failure that is logged is the last entry of the log, unless the script has
   filled the log, which then ends in "...". *)
LEMMA ErrorEndsLog ==
  ASSUME TypeOK, LogInv, CutInv, CapInv, outcome # "failed", SayError
  PROVE  /\ Last(log') = "error" \/ (Last(log') \in {"dots", "mark"} /\ own' > LogCap)
         /\ CutInv' /\ said' \in Seq(Entries \ {"mark"})
         /\ CapInv' /\ log' \in Seq(Entries) /\ size' \in Nat /\ own' = own /\ log' # << >>
<1> USE ScriptAssumption
<1>1. PICK length \in Sizes : Say("error", length) /\ UNCHANGED own
  BY DEF SayError
<1>2. CutInv' /\ said' \in Seq(Entries \ {"mark"}) /\ Write("error", length)
  BY <1>1, SayKeepsCut DEF Entries
<1>3. /\ log' \in Seq(Entries) /\ size' \in Nat /\ log' # << >>
      /\ size <= LogCap => log' = Append(log, "error")
      /\ size > LogCap => Last(log') \in {"dots", "mark"}
      /\ CapInv'
  BY <1>2, WriteIsBounded DEF Entries
<1>4. /\ log \in Seq(Entries) /\ size \in Nat /\ own \in Nat /\ LogCap \in Nat
      /\ size <= own \/ own > LogCap
  BY DEF TypeOK, LogInv
<1>5. CASE size <= LogCap
  BY <1>1, <1>2, <1>4, <1>5, <1>3 DEF Last, Entries
<1>6. CASE size > LogCap
  BY <1>1, <1>2, <1>4, <1>6, <1>3
<1> QED
  BY <1>4, <1>5, <1>6

-----------------------------------------------------------------------------
(* Every step preserves IInv. *)

\* What an engine that has not started yet satisfies.
LEMMA FreshIInv ==
  ASSUME req \in [kind : Kinds, moment : Moments], pc \in {"idle", "entered"},
         currentDateTime \in Times, steps = 0, reads = {}, value = "none",
         log = << >>, size = 0, own = 0, said = << >>, outcome = "none", text = "empty",
         reason = "none"
  PROVE  IInv
<1> USE ScriptAssumption
<1>1. TypeOK
  BY DEF TypeOK, Places, Values, Outcomes, Texts, Reasons
<1>2. ProgressInv
  BY DEF ProgressInv
<1>3. LogInv
  <2>1. Len(log) = 0 /\ 1..Len(log) = {}
    OBVIOUS
  <2> QED
    BY <2>1 DEF LogInv
<1>4. CapInv
  BY DEF CapInv
<1>5. MomentInv /\ ReasonInv
  BY DEF MomentInv, ReasonInv
<1>6. CutInv
  BY DEF CutInv, CutIsMarked
<1> QED
  BY <1>1, <1>2, <1>3, <1>4, <1>5, <1>6 DEF IInv

\* No request has been taken yet in an initial state.
LEMMA InitIInv == Init => IInv
  BY FreshIInv DEF Init

(* A new request has a new engine: nothing of the last one is left. *)
LEMMA RequestIInv == IInv /\ Request => IInv'
<1> SUFFICES ASSUME Request PROVE IInv'
  OBVIOUS
<1> USE ScriptAssumption DEF Request
<1>1. TypeOK'
  BY DEF TypeOK, Places, Values, Outcomes, Texts, Reasons
<1>2. ProgressInv'
  BY DEF ProgressInv
<1>3. LogInv'
  <2>1. Len(log') = 0 /\ 1..Len(log') = {}
    OBVIOUS
  <2> QED
    BY <2>1 DEF LogInv
<1>4. CapInv'
  BY DEF CapInv
<1>5. MomentInv' /\ ReasonInv'
  BY DEF MomentInv, ReasonInv
<1>6. CutInv'
  BY DEF CutInv, CutIsMarked
<1> QED
  BY <1>1, <1>2, <1>3, <1>4, <1>5, <1>6 DEF IInv

(* A dated request other than "render" enters with its own moment. *)
LEMMA EnterIInv == IInv /\ Enter => IInv'
<1> SUFFICES ASSUME IInv, Enter PROVE IInv'
  OBVIOUS
<1>1. Given \in Times /\ (req.kind \in Dated \ {"render"} => Given = req.moment)
  BY ScriptAssumption DEF IInv, TypeOK, Given, Times, Dated
<1>2. /\ currentDateTime' = Given /\ pc' = "compile" /\ pc = "entered"
      /\ UNCHANGED <<req, steps, reads, value, log, size, own, said, outcome, text,
                     reason>>
  BY DEF Enter, script, logs, answer
<1>3. TypeOK'
  BY <1>1, <1>2 DEF IInv, TypeOK, Places
<1>4. ProgressInv' /\ MomentInv'
  BY <1>1, <1>2 DEF IInv, ProgressInv, MomentInv
<1>5. LogInv' /\ CapInv' /\ ReasonInv' /\ CutInv'
  BY <1>2 DEF IInv, LogInv, CapInv, ReasonInv, CutInv, CutIsMarked, Last
<1> QED
  BY <1>3, <1>4, <1>5 DEF IInv

(* The steps that leave the log alone and do not fail a request whose log must
   explain it. *)
LEMMA QuietIInv ==
  ASSUME IInv, UNCHANGED <<req, currentDateTime, log, size, own, said>>,
         pc' \in Places, steps' \in 0..MaxSteps, value' \in Values, text' \in Texts,
         outcome' \in Outcomes,
         pc \notin {"idle", "entered"}, pc' # "entered", pc' # "compile",
         reads' = reads \/ reads' = reads \cup {currentDateTime},
         pc' \in {"script", "result"} => outcome' = "none",
         pc' \in {"dispose", "render", "scan", "answer"} => outcome' # "none",
         pc' \in {"render", "scan"} => outcome' = "ok",
         pc' = "render" => req.kind \in Drawing,
         reason' \in Reasons,
         req.kind \in Giving =>
           \/ UNCHANGED reason /\ (outcome' = outcome \/ outcome' = "ok")
           \/ reason' = "given" /\ outcome' = "failed",
         outcome' = outcome \/ (outcome = "none" /\ outcome' = "ok")
           \/ (outcome # "failed" /\ req.kind \notin Explaining)
  PROVE  IInv'
<1>1. TypeOK'
  BY DEF IInv, TypeOK
<1>2. ProgressInv'
  BY DEF IInv, ProgressInv
<1>3. MomentInv'
  BY DEF IInv, MomentInv
<1>4. LogInv' /\ CapInv' /\ CutInv'
  BY DEF IInv, LogInv, CapInv, CutInv, CutIsMarked, Last
<1>5. ReasonInv'
  BY DEF IInv, TypeOK, ReasonInv, Outcomes, Reasons
<1> QED
  BY <1>1, <1>2, <1>3, <1>4, <1>5 DEF IInv

(* A failure that is logged. *)
LEMMA LoggedFailureIInv ==
  ASSUME IInv, pc \in {"compile", "script", "result", "render"}, SayError,
         outcome' = "failed", pc' \in {"dispose", "answer"},
         GiveReason,
         UNCHANGED <<req, currentDateTime, script, text>>
  PROVE  IInv'
<1>1. outcome # "failed"
  BY DEF IInv, ProgressInv
<1>2. /\ Last(log') = "error" \/ (Last(log') \in {"dots", "mark"} /\ own' > LogCap)
      /\ CutInv' /\ said' \in Seq(Entries \ {"mark"})
      /\ CapInv' /\ log' \in Seq(Entries) /\ size' \in Nat /\ own' = own /\ log' # << >>
  BY <1>1, ErrorEndsLog DEF IInv
<1>3. TypeOK'
  BY <1>2 DEF IInv, TypeOK, script, Outcomes, Places, GiveReason, Reasons
<1>4. LogInv'
  BY <1>2 DEF LogInv
<1>5. ProgressInv' /\ MomentInv' /\ ReasonInv'
  BY DEF IInv, ProgressInv, MomentInv, ReasonInv, script, GiveReason
<1> QED
  BY <1>2, <1>3, <1>4, <1>5 DEF IInv

(* A failure that is explained, where the entry point does. *)
LEMMA ExplainedFailureIInv ==
  ASSUME IInv, pc \in {"compile", "script", "result"}, Explain,
         outcome' = "failed", pc' = "dispose",
         UNCHANGED <<req, currentDateTime, script, text>>
  PROVE  IInv'
<1>1. CASE req.kind \in Telling
  <2>1. outcome = "none" /\ req.kind \notin Explaining
    BY <1>1 DEF IInv, ProgressInv, Telling, Explaining, TileKinds, Drawing
  <2> QED
    BY <1>1, <2>1, QuietIInv DEF Explain, GiveReason, Giving, IInv, TypeOK, script, logs, Places,
       Outcomes, Reasons
<1>2. CASE req.kind \notin Telling
  BY <1>2, LoggedFailureIInv DEF Explain
<1> QED
  BY <1>1, <1>2

\* A script that does not compile fails its request; ComputeOnce, style and check do
\* not log why, and do not answer with a log.
LEMMA CompileIInv ==
  IInv /\ (CompileFails \/ Compiles \/ ParsesScript \/ NoParser) => IInv'
<1>1. ASSUME IInv, CompileFails PROVE IInv'
  <2>1. CASE req.kind \in {"once", "style", "check"}
    BY <1>1, <2>1, QuietIInv DEF IInv, TypeOK, CompileFails, Fail, script, logs, ProgressInv,
       Places, Outcomes, Reasons, Explaining, TileKinds, Drawing, Telling, Giving, GiveReason
  <2>2. CASE req.kind \notin {"once", "style", "check"}
    BY <1>1, <2>2, ExplainedFailureIInv DEF CompileFails, Fail
  <2> QED
    BY <2>1, <2>2
<1>2. ASSUME IInv, Compiles PROVE IInv'
  BY <1>2, QuietIInv DEF IInv, TypeOK, Compiles, Succeed, script, logs, ProgressInv,
     Places, Outcomes
<1>3. ASSUME IInv, ParsesScript \/ NoParser PROVE IInv'
  BY <1>3, QuietIInv DEF IInv, TypeOK, ParsesScript, NoParser, Succeed, Fail, script, logs,
     ProgressInv, Places, Outcomes, Explaining, TileKinds, Drawing, Telling, Giving
<1> QED
  BY <1>1, <1>2, <1>3

\* A message of the script.
LEMMA ScriptLogsIInv == IInv /\ ScriptLogs => IInv'
<1> SUFFICES ASSUME IInv, ScriptLogs PROVE IInv'
  OBVIOUS
<1>1. PICK entry \in {"text", "dots"}, length \in Sizes :
        Say(entry, length) /\ own' = own + length
  BY DEF ScriptLogs
<1>2. CutInv' /\ said' \in Seq(Entries \ {"mark"}) /\ Write(entry, length)
  BY <1>1, SayKeepsCut DEF IInv, Entries
<1>3. outcome = "none" /\ outcome' = outcome /\ UNCHANGED <<req, pc, currentDateTime>>
      /\ pc = "script" /\ reads' = reads /\ value' = value /\ text' = text
      /\ reason' = reason
  BY DEF ScriptLogs, IInv, ProgressInv, answer
<1>4. /\ size' <= own' \/ own' > LogCap
      /\ \A i \in 1..Len(log') : log'[i] # "error"
      /\ CapInv' /\ log' \in Seq(Entries) /\ size' \in Nat /\ log' # << >>
  BY <1>1, <1>3, <1>2, ScriptMessageKeepsLog DEF IInv, Entries
<1>5. own' \in Nat /\ steps' \in 0..MaxSteps
  BY <1>1, ScriptAssumption DEF IInv, TypeOK, ScriptLogs
<1>6. TypeOK'
  BY <1>3, <1>4, <1>5, <1>2 DEF IInv, TypeOK
<1>7. ProgressInv' /\ MomentInv' /\ ReasonInv'
  BY <1>3 DEF IInv, ProgressInv, MomentInv, ReasonInv
<1>8. LogInv'
  BY <1>3, <1>4 DEF LogInv
<1> QED
  BY <1>4, <1>6, <1>7, <1>8, <1>2 DEF IInv

\* What else the script does.
LEMMA ScriptIInv == IInv /\ (ScriptReads \/ Throws \/ Returns) => IInv'
<1>1. ASSUME IInv, ScriptReads PROVE IInv'
  <2>1. steps' \in 0..MaxSteps
    BY <1>1, ScriptAssumption DEF IInv, TypeOK, ScriptReads
  <2> QED
    BY <1>1, <2>1, QuietIInv DEF IInv, TypeOK, ScriptReads, logs, answer, ProgressInv, Places
<1>2. ASSUME IInv, Throws PROVE IInv'
  BY <1>2, ExplainedFailureIInv DEF Throws, Fail
<1>3. ASSUME IInv, Returns PROVE IInv'
  BY <1>3, QuietIInv DEF IInv, TypeOK, Returns, logs, answer, ProgressInv, Places
<1> QED
  BY <1>1, <1>2, <1>3

\* What main() returned becomes an answer or a failure.
LEMMA ResultIInv ==
  IInv /\ (NullResult \/ TileResult \/ TextResult \/ VariableResult \/ AnyResult
            \/ StyleResult) => IInv'
<1> USE DEF Fail, Succeed
<1>1. ASSUME IInv, NullResult PROVE IInv'
  <2>1. CASE req.kind = "functionText"
    BY <1>1, <2>1, QuietIInv DEF IInv, TypeOK, NullResult, script, logs, ProgressInv, Places,
       Outcomes
  <2>2. CASE req.kind # "functionText"
    BY <1>1, <2>2, ExplainedFailureIInv DEF NullResult
  <2> QED
    BY <2>1, <2>2
<1>2. ASSUME IInv, TileResult PROVE IInv'
  <2>1. CASE value = "dataset"
    BY <1>2, <2>1, QuietIInv DEF IInv, TypeOK, TileResult, script, logs, ProgressInv, Places,
       Outcomes
  <2>2. CASE value # "dataset"
    BY <1>2, <2>2, LoggedFailureIInv DEF TileResult, Giving, Telling, TileKinds, Drawing, GiveReason
  <2> QED
    BY <2>1, <2>2
<1>3. ASSUME IInv, TextResult PROVE IInv'
  BY <1>3, QuietIInv DEF IInv, TypeOK, TextResult, script, logs, ProgressInv, Places, Outcomes,
     Texts, Explaining, TileKinds, Drawing, Telling, Giving
<1>4. ASSUME IInv, AnyResult PROVE IInv'
  BY <1>4, QuietIInv DEF IInv, TypeOK, AnyResult, script, logs, ProgressInv, Places, Outcomes
<1>5. ASSUME IInv, StyleResult PROVE IInv'
  BY <1>5, QuietIInv DEF IInv, TypeOK, StyleResult, script, logs, ProgressInv, Places, Outcomes,
     Reasons, Explaining, TileKinds, Drawing, Telling, Giving, GiveReason
<1>6. ASSUME IInv, VariableResult PROVE IInv'
  BY <1>6, QuietIInv DEF IInv, TypeOK, VariableResult, script, logs, ProgressInv, Places,
     Outcomes, Texts
<1> QED
  BY <1>1, <1>2, <1>3, <1>4, <1>5, <1>6

\* The isolate goes, a PNG is drawn or a text looked at, the answer is handed back.
LEMMA AnswerIInv ==
  IInv /\ (Dispose \/ Render \/ ScanExtent \/ ScanPairs \/ Answer) => IInv'
<1>1. ASSUME IInv, Dispose PROVE IInv'
  BY <1>1, QuietIInv DEF IInv, TypeOK, Dispose, Onward, script, logs, answer, ProgressInv,
     Places
<1>2. ASSUME IInv, Render PROVE IInv'
  <2>1. CASE SayError /\ outcome' = "failed"
    <3>1. req.kind \notin Giving
      BY <1>2 DEF IInv, ProgressInv, Render, Drawing, Telling, Giving
    <3> QED
      BY <1>2, <2>1, <3>1, LoggedFailureIInv DEF Render, GiveReason
  <2>2. CASE UNCHANGED <<logs, outcome>>
    BY <1>2, <2>2, QuietIInv DEF IInv, TypeOK, Render, script, logs, ProgressInv, Places
  <2> QED
    BY <1>2, <2>1, <2>2 DEF Render
<1>3. ASSUME IInv, Answer PROVE IInv'
  BY <1>3, QuietIInv DEF IInv, TypeOK, Answer, script, logs, answer, ProgressInv, Places
<1>4. ASSUME IInv, ScanExtent PROVE IInv'
  <2>1. outcome = "ok" /\ req.kind \notin Explaining
    BY <1>4 DEF IInv, ProgressInv, ScanExtent, Explaining, TileKinds, Drawing
  <2>2. CASE UNCHANGED <<outcome, reason>>
    BY <1>4, <2>1, <2>2, QuietIInv DEF IInv, TypeOK, ScanExtent, script, logs, Places, Outcomes
  <2>3. CASE outcome' = "failed" /\ reason' = "given"
    BY <1>4, <2>1, <2>3, QuietIInv DEF IInv, TypeOK, ScanExtent, script, logs, Places, Outcomes,
       Reasons
  <2> QED
    BY <1>4, <2>2, <2>3 DEF ScanExtent
<1>5. ASSUME IInv, ScanPairs PROVE IInv'
  <2>1. outcome = "ok" /\ req.kind \notin Explaining \cup Giving
    BY <1>5 DEF IInv, ProgressInv, ScanPairs, Explaining, TileKinds, Drawing, Telling, Giving
  <2> QED
    BY <1>5, <2>1, QuietIInv DEF IInv, TypeOK, ScanPairs, script, logs, Places, Outcomes
<1> QED
  BY <1>1, <1>2, <1>3, <1>4, <1>5

\* A step that changes nothing.
LEMMA StutterIInv == IInv /\ UNCHANGED vars => IInv'
  BY DEF IInv, TypeOK, ProgressInv, LogInv, ReasonInv, CutInv, CutIsMarked, CapInv, MomentInv,
     Last, vars, script, logs, answer

-----------------------------------------------------------------------------
(* The theorems. *)

\* IInv is inductive: every step of a request, of the script and of the engine
\* preserves it.
THEOREM RunInvariant == Spec => []IInv
<1>1. IInv /\ [Next]_vars => IInv'
  BY RequestIInv, EnterIInv, CompileIInv, ScriptLogsIInv, ScriptIInv, ResultIInv, AnswerIInv,
     StutterIInv DEF Next
<1> QED
  BY InitIInv, <1>1, PTL DEF Spec

\* Every variable stays in its domain.
THEOREM TypeCorrect == Spec => []TypeOK
  BY RunInvariant, PTL DEF IInv

\* A request through any entry point but the deprecated "render" reads the tiles of the
\* moment that was asked for, whatever was requested before it, by "render" too.
THEOREM EachReadsItsMoment == Spec => [](req.kind # "render" => RightMoment)
<1>1. IInv => (req.kind # "render" => RightMoment)
  BY DEF IInv, TypeOK, MomentInv, RightMoment
<1> QED
  BY RunInvariant, <1>1, PTL

\* A request that answers with its log and fails ends it with an error, or, where its
\* script has filled the log before, with "..."; one that succeeds has no error in its log.
\* One that gives a reason gives it exactly when it fails.
THEOREM FailuresAreExplained == Spec => []ErrorExplained
<1>1. IInv => ErrorExplained
  BY DEF IInv, LogInv, ReasonInv, ErrorExplained
<1> QED
  BY RunInvariant, <1>1, PTL

\* Whatever is logged, the log is the beginning of it, and tells where anything is missing.
THEOREM CutsAreMarked == Spec => []CutIsMarked
<1>1. IInv => CutIsMarked
  BY DEF IInv, CutInv
<1> QED
  BY RunInvariant, <1>1, PTL

\* The log outgrows its limit by a message and a mark at most.
THEOREM LogIsBounded == Spec => []LogBounded
<1>1. IInv => LogBounded
  BY ScriptAssumption DEF IInv, TypeOK, CapInv, LogBounded
<1> QED
  BY RunInvariant, <1>1, PTL
=============================================================================
